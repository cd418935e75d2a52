--------------------------- MODULE ProfileAvatar ---------------------------
(***************************************************************************)
(* The profile of one user and its avatar file (user_interface/models.py). *)
(* UserProfile.save looks up the avatar of the row, saves, and deletes the *)
(* file looked up if the instance names another one.  Requests save an     *)
(* instance they have loaded before: all columns of it (profile settings,  *)
(* PUT /users, admin), or the language alone (SessionLanguageView).        *)
(***************************************************************************)
EXTENDS Naturals, FiniteSets

CONSTANTS
  Savers,        \* requests that may be under way at a time
  NoSave,
  NoAvatar,      \* the empty file name
  MaxAvatars,    \* bound: files
  MaxDeaths      \* bound: workers that die

VARIABLES
  profile,      \* avatar_image of the row
  avatars,      \* the files that exist
  written,      \* files ever stored
  saves,        \* [language, avatar, new, step, previous] of each saver, or NoSave
  deaths,
  overlap       \* history: two saves have been under way at a time

avatarVars == <<profile, avatars, written, saves, deaths, overlap>>

Named == (1..MaxAvatars) \cup {NoAvatar}
Save == [language : BOOLEAN,   \* update_fields: the language only
         avatar : Named,       \* of the instance
         new : BOOLEAN,        \* it is an upload that is not stored yet
         step : {"look", "save", "drop"},
         previous : Named]     \* looked up in the database

ASSUME AvatarAssumption ==
  /\ MaxAvatars \in Nat /\ MaxDeaths \in Nat
  /\ NoAvatar \notin Nat /\ NoSave \notin Save

Saving(v, step) == saves[v] # NoSave /\ saves[v].step = step
-----------------------------------------------------------------------------
AvatarInit ==
  /\ profile = NoAvatar /\ avatars = {} /\ written = 0
  /\ saves = [v \in Savers |-> NoSave]
  /\ deaths = 0 /\ overlap = FALSE

\* A request has loaded the profile and changed the instance: update_user_profile
\* (a new image, none, or the same), UserController._update_profile (the same),
\* or SessionLanguageView.
LoadProfile(v, language, avatar, new) ==
  /\ saves[v] = NoSave
  /\ language => avatar = profile /\ ~new
  /\ avatar \in {profile, NoAvatar}
  /\ saves' = [saves EXCEPT ![v] = [language |-> language, avatar |-> avatar, new |-> new,
                                    step |-> "look", previous |-> NoAvatar]]
  /\ overlap' = (overlap \/ \E u \in Savers : saves[u] # NoSave)
  /\ UNCHANGED <<profile, avatars, written, deaths>>

LookUpPrevious(v) ==
  /\ Saving(v, "look")
  /\ saves' = [saves EXCEPT ![v].previous = profile, ![v].step = "save"]
  /\ UNCHANGED <<profile, avatars, written, deaths, overlap>>

\* super().save: an upload is stored, then the row is written.
WriteProfile(v) ==
  /\ Saving(v, "save")
  /\ IF saves[v].new
       THEN /\ written < MaxAvatars /\ written' = written + 1
            /\ avatars' = avatars \cup {written'}
            /\ saves' = [saves EXCEPT ![v].avatar = written', ![v].new = FALSE, ![v].step = "drop"]
       ELSE /\ saves' = [saves EXCEPT ![v].step = "drop"]
            /\ UNCHANGED <<avatars, written>>
  /\ profile' = IF saves[v].language THEN profile ELSE saves'[v].avatar
  /\ UNCHANGED <<deaths, overlap>>

\* Mutant: whichever the instance names.
DropAlways(v) ==
  /\ Saving(v, "drop")
  /\ avatars' = avatars \ {saves[v].previous}
  /\ saves' = [saves EXCEPT ![v] = NoSave]
  /\ UNCHANGED <<profile, written, deaths, overlap>>

\* The instance is compared, not the row.
DropPrevious(v) ==
  /\ Saving(v, "drop")
  /\ avatars' = IF saves[v].avatar = saves[v].previous THEN avatars
                ELSE avatars \ {saves[v].previous}
  /\ saves' = [saves EXCEPT ![v] = NoSave]
  /\ UNCHANGED <<profile, written, deaths, overlap>>

SaverDies(v) ==
  /\ saves[v] # NoSave
  /\ deaths < MaxDeaths /\ deaths' = deaths + 1
  /\ saves' = [saves EXCEPT ![v] = NoSave]
  /\ UNCHANGED <<profile, avatars, written, overlap>>

AvatarNext ==
  \E v \in Savers :
    \/ \E language, new \in BOOLEAN, avatar \in Named : LoadProfile(v, language, avatar, new)
    \/ LookUpPrevious(v) \/ WriteProfile(v) \/ DropPrevious(v) \/ SaverDies(v)

AvatarSpec == AvatarInit /\ [][AvatarNext]_avatarVars
-----------------------------------------------------------------------------
(* Correctness.                                                            *)

AvatarTypeOK ==
  /\ profile \in Named
  /\ avatars \subseteq 1..written /\ written \in 0..MaxAvatars
  /\ saves \in [Savers -> Save \cup {NoSave}]
  /\ deaths \in 0..MaxDeaths /\ overlap \in BOOLEAN

\* The profile names a file that exists, also after a worker has died at any
\* point of a save, unless two saves have overlapped (UserProfile.save): a
\* change of the language that has loaded the row before an upload deletes the
\* upload.
AvatarExists == ~overlap => profile \in avatars \cup {NoAvatar}

\* Saves that come to their end one after the other leave no file behind but
\* the one the profile names.
NoAvatarLeftBehind ==
  ~overlap /\ deaths = 0 /\ (\A v \in Savers : saves[v] = NoSave) =>
    avatars = {profile} \ {NoAvatar}

\* The file the profile names is there, and no other.
AvatarFollowsProfile == AvatarExists /\ NoAvatarLeftBehind
=============================================================================
