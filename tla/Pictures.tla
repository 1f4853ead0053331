------------------------------ MODULE Pictures ------------------------------
(***************************************************************************)
(* The picture of an agent (or the image of a project, or the picture of   *)
(* the profile): a row that names a file, and the file.  The row changes   *)
(* in the database at once; the file is written and removed by system      *)
(* calls that the handler waits for, and other requests run meanwhile.     *)
(* The process can be killed between any two of these steps.               *)
(*                                                                         *)
(* An agent has all the operations.  A project has no removal of its image,*)
(* the profile is never deleted.  File names are UUIDs, numbered here in   *)
(* the order they are drawn.                                               *)
(***************************************************************************)
EXTENDS Integers, FiniteSets

CONSTANTS
  Requests,   \* slots for concurrent HTTP requests
  MaxFiles    \* bound: names drawn

ASSUME PicturesAssumption == IsFiniteSet(Requests) /\ MaxFiles \in Nat

VARIABLES
  exists,   \* the agents row is there
  picture,  \* agents.picture_path, 0 for NULL
  files,    \* the finished files in the bucket
  temps,    \* the .tmp- files in the bucket
  drawn,    \* the names drawn so far
  req,      \* the requests being served
  alone,    \* history: no two requests ever overlapped
  smooth    \* history: nothing ever failed, the process was never killed

disk == <<files, temps, drawn>>
vars == <<exists, picture, disk, req, alone, smooth>>

Names == 1..MaxFiles

(* at: the system call the handler waits for. "stored": the file is there, *)
(* the handler does not know yet.                                          *)
Request == [at : {"idle", "writing", "renaming", "stored", "failed", "discarding"},
            new : Names \cup {0},    \* the name drawn for the upload
            old : Names \cup {0}]    \* the picture the row named when it was read

Idle == [at |-> "idle", new |-> 0, old |-> 0]

TypeOK ==
  /\ exists \in BOOLEAN
  /\ picture \in Names \cup {0}
  /\ files \subseteq Names
  /\ temps \subseteq Names
  /\ drawn \in 0..MaxFiles
  /\ req \in [Requests -> Request]
  /\ alone \in BOOLEAN
  /\ smooth \in BOOLEAN

Init ==
  /\ exists = TRUE
  /\ picture = 0
  /\ files = {}
  /\ temps = {}
  /\ drawn = 0
  /\ req = [r \in Requests |-> Idle]
  /\ alone = TRUE
  /\ smooth = TRUE

-----------------------------------------------------------------------------
Begin(r, request) ==
  /\ req[r].at = "idle"
  /\ req' = [req EXCEPT ![r] = request]
  /\ alone' = (alone /\ \A s \in Requests : req[s].at = "idle")
  /\ UNCHANGED smooth

Step(r, from, request) ==
  /\ req[r].at = from
  /\ req' = [req EXCEPT ![r] = request]
  /\ UNCHANGED alone

Waits(r, place) == [req[r] EXCEPT !.at = place]

-----------------------------------------------------------------------------
(* Uploading. *)

(* The row is read, the file checked and its name drawn. *)
Upload(r) ==
  /\ exists /\ drawn < MaxFiles
  /\ Begin(r, [at |-> "writing", new |-> drawn + 1, old |-> picture])
  /\ drawn' = drawn + 1
  /\ UNCHANGED <<exists, picture, files, temps>>

WriteTemp(r) ==
  /\ Step(r, "writing", Waits(r, "renaming"))
  /\ temps' = temps \cup {req[r].new}
  /\ UNCHANGED <<exists, picture, files, drawn, smooth>>

Rename(r) ==
  /\ Step(r, "renaming", Waits(r, "stored"))
  /\ temps' = temps \ {req[r].new}
  /\ files' = files \cup {req[r].new}
  /\ UNCHANGED <<exists, picture, drawn, smooth>>

(* Writing fails, perhaps half-way, or renaming does. *)
WriteFails(r) ==
  /\ \/ Step(r, "writing", Waits(r, "failed")) /\ temps' \in {temps, temps \cup {req[r].new}}
     \/ Step(r, "renaming", Waits(r, "failed")) /\ UNCHANGED temps
  /\ smooth' = FALSE
  /\ UNCHANGED <<exists, picture, files, drawn>>

(* The temporary file is removed; if that fails it is not noticed. *)
UnlinkTemp(r) ==
  /\ Step(r, "failed", Idle)
  /\ temps' \in {temps, temps \ {req[r].new}}
  /\ UNCHANGED <<exists, picture, files, drawn, smooth>>

(* Mutant of Record: the name to discard is taken from the row after the  *)
(* update.                                                                 *)
RecordThenDiscardNew(r) ==
  /\ Step(r, "stored", IF req[r].old = 0 THEN Idle
                       ELSE [req[r] EXCEPT !.at = "discarding", !.old = req[r].new])
  /\ picture' = IF exists THEN req[r].new ELSE picture
  /\ UNCHANGED <<exists, files, temps, drawn, smooth>>

(* The row names the new file - if it is still there - and the file named  *)
(* by the row when it was read is discarded.                               *)
Record(r) ==
  /\ Step(r, "stored", IF req[r].old = 0 THEN Idle ELSE Waits(r, "discarding"))
  /\ picture' = IF exists THEN req[r].new ELSE picture
  /\ UNCHANGED <<exists, files, temps, drawn, smooth>>

-----------------------------------------------------------------------------
(* Removing. *)

Clear(r) ==
  /\ exists /\ picture # 0
  /\ Begin(r, [at |-> "discarding", new |-> 0, old |-> picture])
  /\ picture' = 0
  /\ UNCHANGED <<exists, files, temps, drawn>>

DeleteOwner(r) ==
  /\ exists
  /\ Begin(r, IF picture = 0 THEN Idle ELSE [at |-> "discarding", new |-> 0, old |-> picture])
  /\ exists' = FALSE
  /\ picture' = 0
  /\ UNCHANGED <<files, temps, drawn>>

(* Mutant of Discard: it answers before the file is removed. *)
DiscardForgets(r) ==
  /\ Step(r, "discarding", Idle)
  /\ UNCHANGED <<exists, picture, files, temps, drawn, smooth>>

(* A file that is already gone is no error. *)
Discard(r) ==
  /\ Step(r, "discarding", Idle)
  /\ files' = files \ {req[r].old}
  /\ UNCHANGED <<exists, picture, temps, drawn, smooth>>

(* A file that cannot be removed is logged and left. *)
DiscardFails(r) ==
  /\ Step(r, "discarding", Idle)
  /\ smooth' = FALSE
  /\ UNCHANGED <<exists, picture, files, temps, drawn>>

(* The process is killed; a file it was writing may be there in part.      *)
Crash ==
  /\ \E r \in Requests : req[r].at # "idle"
  /\ \E partly \in SUBSET {req[r].new : r \in {s \in Requests : req[s].at = "writing"}} :
       temps' = temps \cup partly
  /\ req' = [r \in Requests |-> Idle]
  /\ smooth' = FALSE
  /\ UNCHANGED <<exists, picture, files, drawn, alone>>

-----------------------------------------------------------------------------
Serving(r) ==
  \/ Upload(r) \/ WriteTemp(r) \/ Rename(r) \/ WriteFails(r) \/ UnlinkTemp(r) \/ Record(r)
  \/ Clear(r) \/ DeleteOwner(r) \/ Discard(r) \/ DiscardFails(r)

Next == (\E r \in Requests : Serving(r)) \/ Crash

Spec == Init /\ [][Next]_vars

-----------------------------------------------------------------------------
(* Properties. *)

Named == IF exists /\ picture # 0 THEN {picture} ELSE {}

(* Whatever overlaps, fails or is killed: a picture the row names is there *)
(* and complete, and no request is about to remove it (uploadPicture,      *)
(* deletePicture, delete).                                                 *)
PictureStored ==
  /\ Named \subseteq files
  /\ \A r \in Requests : req[r].at = "discarding" => req[r].old \notin Named

(* Served one at a time and without failures, requests leave the file the  *)
(* row names and nothing else: the previous picture is gone, and so is the *)
(* picture of a deleted agent.                                             *)
NothingLeftAlone ==
  alone /\ smooth /\ (\A r \in Requests : req[r].at = "idle") => files \cup temps = Named
=============================================================================
