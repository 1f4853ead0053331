--------------------------- MODULE PicturesProofs ---------------------------
(* What holds of the pictures for every number of requests and names. *)
EXTENDS Pictures, TLAPS

(* The name a request has drawn and the row does not know yet. *)
Uploading(r) == req[r].at \in {"writing", "renaming", "stored"}

(* Every name in use was drawn, so that the next one is fresh. *)
Drawn ==
  /\ picture <= drawn
  /\ \A r \in Requests : req[r].new <= drawn /\ req[r].old <= drawn

(* A name on its way into the row is nobody else's: not the row's, not that *)
(* of another upload, and not one that is to be discarded.                  *)
Private ==
  \A r \in Requests : Uploading(r) =>
    /\ req[r].new # 0
    /\ req[r].new # picture
    /\ \A s \in Requests :
         /\ req[s].old # req[r].new
         /\ s # r /\ Uploading(s) => req[s].new # req[r].new

(* What the row names, or is about to name, is there. *)
Stored ==
  /\ picture # 0 => picture \in files
  /\ \A r \in Requests : req[r].at = "stored" => req[r].new \in files

(* What is being discarded, the row does not name. *)
Discarded ==
  /\ \A r \in Requests : req[r].at = "discarding" => req[r].old # 0 /\ req[r].old # picture
  /\ ~exists => picture = 0

(* The inductive invariant. PictureStored is not inductive by itself: it   *)
(* says nothing of an upload that has yet to reach the row, and the file    *)
(* of one upload is safe from the other requests only because names are     *)
(* never drawn twice.                                                       *)
IInv == TypeOK /\ Drawn /\ Private /\ Stored /\ Discarded

-----------------------------------------------------------------------------
(* The initial states satisfy the inductive invariant. *)
LEMMA InitIInv == Init => IInv
BY PicturesAssumption DEF Init, IInv, TypeOK, Drawn, Private, Stored, Discarded, Uploading,
   Idle, Request, Names

(* Every step - of any handler, at any of its waits, or a crash - keeps the *)
(* inductive invariant.                                                     *)
LEMMA NextIInv == IInv /\ [Next]_vars => IInv'
<1> SUFFICES ASSUME IInv, [Next]_vars PROVE IInv'
  OBVIOUS
<1> USE PicturesAssumption DEF IInv, Names, Request, Idle
<1>1. ASSUME NEW r \in Requests, Upload(r) PROVE IInv'
  <2> USE <1>1 DEF Upload, Begin
  <2>1. TypeOK' BY DEF TypeOK
  <2>2. Drawn' BY DEF TypeOK, Drawn
  <2>3. Private' BY DEF TypeOK, Drawn, Private, Uploading
  <2>4. Stored' BY DEF TypeOK, Stored
  <2>5. Discarded' BY DEF TypeOK, Discarded
  <2> QED BY <2>1, <2>2, <2>3, <2>4, <2>5
<1>2. ASSUME NEW r \in Requests, WriteTemp(r) PROVE IInv'
  <2> USE <1>2 DEF WriteTemp, Step, Waits
  <2>1. TypeOK' BY DEF TypeOK, Private, Uploading
  <2>2. Drawn' BY DEF TypeOK, Drawn
  <2>3. Private' BY DEF TypeOK, Private, Uploading
  <2>4. Stored' BY DEF TypeOK, Stored
  <2>5. Discarded' BY DEF TypeOK, Discarded
  <2> QED BY <2>1, <2>2, <2>3, <2>4, <2>5
<1>3. ASSUME NEW r \in Requests, Rename(r) PROVE IInv'
  <2> USE <1>3 DEF Rename, Step, Waits
  <2>1. TypeOK' BY DEF TypeOK, Private, Uploading
  <2>2. Drawn' BY DEF TypeOK, Drawn
  <2>3. Private' BY DEF TypeOK, Private, Uploading
  <2>4. Stored' BY DEF TypeOK, Stored
  <2>5. Discarded' BY DEF TypeOK, Discarded
  <2> QED BY <2>1, <2>2, <2>3, <2>4, <2>5
<1>4. ASSUME NEW r \in Requests, WriteFails(r) PROVE IInv'
  <2> USE <1>4 DEF WriteFails, Step, Waits
  <2>1. TypeOK' BY ZenonT(60) DEF TypeOK, Private, Uploading
  <2>2. Drawn' BY DEF TypeOK, Drawn
  <2>3. Private' BY DEF TypeOK, Private, Uploading
  <2>4. Stored' BY DEF TypeOK, Stored
  <2>5. Discarded' BY DEF TypeOK, Discarded
  <2> QED BY <2>1, <2>2, <2>3, <2>4, <2>5
<1>5. ASSUME NEW r \in Requests, UnlinkTemp(r) PROVE IInv'
  <2> USE <1>5 DEF UnlinkTemp, Step
  <2>1. TypeOK' BY DEF TypeOK
  <2>2. Drawn' BY DEF TypeOK, Drawn
  <2>3. Private' BY DEF TypeOK, Private, Uploading
  <2>4. Stored' BY DEF TypeOK, Stored
  <2>5. Discarded' BY DEF TypeOK, Discarded
  <2> QED BY <2>1, <2>2, <2>3, <2>4, <2>5
<1>6. ASSUME NEW r \in Requests, Record(r) PROVE IInv'
  <2> USE <1>6 DEF Record, Step, Waits
  <2>1. TypeOK' BY DEF TypeOK
  <2>2. Drawn' BY DEF TypeOK, Drawn
  <2>3. Private' BY DEF TypeOK, Private, Uploading
  <2>4. Stored' BY DEF TypeOK, Stored
  <2>5. Discarded' BY DEF TypeOK, Discarded, Private, Uploading
  <2> QED BY <2>1, <2>2, <2>3, <2>4, <2>5
<1>7. ASSUME NEW r \in Requests, Clear(r) PROVE IInv'
  <2> USE <1>7 DEF Clear, Begin
  <2>1. TypeOK' BY DEF TypeOK
  <2>2. Drawn' BY DEF TypeOK, Drawn
  <2>3. Private' BY DEF TypeOK, Private, Uploading
  <2>4. Stored' BY DEF TypeOK, Stored
  <2>5. Discarded' BY DEF TypeOK, Discarded
  <2> QED BY <2>1, <2>2, <2>3, <2>4, <2>5
<1>8. ASSUME NEW r \in Requests, DeleteOwner(r) PROVE IInv'
  <2> USE <1>8 DEF DeleteOwner, Begin
  <2>1. TypeOK' BY DEF TypeOK
  <2>2. Drawn' BY DEF TypeOK, Drawn
  <2>3. Private' BY DEF TypeOK, Private, Uploading
  <2>4. Stored' BY DEF TypeOK, Stored
  <2>5. Discarded' BY DEF TypeOK, Discarded
  <2> QED BY <2>1, <2>2, <2>3, <2>4, <2>5
<1>9. ASSUME NEW r \in Requests, Discard(r) PROVE IInv'
  <2> USE <1>9 DEF Discard, Step
  <2>1. TypeOK' BY DEF TypeOK
  <2>2. Drawn' BY DEF TypeOK, Drawn
  <2>3. Private' BY DEF TypeOK, Private, Uploading
  <2>4. Stored' BY DEF TypeOK, Stored, Discarded, Private, Uploading
  <2>5. Discarded' BY DEF TypeOK, Discarded
  <2> QED BY <2>1, <2>2, <2>3, <2>4, <2>5
<1>10. ASSUME NEW r \in Requests, DiscardFails(r) PROVE IInv'
  <2> USE <1>10 DEF DiscardFails, Step
  <2>1. TypeOK' BY DEF TypeOK
  <2>2. Drawn' BY DEF TypeOK, Drawn
  <2>3. Private' BY DEF TypeOK, Private, Uploading
  <2>4. Stored' BY DEF TypeOK, Stored
  <2>5. Discarded' BY DEF TypeOK, Discarded
  <2> QED BY <2>1, <2>2, <2>3, <2>4, <2>5
<1>11. ASSUME Crash PROVE IInv'
  <2> USE <1>11 DEF Crash
  <2>1. TypeOK'
    <3> DEFINE Half == {req[r].new : r \in {s \in Requests : req[s].at = "writing"}}
    <3>1. Half \subseteq Names
      BY DEF TypeOK, Private, Uploading
    <3>2. temps' \subseteq Names
      BY <3>1 DEF TypeOK
    <3> QED BY <3>2 DEF TypeOK
  <2>2. Drawn' BY DEF TypeOK, Drawn
  <2>3. Private' BY DEF Private, Uploading
  <2>4. Stored' BY DEF TypeOK, Stored
  <2>5. Discarded' BY DEF TypeOK, Discarded
  <2> QED BY <2>1, <2>2, <2>3, <2>4, <2>5
<1>12. CASE UNCHANGED vars
  BY <1>12 DEF vars, disk, TypeOK, Drawn, Private, Uploading, Stored, Discarded
<1> QED
  BY <1>1, <1>2, <1>3, <1>4, <1>5, <1>6, <1>7, <1>8, <1>9, <1>10, <1>11, <1>12 DEF Next, Serving

(* The inductive invariant gives what the run checks. *)
LEMMA IInvPictureStored == IInv => PictureStored
BY DEF IInv, PictureStored, Named, Stored, Discarded

-----------------------------------------------------------------------------
(* The state keeps its types (uploadPicture, deletePicture, delete and      *)
(* their waits).                                                            *)
THEOREM TypeInvariant == Spec => []TypeOK
<1>1. IInv => TypeOK
  BY DEF IInv
<1> QED
  BY InitIInv, NextIInv, <1>1, PTL DEF Spec

(* However many requests upload, remove and delete at the same time, and    *)
(* wherever one fails or the process is killed: the picture that the row    *)
(* names is stored, and nobody is about to discard it.                      *)
THEOREM NamedPictureIsStored == Spec => []PictureStored
<1> QED
  BY InitIInv, NextIInv, IInvPictureStored, PTL DEF Spec

-----------------------------------------------------------------------------
(* What is on the disk when requests come one at a time and nothing fails. *)

Busy(r) == req[r].at # "idle"

(* What a request has on the disk beside the file that the row names. *)
Holds(r) == IF req[r].at = "stored" THEN {req[r].new}
            ELSE IF req[r].at = "discarding" THEN {req[r].old} ELSE {}
HoldsTemp(r) == IF req[r].at = "renaming" THEN {req[r].new} ELSE {}

(* At most one request is served, and the disk holds what the row names    *)
(* and what that request has there.  An upload finds the row as it read it.*)
Tidy ==
  alone /\ smooth =>
    /\ \A r, s \in Requests : Busy(r) /\ Busy(s) => r = s
    /\ (\A r \in Requests : ~Busy(r)) => files = Named /\ temps = {}
    /\ \A r \in Requests : Busy(r) =>
         /\ req[r].at # "failed"
         /\ Uploading(r) => exists /\ req[r].old = picture
         /\ files = Named \cup Holds(r)
         /\ temps = HoldsTemp(r)

LEMMA TidyInit == Init => Tidy
BY DEF Init, Tidy, Busy, Named, Idle

LEMMA TidyNext == IInv /\ Tidy /\ [Next]_vars => Tidy'
<1> SUFFICES ASSUME IInv, Tidy, [Next]_vars PROVE Tidy'
  OBVIOUS
<1> USE DEF Idle
<1>t. req \in [Requests -> Request] BY DEF IInv, TypeOK
<1>1. CASE UNCHANGED vars
  BY <1>1 DEF vars, disk, Tidy, Busy, Named, Uploading, Holds, HoldsTemp
<1>2. CASE Crash BY <1>2 DEF Crash, Tidy
(* A request comes: none is served, or two overlap. *)
<1>b. ASSUME NEW r \in Requests, NEW request, Begin(r, request), alone', smooth'
      PROVE  /\ \A s \in Requests : ~Busy(s)
             /\ \A s \in Requests : req'[s] = IF s = r THEN request ELSE req[s]
             /\ files = Named /\ temps = {}
  BY <1>t, <1>b DEF Begin, Tidy, Busy
<1>3. ASSUME NEW r \in Requests, Upload(r) PROVE Tidy'
  BY <1>3, <1>b DEF Upload, Tidy, Busy, Named, Uploading, Holds, HoldsTemp
<1>4. ASSUME NEW r \in Requests, Clear(r) PROVE Tidy'
  BY <1>4, <1>b DEF Clear, Tidy, Busy, Named, Uploading, Holds, HoldsTemp
<1>5. ASSUME NEW r \in Requests, DeleteOwner(r) PROVE Tidy'
  BY <1>5, <1>b DEF DeleteOwner, Tidy, Busy, Named, Uploading, Holds, HoldsTemp
(* The request being served goes on, alone. *)
<1>s. ASSUME NEW r \in Requests, NEW from, NEW request, Step(r, from, request), from # "idle",
             alone', smooth', smooth' = smooth
      PROVE  /\ \A s \in Requests : s # r => ~Busy(s) /\ ~Busy(s)'
             /\ req'[r] = request /\ Busy(r) /\ req[r].at = from /\ from # "failed"
             /\ Uploading(r) => exists /\ req[r].old = picture
             /\ files = Named \cup Holds(r)
             /\ temps = HoldsTemp(r)
  BY <1>t, <1>s DEF Step, Tidy, Busy
(* What the step has to leave. *)
<1>g. ASSUME NEW r \in Requests, \A s \in Requests : s # r => ~Busy(s)',
             Busy(r)' => /\ req'[r].at # "failed"
                         /\ Uploading(r)' => exists' /\ req'[r].old = picture'
                         /\ files' = Named' \cup Holds(r)'
                         /\ temps' = HoldsTemp(r)',
             ~Busy(r)' => files' = Named' /\ temps' = {}
      PROVE  Tidy'
  BY <1>g DEF Tidy
<1>6. ASSUME NEW r \in Requests, WriteTemp(r) PROVE Tidy'
  BY <1>t, <1>6, <1>s, <1>g DEF WriteTemp, Waits, Request, Tidy, Busy, Named, Uploading, Holds, HoldsTemp
<1>7. ASSUME NEW r \in Requests, Rename(r) PROVE Tidy'
  BY <1>t, <1>7, <1>s, <1>g DEF Rename, Waits, Request, Tidy, Busy, Named, Uploading, Holds, HoldsTemp
<1>8. ASSUME NEW r \in Requests, WriteFails(r) PROVE Tidy'
  BY <1>8 DEF WriteFails, Tidy
<1>9. ASSUME NEW r \in Requests, UnlinkTemp(r) PROVE Tidy'
  BY <1>9, <1>s DEF UnlinkTemp, Tidy
<1>10. ASSUME NEW r \in Requests, Record(r) PROVE Tidy'
  <2> SUFFICES ASSUME alone', smooth' PROVE Tidy'
    BY DEF Tidy
  <2> DEFINE next == IF req[r].old = 0 THEN Idle ELSE Waits(r, "discarding")
  <2>1. Step(r, "stored", next) /\ smooth' = smooth BY <1>10 DEF Record
  <2>a. next = IF req[r].old = 0 THEN Idle ELSE Waits(r, "discarding") OBVIOUS
  <2> HIDE DEF next
  <2>b. /\ \A s \in Requests : s # r => ~Busy(s)'
        /\ req'[r] = next /\ req[r].at = "stored"
        /\ Uploading(r) => exists /\ req[r].old = picture
        /\ files = Named \cup Holds(r) /\ temps = HoldsTemp(r)
    BY <1>s, <2>1
  <2>2. exists /\ req[r].old = picture /\ files = Named \cup {req[r].new} /\ temps = {}
    BY <2>b DEF Uploading, Holds, HoldsTemp
  <2>3. exists' /\ picture' = req[r].new /\ UNCHANGED <<files, temps>> /\ req[r].new # 0
    BY <1>10, <2>b, <2>2 DEF Record, IInv, Private, Uploading
  <2>4. Named' = {req[r].new} BY <2>3 DEF Named
  <2>5. CASE req[r].old = 0
    <3>1. Named = {} /\ req'[r].at = "idle" BY <2>a, <2>b, <2>2, <2>5 DEF Named
    <3> QED BY <1>g, <2>b, <2>2, <2>3, <2>4, <3>1 DEF Busy
  <2>6. CASE req[r].old # 0
    <3>1. Named = {req[r].old} BY <2>2, <2>6 DEF Named
    <3>2. req'[r].at = "discarding" /\ req'[r].old = req[r].old BY <1>t, <2>a, <2>b, <2>6 DEF Waits, Request
    <3>3. files' = Named' \cup Holds(r)' /\ temps' = HoldsTemp(r)'
      BY <2>2, <2>3, <2>4, <3>1, <3>2 DEF Holds, HoldsTemp
    <3> QED BY <1>g, <2>b, <3>2, <3>3 DEF Busy, Uploading
  <2> QED BY <2>5, <2>6
<1>11. ASSUME NEW r \in Requests, Discard(r) PROVE Tidy'
  BY <1>t, <1>11, <1>s, <1>g DEF Discard, Tidy, Busy, Named, Uploading, Holds, HoldsTemp, IInv, Discarded
<1>12. ASSUME NEW r \in Requests, DiscardFails(r) PROVE Tidy'
  BY <1>12 DEF DiscardFails, Tidy
<1> QED
  BY <1>1, <1>2, <1>3, <1>4, <1>5, <1>6, <1>7, <1>8, <1>9, <1>10, <1>11, <1>12 DEF Next, Serving

(* Requests that come one at a time, none of which fails, leave the file   *)
(* that the row names and no other, finished or not: for any number of     *)
(* uploads, removals and a deletion in any order (uploadPicture,           *)
(* deletePicture, delete).                                                 *)
THEOREM NothingIsLeft == Spec => []NothingLeftAlone
<1>1. Tidy => NothingLeftAlone
  BY DEF Tidy, NothingLeftAlone, Busy
<1> QED
  BY InitIInv, NextIInv, TidyInit, TidyNext, <1>1, PTL DEF Spec
=============================================================================
