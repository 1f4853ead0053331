--------------------------- MODULE ChatTurnsProofs ---------------------------
(***************************************************************************)
(* What holds of ChatTurns for every set of requests and models and for    *)
(* every bound.  The inductive invariant IInv adds to the types            *)
(*   Shaped:  which waiting places a request of each kind has;             *)
(*   Reserved: what a live stream's row looks like, and that no two live   *)
(*            streams share a row;                                         *)
(*   Owned:   every in-flight row has its stream;                          *)
(*   Covered: the stored summary, and what every compaction under way is   *)
(*            going to store, account for each message below its boundary  *)
(*            that is, or can still become, visible to a model.            *)
(* What a client is promised - the chat is a transcript, a settled stream  *)
(* left the row its outcome calls for, a reply is charged at most once and *)
(* only if it is complete - rests on Accounts, which goes beyond IInv: the *)
(* rows of the streams, settled ones included, are theirs alone, and what  *)
(* is charged is known for each message, for those that are not there yet  *)
(* and for those in flight.                                                *)
(***************************************************************************)
EXTENDS ChatTurns, TLAPS, SequenceTheorems, FiniteSetTheorems

Shaped ==
  /\ ~exists => rows = <<>> /\ summary = NoSummary
  /\ ~up => \A r \in Requests : req[r] = Idle
  /\ \A r \in Requests :
       /\ req[r].op = "idle" => req[r].at = "idle"
       /\ req[r].op \in {"complete", "compact"} => req[r].at \in {"headers", "body"}
       /\ req[r].op = "stream" => req[r].at # "idle"

Reserved ==
  exists =>
    /\ \A r \in Requests : IsLive(r) =>
         /\ req[r].row \in DOMAIN rows
         /\ rows[req[r].row].status = (IF req[r].got = 0 THEN "pending" ELSE "streaming")
         /\ rows[req[r].row].text <= req[r].got
         /\ req[r].got > 0 => rows[req[r].row].text > 0
    /\ \A r, s \in Requests : IsLive(r) /\ IsLive(s) /\ req[r].row = req[s].row => r = s

Owned ==
  up /\ exists =>
    \A n \in DOMAIN rows : rows[n].status \in InFlight =>
      \E r \in Requests : IsLive(r) /\ req[r].row = n

(* A message that a model is shown, or may be shown once it has settled. *)
Relevant(row) == row.status \in InFlight \/ Contextual(row)

Covers(p) ==
  /\ p.before <= Len(rows) + 1
  /\ \A n \in DOMAIN rows : n < p.before /\ Relevant(rows[n]) =>
       n \in p.folded \cup p.overtaken \cup p.blanked
  /\ \A n \in p.folded : n < p.before

Covered ==
  /\ Covers(summary)
  /\ exists => \A r \in Requests : req[r].op = "compact" => Covers(req[r].plan)

IInv == TypeOK /\ Shaped /\ Reserved /\ Owned /\ Covered

-----------------------------------------------------------------------------
(* The helpers that write the database keep its types. *)

LEMMA FlushTyped ==
  ASSUME TypeOK, NEW r \in Requests,
         NEW status \in {"pending", "streaming", "complete", "error"}, NEW text \in Text,
         Flush(r, status, text)
  PROVE  rows' \in Seq(Row)
<1> DEFINE k == req[r].row
<1>1. CASE exists /\ k \in DOMAIN rows
  <2>1. rows[k] \in Row
    BY <1>1, ElementOfSeq DEF TypeOK
  <2>2. [author |-> rows[k].author, status |-> status, text |-> text] \in Row
    BY <2>1 DEF Row
  <2> QED
    BY <1>1, <2>2, ExceptSeq DEF TypeOK, Flush
<1>2. CASE ~(exists /\ k \in DOMAIN rows)
  <2>1. rows' = rows
    BY <1>2 DEF Flush, TypeOK
  <2> QED
    BY <2>1 DEF TypeOK
<1> QED
  BY <1>1, <1>2

LEMMA ChargeTyped ==
  ASSUME TypeOK, NEW kind \in {"chat_completion", "chat_compaction"}, NEW n \in Nat,
         Charge(kind, n)
  PROVE  usage' \in Seq(UsageEvent)
BY AppendProperties DEF TypeOK, Charge, UsageEvent

LEMMA AppendTyped ==
  ASSUME TypeOK, NEW row \in Row, rows' = Append(rows, row)
  PROVE  rows' \in Seq(Row)
BY AppendProperties DEF TypeOK

LEMMA IdleTyped == Idle \in Request /\ NoSummary \in Summary
BY ConstantsAssumption DEF Idle, NoSummary, Request, Summary, Text

LEMMA ServeTyped ==
  ASSUME TypeOK, NEW r \in Requests, NEW request \in Request, Serve(r, request)
  PROVE  req' \in [Requests -> Request]
BY DEF TypeOK, Serve

LEMMA LeaveTyped ==
  ASSUME TypeOK, NEW r \in Requests, Leave(r)
  PROVE  req' \in [Requests -> Request]
BY IdleTyped, ServeTyped DEF Leave

LEMMA MoveTyped ==
  ASSUME TypeOK, NEW r \in Requests,
         NEW place \in {"idle", "started", "headers", "body", "yielded", "closing"},
         Move(r, place)
  PROVE  req' \in [Requests -> Request]
<1>1. req[r] \in Request
  BY DEF TypeOK
<1>2. [req[r] EXCEPT !.at = place] \in Request
  BY <1>1 DEF Request
<1> QED
  BY <1>2, <1>1 DEF TypeOK, Move

LEMMA SettledTyped ==
  ASSUME TypeOK, NEW r \in Requests, NEW end \in {"finished", "failed", "cut", "mistaken"},
         Settled(r, end)
  PROVE  req' \in [Requests -> Request]
<1>1. req[r] \in Request
  BY DEF TypeOK
<1>2. [req[r] EXCEPT !.at = "closing", !.end = end] \in Request
  BY <1>1 DEF Request
<1> QED
  BY <1>2, ServeTyped DEF Settled

LEMMA InterruptedTyped ==
  ASSUME TypeOK, NEW r \in Requests, NEW end \in {"cut", "mistaken"}, Interrupted(r, end)
  PROVE  rows' \in Seq(Row) /\ req' \in [Requests -> Request]
<1>1. req[r].got \in Text
  BY DEF TypeOK, Request
<1> QED
  BY <1>1, FlushTyped, SettledTyped DEF Interrupted

LEMMA FoldPlanTyped ==
  ASSUME TypeOK, NEW k \in Preserves, NEW n \in Uncompacted(k)
  PROVE  /\ FoldPlan(k) \in Summary
         /\ summary.before <= FoldPlan(k).before
         /\ FoldPlan(k).before <= Len(rows) + 1
<1>1. Len(rows) \in Nat /\ k \in Nat /\ summary.before \in Nat
  BY ConstantsAssumption, LenProperties DEF TypeOK, Summary
<1>2. n \in Nat /\ n <= Len(rows) - k /\ n >= 1 /\ n >= summary.before
  BY <1>1 DEF Uncompacted
<1>3. Len(rows) - k + 1 \in Nat /\ summary.before <= Len(rows) - k + 1
  BY <1>1, <1>2
<1>4. Uncompacted(k) \subseteq Nat
  BY <1>1 DEF Uncompacted
<1>5. summary.folded \subseteq Nat /\ summary.overtaken \subseteq Nat /\ summary.blanked \subseteq Nat
  BY DEF TypeOK, Summary
<1>6. FoldPlan(k).before = Len(rows) - k + 1
  BY DEF FoldPlan
<1>7. FoldPlan(k) \in Summary
  BY <1>3, <1>4, <1>5 DEF FoldPlan, Summary
<1> QED
  BY <1>1, <1>3, <1>6, <1>7

LEMMA AnsweredTyped ==
  ASSUME NEW plan \in Summary, NEW blank \in BOOLEAN
  PROVE  /\ Answered(plan, blank) \in Summary
         /\ Answered(plan, blank).before = plan.before
BY DEF Answered, Summary

-----------------------------------------------------------------------------
(* The types. *)

LEMMA TypeInit == Init => TypeOK
<1> SUFFICES ASSUME Init PROVE TypeOK
  OBVIOUS
<1>1. rows \in Seq(Row) /\ usage \in Seq(UsageEvent)
  BY EmptySeq DEF Init
<1> QED
  BY <1>1, IdleTyped DEF Init, TypeOK

LEMMA ServingTyped ==
  ASSUME TypeOK, NEW r \in Requests, Serving(r)
  PROVE  TypeOK'
<1> USE DEF TypeOK
<1>0. req[r] \in Request /\ req[r].got \in Text /\ req[r].row \in Nat /\ Len(rows) \in Nat
      /\ req[r].plan \in Summary
  BY LenProperties DEF Request
<1>1. ASSUME NEW m \in Models, StartComplete(r, m) PROVE TypeOK'
  <2>1. [Idle EXCEPT !.op = "complete", !.at = "headers", !.model = m] \in Request
    BY IdleTyped DEF Request
  <2> QED
    BY <1>1, <2>1, ServeTyped DEF StartComplete
<1>2. ASSUME NEW m \in Models, StartStream(r, m) PROVE TypeOK'
  <2>1. [author |-> "model", status |-> "pending", text |-> 0] \in Row
    BY ConstantsAssumption DEF Row, Text
  <2>2. [Idle EXCEPT !.op = "stream", !.at = "started", !.model = m, !.row = Len(rows) + 1] \in Request
    <3> DEFINE place == Len(rows) + 1
    <3>1. place \in Nat
      BY <1>0
    <3> HIDE DEF place
    <3> QED
      BY <3>1, IdleTyped DEF Request, place
  <2> QED
    BY <1>2, <2>1, <2>2, AppendTyped, ServeTyped DEF StartStream
<1>3. ASSUME NEW m \in Models, NEW k \in Preserves, StartCompact(r, m, k) PROVE TypeOK'
  <2>1. FoldPlan(k) \in Summary
    BY <1>3, FoldPlanTyped DEF StartCompact
  <2>2. [Idle EXCEPT !.op = "compact", !.at = "headers", !.model = m, !.plan = FoldPlan(k)] \in Request
    BY <2>1, IdleTyped DEF Request
  <2> QED
    BY <1>3, <2>2, ServeTyped DEF StartCompact
<1>4. CASE Headers(r)
  BY <1>4, MoveTyped DEF Headers
<1>5. CASE ClientCloses(r)
  <2>1. [req[r] EXCEPT !.open = FALSE] \in Request
    BY <1>0 DEF Request
  <2> QED
    BY <1>5, <2>1 DEF ClientCloses
<1>6. CASE CompleteReturns(r)
  <2>1. PICK text \in 0..1 : PersistReply(r, text)
    BY <1>6 DEF CompleteReturns
  <2>2. [author |-> "model", status |-> "complete", text |-> text] \in Row
    BY ConstantsAssumption DEF Row, Text
  <2>3. rows' \in Seq(Row) /\ usage' \in Seq(UsageEvent)
    BY <2>1, <2>2, <1>0, AppendTyped, ChargeTyped DEF PersistReply
  <2> QED
    BY <1>6, <2>3, LeaveTyped DEF CompleteReturns
<1>7. CASE CompactReturns(r)
  <2>1. PICK blank \in BOOLEAN, reported \in BOOLEAN : StoreSummary(r, blank, reported)
    BY <1>7 DEF CompactReturns
  <2>2. summary' \in Summary
    BY <2>1, <1>0, AnsweredTyped DEF StoreSummary
  <2>3. usage' \in Seq(UsageEvent)
    BY <2>1, ChargeTyped DEF StoreSummary
  <2> QED
    BY <1>7, <2>2, <2>3, LeaveTyped DEF CompactReturns
<1>8. CASE CallFails(r) \/ CallGivesUp(r)
  BY <1>8, LeaveTyped DEF CallFails, CallGivesUp, EndCall
<1>9. CASE Drained(r)
  BY <1>9, MoveTyped DEF Drained
<1>10. CASE Delta(r)
  <2>1. req[r].got + 1 \in Text
    BY <1>10, <1>0, ConstantsAssumption DEF Delta, Text
  <2>2. rows' \in Seq(Row)
    BY <1>10, <2>1, FlushTyped DEF Delta
  <2>3. [req[r] EXCEPT !.at = "yielded", !.got = @ + 1] \in Request
    BY <1>0, <2>1 DEF Request
  <2> QED
    BY <1>10, <2>2, <2>3, ServeTyped DEF Delta
<1>11. CASE Thought(r)
  BY <1>11, MoveTyped DEF Thought
<1>12. CASE StreamFinishes(r)
  <2>1. rows' \in Seq(Row)
    BY <1>12, <1>0, FlushTyped DEF StreamFinishes
  <2>2. usage' \in Seq(UsageEvent)
    BY <1>12, <1>0, ChargeTyped DEF StreamFinishes
  <2> QED
    BY <1>12, <2>1, <2>2, SettledTyped DEF StreamFinishes
<1>13. CASE StreamFails(r)
  <2>1. rows' \in Seq(Row) /\ req' \in [Requests -> Request]
    BY <1>13, <1>0, FlushTyped, SettledTyped, InterruptedTyped DEF StreamFails
  <2> QED
    BY <1>13, <2>1 DEF StreamFails
<1>14. CASE StreamCut(r)
  BY <1>14, InterruptedTyped DEF StreamCut
<1>15. CASE StreamCloses(r)
  BY <1>15, LeaveTyped DEF StreamCloses
<1> QED
  BY <1>1, <1>2, <1>3, <1>4, <1>5, <1>6, <1>7, <1>8, <1>9, <1>10, <1>11, <1>12, <1>13, <1>14, <1>15
  DEF Serving

LEMMA SweptTyped ==
  ASSUME TypeOK, Restart
  PROVE  rows' \in Seq(Row) /\ Len(rows') = Len(rows)
<1>1. Len(rows) \in Nat /\ DOMAIN rows = 1..Len(rows)
  BY LenProperties DEF TypeOK
<1>2. ASSUME NEW n \in 1..Len(rows) PROVE Sweep(rows[n]) \in Row
  <2>1. rows[n] \in Row
    BY ElementOfSeq DEF TypeOK
  <2> QED
    BY <2>1 DEF Sweep, Row
<1>3. rows' \in [1..Len(rows) -> Row]
  BY <1>1, <1>2 DEF Restart
<1> QED
  BY <1>1, <1>3, SeqDef, LenProperties

LEMMA TypeNext == TypeOK /\ [Next]_vars => TypeOK'
<1> SUFFICES ASSUME TypeOK, [Next]_vars PROVE TypeOK'
  OBVIOUS
<1>1. CASE PostMessage
  <2>1. [author |-> "client", status |-> "complete", text |-> 1] \in Row
    BY ConstantsAssumption DEF Row, Text
  <2> QED
    BY <1>1, <2>1, AppendTyped DEF PostMessage, TypeOK
<1>2. CASE DeleteChat
  BY <1>2, EmptySeq, IdleTyped DEF DeleteChat, TypeOK
<1>3. ASSUME NEW m \in Models, DeleteModel(m) PROVE TypeOK'
  BY <1>3 DEF DeleteModel, TypeOK
<1>4. ASSUME NEW r \in Requests, Serving(r) PROVE TypeOK'
  BY <1>4, ServingTyped
<1>5. CASE Crash
  <2>1. rows' \in Seq(Row)
    <3>1. ASSUME NEW r \in Requests, Flush(r, "complete", req[r].got) PROVE rows' \in Seq(Row)
      BY <3>1, FlushTyped DEF TypeOK, Request
    <3> QED
      BY <1>5, <3>1 DEF Crash, TypeOK
  <2>2. req' \in [Requests -> Request]
    BY <1>5, IdleTyped DEF Crash
  <2> QED
    BY <1>5, <2>1, <2>2 DEF Crash, TypeOK
<1>6. CASE Restart
  BY <1>6, SweptTyped DEF Restart, TypeOK
<1>7. CASE UNCHANGED vars
  BY <1>7 DEF vars, TypeOK
<1> QED
  BY <1>1, <1>2, <1>3, <1>4, <1>5, <1>6, <1>7 DEF Next

(* Every reachable state has the types of TypeOK: in particular the status *)
(* of a message stays in the set the CHECK of the messages table allows.   *)
THEOREM TypeInvariant == Spec => []TypeOK
BY TypeInit, TypeNext, PTL DEF Spec

-----------------------------------------------------------------------------
(* What the writes do to the messages. *)

LEMMA FlushEffect ==
  ASSUME TypeOK, NEW r \in Requests,
         NEW status \in {"pending", "streaming", "complete", "error"}, NEW text \in Nat,
         exists, req[r].row \in DOMAIN rows, Flush(r, status, text)
  PROVE  /\ Len(rows') = Len(rows) /\ DOMAIN rows' = DOMAIN rows
         /\ \A n \in DOMAIN rows : n # req[r].row => rows'[n] = rows[n]
         /\ rows'[req[r].row] = [author |-> rows[req[r].row].author, status |-> status, text |-> text]
BY LenProperties DEF TypeOK, Flush

LEMMA AppendEffect ==
  ASSUME TypeOK, NEW row, rows' = Append(rows, row)
  PROVE  /\ Len(rows') = Len(rows) + 1
         /\ DOMAIN rows' = DOMAIN rows \cup {Len(rows) + 1}
         /\ Len(rows) + 1 \notin DOMAIN rows
         /\ \A n \in DOMAIN rows : rows'[n] = rows[n]
         /\ rows'[Len(rows) + 1] = row
BY LenProperties, AppendProperties DEF TypeOK

-----------------------------------------------------------------------------
(* The streams and their rows. *)

Streams == Shaped /\ Reserved /\ Owned

LEMMA StreamsInit == Init => Streams
BY EmptySeq DEF Init, Streams, Shaped, Reserved, Owned, Idle, IsLive

(* A request that is not a stream changes nothing for the streams. *)
LEMMA OtherRequest ==
  ASSUME TypeOK, Streams, NEW r \in Requests, NEW request, Serve(r, request),
         req[r].op # "stream", request.op # "stream",
         request.op = "idle" => request.at = "idle",
         request.op \in {"complete", "compact"} => request.at \in {"headers", "body"},
         up, UNCHANGED <<up, exists>>,
         \/ UNCHANGED rows
         \/ \E row : exists /\ row.status = "complete" /\ rows' = Append(rows, row),
         exists \/ UNCHANGED summary
  PROVE  Streams'
<1>1. \A s \in Requests : req'[s] = IF s = r THEN request ELSE req[s]
  BY DEF TypeOK, Serve
<1>2. \A s \in Requests : IsLive(s)' <=> IsLive(s)
  BY <1>1 DEF IsLive
<1>3. \A s \in Requests : IsLive(s) => s # r
  BY DEF IsLive
<1>4. Shaped'
  BY <1>1 DEF Streams, Shaped
<1>5. CASE UNCHANGED rows
  BY <1>1, <1>2, <1>3, <1>4, <1>5 DEF Streams, Reserved, Owned, InFlight
<1>6. CASE \E row : exists /\ row.status = "complete" /\ rows' = Append(rows, row)
  <2>1. PICK row : row.status = "complete" /\ rows' = Append(rows, row)
    BY <1>6
  <2>2. Reserved'
    BY <1>1, <1>2, <1>3, <2>1, AppendEffect DEF Streams, Reserved
  <2>3. Owned'
    BY <1>1, <1>2, <1>3, <2>1, AppendEffect DEF Streams, Owned, InFlight
  <2> QED
    BY <2>2, <2>3, <1>4 DEF Streams
<1> QED
  BY <1>5, <1>6

(* A stream that goes on keeps its row, with the text it had or more. *)
LEMMA StreamGoesOn ==
  ASSUME TypeOK, Streams, NEW r \in Requests, IsLive(r), NEW request \in Request,
         Serve(r, request), UNCHANGED <<up, exists, summary>>, up,
         request.op = "stream", request.at \notin {"idle", "closing"}, request.row = req[r].row,
         \/ UNCHANGED rows /\ request.got = req[r].got
         \/ UNCHANGED rows /\ req[r].got > 0 /\ request.got = req[r].got + 1
         \/ Flush(r, "streaming", req[r].got + 1) /\ request.got = req[r].got + 1
  PROVE  Streams'
<1>1. \A s \in Requests : req'[s] = IF s = r THEN request ELSE req[s]
  BY DEF TypeOK, Serve
<1>2. \A s \in Requests : /\ IsLive(s)' <=> IsLive(s)
                          /\ req'[s].row = req[s].row
                          /\ s # r => req'[s].got = req[s].got
  BY <1>1 DEF IsLive
<1>3. Shaped'
  <2>1. ~exists => rows' = <<>>
    BY DEF Streams, Shaped, Flush
  <2> QED
    BY <1>1, <2>1 DEF Streams, Shaped
<1>4. CASE ~exists
  BY <1>3, <1>4 DEF Streams, Reserved, Owned
<1>5. CASE exists
  <2> DEFINE n == req[r].row
  <2>1. n \in DOMAIN rows /\ rows[n] \in Row
    BY <1>5, ElementOfSeq, LenProperties DEF TypeOK, Streams, Reserved
  <2>2. req[r].got \in Nat /\ rows[n].text \in Nat
    BY <2>1, ConstantsAssumption DEF TypeOK, Request, Row, Text
  <2>3. /\ rows[n].status = (IF req[r].got = 0 THEN "pending" ELSE "streaming")
        /\ rows[n].text <= req[r].got
        /\ req[r].got > 0 => rows[n].text > 0
    BY <1>5 DEF Streams, Reserved
  <2>4. CASE UNCHANGED rows
    <3>1. \/ req'[r].got = req[r].got
          \/ req[r].got > 0 /\ req'[r].got = req[r].got + 1
          \/ Flush(r, "streaming", req[r].got + 1)
      BY <1>1
    <3>2. ~Flush(r, "streaming", req[r].got + 1)
      <4> SUFFICES ASSUME Flush(r, "streaming", req[r].got + 1) PROVE FALSE
        OBVIOUS
      <4>1. req[r].got + 1 \in Nat
        BY <2>2
      <4>2. rows'[n] = [author |-> rows[n].author, status |-> "streaming", text |-> req[r].got + 1]
        BY <1>5, <2>1, <4>1, FlushEffect
      <4> QED
        BY <2>2, <2>3, <2>4, <4>2
    <3>3. /\ rows'[n].status = (IF req'[r].got = 0 THEN "pending" ELSE "streaming")
          /\ rows'[n].text <= req'[r].got
          /\ req'[r].got > 0 => rows'[n].text > 0
      BY <2>2, <2>3, <2>4, <3>1, <3>2
    <3>4. Reserved'
      BY <1>2, <1>5, <2>4, <3>3 DEF Streams, Reserved
    <3>5. Owned'
      BY <1>2, <2>4 DEF Streams, Owned
    <3> QED
      BY <1>3, <3>4, <3>5 DEF Streams
  <2>5. CASE Flush(r, "streaming", req[r].got + 1) /\ request.got = req[r].got + 1
    <3>0. req[r].got + 1 \in Nat
      BY <2>2
    <3>1. /\ DOMAIN rows' = DOMAIN rows
          /\ \A k \in DOMAIN rows : k # n => rows'[k] = rows[k]
          /\ rows'[n] = [author |-> rows[n].author, status |-> "streaming", text |-> req[r].got + 1]
      BY <1>5, <2>1, <2>5, <3>0, FlushEffect
    <3>2. req'[r].got = req[r].got + 1
      BY <1>1, <2>5
    <3>3. \A s \in Requests : IsLive(s) /\ s # r => req[s].row # n
      BY <1>5 DEF Streams, Reserved
    <3>4. Reserved'
      BY <1>2, <1>5, <2>1, <2>2, <3>1, <3>2, <3>3 DEF Streams, Reserved
    <3>5. Owned'
      BY <1>2, <1>5, <3>1 DEF Streams, Owned
    <3> QED
      BY <1>3, <3>4, <3>5 DEF Streams
  <2> QED
    BY <2>4, <2>5
<1> QED
  BY <1>4, <1>5

(* A stream that settles leaves its row with an outcome. *)
LEMMA StreamSettles ==
  ASSUME TypeOK, Streams, NEW r \in Requests, IsLive(r),
         NEW end, Settled(r, end), UNCHANGED <<up, exists, summary>>, up,
         NEW status \in {"complete", "error"}, Flush(r, status, req[r].got)
  PROVE  Streams'
<1>0. req[r] \in Request
  BY DEF TypeOK
<1>1. /\ \A s \in Requests \ {r} : req'[s] = req[s]
      /\ req'[r].op = "stream" /\ req'[r].at = "closing"
  BY <1>0 DEF TypeOK, Settled, Serve, IsLive, Request
<1>2. \A s \in Requests : IsLive(s)' <=> IsLive(s) /\ s # r
  BY <1>1 DEF IsLive
<1>3. Shaped'
  <2>1. ~exists => rows' = <<>>
    BY DEF Streams, Shaped, Flush
  <2> QED
    BY <1>1, <2>1 DEF Streams, Shaped
<1>4. CASE exists
  <2>1. /\ req[r].row \in DOMAIN rows
        /\ \A s \in Requests : IsLive(s) /\ s # r => req[s].row # req[r].row
    BY <1>4 DEF Streams, Reserved
  <2>a. req[r].got \in Nat /\ status \in {"pending", "streaming", "complete", "error"}
    BY <1>0, ConstantsAssumption DEF Request, Text
  <2>b. /\ DOMAIN rows' = DOMAIN rows
        /\ \A k \in DOMAIN rows : k # req[r].row => rows'[k] = rows[k]
        /\ rows'[req[r].row] = [author |-> rows[req[r].row].author, status |-> status,
                                text |-> req[r].got]
    BY <1>4, <2>1, <2>a, FlushEffect
  <2>2. Reserved'
    BY <1>1, <1>2, <1>4, <2>1, <2>b DEF Streams, Reserved
  <2>3. Owned'
    BY <1>1, <1>2, <1>4, <2>1, <2>b DEF Streams, Owned, InFlight
  <2> QED
    BY <1>3, <2>2, <2>3 DEF Streams
<1>5. CASE ~exists
  BY <1>3, <1>5 DEF Streams, Reserved, Owned
<1> QED
  BY <1>4, <1>5

LEMMA ServingStreams ==
  ASSUME TypeOK, Streams, NEW r \in Requests, Serving(r)
  PROVE  Streams'
<1>0. req[r] \in Request /\ req[r].got \in Nat /\ Len(rows) \in Nat
  BY ConstantsAssumption, LenProperties DEF TypeOK, Request, Text
<1>u. req[r].op # "idle" => up
  BY DEF Streams, Shaped, Idle
<1>1. ASSUME NEW m \in Models, StartComplete(r, m) PROVE Streams'
  BY <1>1, OtherRequest DEF StartComplete, Starts, Idle
<1>2. ASSUME NEW m \in Models, StartStream(r, m) PROVE Streams'
  <2> DEFINE request == [Idle EXCEPT !.op = "stream", !.at = "started", !.model = m, !.row = Len(rows) + 1]
             row == [author |-> "model", status |-> "pending", text |-> 0]
  <2>1. /\ up /\ exists /\ req[r].op = "idle" /\ rows' = Append(rows, row)
        /\ UNCHANGED <<up, exists, summary>>
    BY <1>2 DEF StartStream, Starts
  <2>2. \A s \in Requests : req'[s] = IF s = r THEN request ELSE req[s]
    BY <1>2 DEF StartStream, Serve, TypeOK
  <2>3. request.op = "stream" /\ request.at = "started" /\ request.got = 0 /\ request.row = Len(rows) + 1
    BY DEF Idle
  <2> HIDE DEF request
  <2>4. \A s \in Requests : IsLive(s)' <=> IsLive(s) \/ s = r
    BY <2>1, <2>2, <2>3 DEF IsLive
  <2>5. Shaped'
    BY <2>1, <2>2, <2>3 DEF Streams, Shaped
  <2>6. ~IsLive(r)
    BY <2>1 DEF IsLive
  <2>7. Reserved'
    BY SMTT(40), <2>1, <2>2, <2>3, <2>4, <2>6, AppendEffect DEF Streams, Reserved
  <2>8. Owned'
    BY <2>1, <2>2, <2>3, <2>4, <2>6, AppendEffect DEF Streams, Owned
  <2> QED
    BY <2>5, <2>7, <2>8 DEF Streams
<1>3. ASSUME NEW m \in Models, NEW k \in Preserves, StartCompact(r, m, k) PROVE Streams'
  BY <1>3, OtherRequest DEF StartCompact, Starts, Idle
<1>4. CASE Headers(r)
  <2> DEFINE request == [req[r] EXCEPT !.at = "body"]
  <2>1. Serve(r, request) /\ req[r].at = "headers" /\ UNCHANGED <<up, exists, summary, rows>>
    BY <1>4 DEF Headers, Move, Serve
  <2>2. /\ request \in Request /\ request.op = req[r].op /\ request.at = "body"
        /\ request.row = req[r].row /\ request.got = req[r].got
    BY <1>0 DEF Request
  <2>3. req[r].op # "idle"
    BY <2>1 DEF Streams, Shaped
  <2> HIDE DEF request
  <2>4. CASE req[r].op = "stream"
    BY <1>u, <2>1, <2>2, <2>4, StreamGoesOn DEF IsLive
  <2>5. CASE req[r].op # "stream"
    BY <1>0, <1>u, <2>1, <2>2, <2>3, <2>5, OtherRequest DEF Request
  <2> QED
    BY <2>4, <2>5
<1>5. CASE ClientCloses(r)
  <2> DEFINE request == [req[r] EXCEPT !.open = FALSE]
  <2>1. /\ \A s \in Requests : req'[s] = IF s = r THEN request ELSE req[s]
        /\ req[r].op # "idle" /\ UNCHANGED <<up, exists, summary, rows>>
    BY <1>5 DEF ClientCloses, TypeOK
  <2>2. /\ request.op = req[r].op /\ request.at = req[r].at
        /\ request.row = req[r].row /\ request.got = req[r].got
    BY <1>0 DEF Request
  <2> HIDE DEF request
  <2>3. \A s \in Requests : /\ req'[s].op = req[s].op /\ req'[s].at = req[s].at
                            /\ req'[s].row = req[s].row /\ req'[s].got = req[s].got
    BY <2>1, <2>2
  <2>4. Shaped'
    BY <1>u, <2>1, <2>3 DEF Streams, Shaped
  <2>5. Reserved' /\ Owned'
    BY <2>1, <2>3 DEF Streams, Reserved, Owned, IsLive
  <2> QED
    BY <2>4, <2>5 DEF Streams
<1>6. CASE CompleteReturns(r)
  <2>1. PICK text \in 0..1 : PersistReply(r, text)
    BY <1>6 DEF CompleteReturns
  <2>2. \/ UNCHANGED rows
        \/ \E row : exists /\ row.status = "complete" /\ rows' = Append(rows, row)
    <3>1. CASE CanCharge(r)
      <4> DEFINE row == [author |-> "model", status |-> "complete", text |-> text]
      <4>1. exists /\ row.status = "complete" /\ rows' = Append(rows, row)
        BY <2>1, <3>1 DEF PersistReply, CanCharge
      <4> HIDE DEF row
      <4> QED
        BY <4>1
    <3>2. CASE ~CanCharge(r)
      BY <2>1, <3>2 DEF PersistReply
    <3> QED
      BY <3>1, <3>2
  <2>3. Serve(r, Idle) /\ req[r].op = "complete" /\ UNCHANGED <<up, exists, summary>>
    BY <1>6 DEF CompleteReturns, Leave
  <2>4. Idle.op = "idle" /\ Idle.at = "idle"
    BY DEF Idle
  <2> QED
    BY <1>u, <2>2, <2>3, <2>4, OtherRequest
<1>7. CASE CompactReturns(r)
  <2>1. Serve(r, Idle) /\ req[r].op = "compact" /\ UNCHANGED <<up, exists, rows>>
    BY <1>7 DEF CompactReturns, Leave
  <2>2. exists \/ UNCHANGED summary
    BY <1>7 DEF CompactReturns, StoreSummary
  <2>3. Idle.op = "idle" /\ Idle.at = "idle"
    BY DEF Idle
  <2> QED
    BY <1>u, <2>1, <2>2, <2>3, OtherRequest
<1>8. CASE CallFails(r) \/ CallGivesUp(r)
  <2>1. Serve(r, Idle) /\ req[r].op \in {"complete", "compact"} /\ UNCHANGED <<up, exists, rows, summary>>
    BY <1>8 DEF CallFails, CallGivesUp, EndCall, Leave
  <2>2. Idle.op = "idle" /\ Idle.at = "idle"
    BY DEF Idle
  <2> QED
    BY <1>u, <2>1, <2>2, OtherRequest
<1>9. CASE Drained(r) \/ Thought(r)
  <2>1. PICK place \in {"headers", "body", "yielded"} : Move(r, place)
    BY <1>9 DEF Drained, Thought
  <2> DEFINE request == [req[r] EXCEPT !.at = place]
  <2>2. Serve(r, request) /\ UNCHANGED <<up, exists, summary, rows>> /\ IsLive(r)
    BY <1>9, <2>1 DEF Drained, Thought, Move, Serve, IsLive
  <2>3. /\ request \in Request /\ request.op = req[r].op /\ request.at = place
        /\ request.row = req[r].row /\ request.got = req[r].got
    BY <1>0 DEF Request
  <2> HIDE DEF request
  <2> QED
    BY <1>u, <2>1, <2>2, <2>3, StreamGoesOn DEF IsLive
<1>10. CASE Delta(r)
  <2> DEFINE request == [req[r] EXCEPT !.at = "yielded", !.got = @ + 1]
  <2>1. /\ Serve(r, request) /\ UNCHANGED <<up, exists, summary>> /\ IsLive(r)
        /\ \/ Flush(r, "streaming", req[r].got + 1)
           \/ req[r].got > 0 /\ UNCHANGED rows
    BY <1>10 DEF Delta, IsLive
  <2>2. req[r].got + 1 \in Text
    BY <1>0, <1>10, ConstantsAssumption DEF Delta, Text
  <2>3. /\ request \in Request /\ request.op = req[r].op /\ request.at = "yielded"
        /\ request.row = req[r].row /\ request.got = req[r].got + 1
    BY <1>0, <2>2 DEF Request
  <2> HIDE DEF request
  <2> QED
    BY <1>u, <2>1, <2>3, StreamGoesOn DEF IsLive
<1>11. CASE StreamFinishes(r)
  BY <1>u, <1>11, StreamSettles DEF StreamFinishes, IsLive
<1>12. CASE StreamFails(r)
  BY <1>u, <1>12, StreamSettles DEF StreamFails, Interrupted, IsLive
<1>13. CASE StreamCut(r)
  BY <1>u, <1>13, StreamSettles DEF StreamCut, Interrupted, IsLive
<1>14. CASE StreamCloses(r)
  <2>1. /\ \A s \in Requests : req'[s] = IF s = r THEN Idle ELSE req[s]
        /\ UNCHANGED <<up, exists, summary, rows>> /\ ~IsLive(r)
    BY <1>14 DEF StreamCloses, Leave, Serve, IsLive, TypeOK
  <2>2. Idle.op = "idle" /\ Idle.at = "idle"
    BY DEF Idle
  <2>3. \A s \in Requests : /\ IsLive(s)' <=> IsLive(s)
                            /\ IsLive(s) => req'[s] = req[s]
    BY <2>1, <2>2 DEF IsLive
  <2>4. Shaped'
    BY <2>1, <2>2 DEF Streams, Shaped
  <2>5. Reserved' /\ Owned'
    BY <2>1, <2>3 DEF Streams, Reserved, Owned
  <2> QED
    BY <2>4, <2>5 DEF Streams
<1> QED
  BY <1>1, <1>2, <1>3, <1>4, <1>5, <1>6, <1>7, <1>8, <1>9, <1>10, <1>11, <1>12, <1>13, <1>14
  DEF Serving

(* The messages after the sweep: in-flight ones are errors, the others as they were. *)
LEMMA SweepEffect ==
  ASSUME TypeOK, Restart
  PROVE  /\ Len(rows') = Len(rows) /\ DOMAIN rows' = DOMAIN rows
         /\ \A n \in DOMAIN rows :
              /\ rows[n] \in Row
              /\ rows'[n] = Sweep(rows[n])
              /\ rows'[n].status \notin InFlight
              /\ rows'[n].text = rows[n].text /\ rows'[n].author = rows[n].author
              /\ rows[n].status \notin InFlight => rows'[n] = rows[n]
              /\ rows[n].status \in InFlight => rows'[n].status = "error"
<1>1. Len(rows) \in Nat /\ DOMAIN rows = 1..Len(rows)
  BY LenProperties DEF TypeOK
<1>2. DOMAIN rows' = DOMAIN rows /\ \A n \in DOMAIN rows : rows'[n] = Sweep(rows[n])
  BY DEF Restart
<1>3. Len(rows') = Len(rows)
  BY SweptTyped
<1>4. \A n \in DOMAIN rows : rows[n] \in Row
  BY <1>1, ElementOfSeq DEF TypeOK
<1> QED
  BY <1>2, <1>3, <1>4 DEF Sweep, Row, InFlight

LEMMA StreamsNext == TypeOK /\ Streams /\ [Next]_vars => Streams'
<1> SUFFICES ASSUME TypeOK, Streams, [Next]_vars PROVE Streams'
  OBVIOUS
<1>1. CASE PostMessage
  <2> DEFINE row == [author |-> "client", status |-> "complete", text |-> 1]
  <2>1. rows' = Append(rows, row) /\ exists /\ row.status = "complete"
    BY <1>1 DEF PostMessage
  <2>2. UNCHANGED <<up, exists, summary, req>>
    BY <1>1 DEF PostMessage
  <2> HIDE DEF row
  <2>3. Shaped' /\ Reserved'
    BY <2>1, <2>2, AppendEffect DEF Streams, Shaped, Reserved, IsLive
  <2>4. Owned'
    BY <2>1, <2>2, AppendEffect DEF Streams, Owned, InFlight, IsLive
  <2> QED
    BY <2>3, <2>4 DEF Streams
<1>2. CASE DeleteChat
  BY <1>2 DEF DeleteChat, Streams, Shaped, Reserved, Owned
<1>3. ASSUME NEW m \in Models, DeleteModel(m) PROVE Streams'
  BY <1>3 DEF DeleteModel, Streams, Shaped, Reserved, Owned, IsLive
<1>4. ASSUME NEW r \in Requests, Serving(r) PROVE Streams'
  BY <1>4, ServingStreams
<1>5. CASE Crash
  <2>1. ~exists => rows' = <<>>
    BY <1>5 DEF Crash, Flush, Streams, Shaped
  <2>2. \A r \in Requests : req'[r] = Idle /\ ~IsLive(r)'
    BY <1>5 DEF Crash, Idle, IsLive
  <2>3. Idle.op = "idle" /\ Idle.at = "idle"
    BY DEF Idle
  <2> QED
    BY <1>5, <2>1, <2>2, <2>3 DEF Crash, Streams, Shaped, Reserved, Owned
<1>6. CASE Restart
  <2>1. \A r \in Requests : ~IsLive(r) /\ ~IsLive(r)'
    BY <1>6 DEF Restart, IsLive, Streams, Shaped, Idle
  <2>2. ~exists => rows' = <<>>
    <3> SUFFICES ASSUME ~exists PROVE rows' = <<>>
      OBVIOUS
    <3>1. rows = <<>>
      BY DEF Streams, Shaped
    <3>2. rows' \in Seq(Row) /\ Len(rows') = Len(rows)
      BY <1>6, SweptTyped
    <3> QED
      BY <3>1, <3>2, EmptySeq
  <2> QED
    BY <1>6, <2>1, <2>2, SweepEffect DEF Restart, Streams, Shaped, Reserved, Owned
<1>7. CASE UNCHANGED vars
  BY <1>7 DEF vars, Streams, Shaped, Reserved, Owned, IsLive
<1> QED
  BY <1>1, <1>2, <1>3, <1>4, <1>5, <1>6, <1>7 DEF Next

(* While the process runs, every in-flight message has exactly one stream  *)
(* that is going to settle it, and its status tells whether text has come: *)
(* whatever the requests, models and bounds, and across crashes, deletions *)
(* and disconnects (streamChat, sweepStrandedMessages).                    *)
THEOREM StreamsOwnTheirRows == Spec => []InFlightOwned
<1>1. TypeOK /\ Streams => InFlightOwned
  BY DEF TypeOK, Streams, Reserved, Owned, InFlightOwned
<1> QED
  BY TypeInit, TypeNext, StreamsInit, StreamsNext, <1>1, PTL DEF Spec

-----------------------------------------------------------------------------
(* The compaction boundary. *)

(* Messages are added at the end, and none that a model would never be     *)
(* shown becomes one that it might be.                                     *)
NoneAppearsBelow ==
  /\ Len(rows) \in Nat /\ Len(rows') \in Nat /\ Len(rows) <= Len(rows')
  /\ DOMAIN rows = 1..Len(rows) /\ DOMAIN rows' = 1..Len(rows')
  /\ \A n \in DOMAIN rows : Relevant(rows'[n]) => Relevant(rows[n])

LEMMA CoversKept ==
  ASSUME NoneAppearsBelow, NEW p \in Summary, Covers(p)
  PROVE  Covers(p)'
<1>1. p.before \in Nat
  BY DEF Summary
<1>2. p.before <= Len(rows') + 1
  BY <1>1 DEF NoneAppearsBelow, Covers
<1>3. ASSUME NEW n \in DOMAIN rows', n < p.before, Relevant(rows'[n])
      PROVE  n \in p.folded \cup p.overtaken \cup p.blanked
  <2>1. n \in DOMAIN rows
    BY <1>1, <1>3 DEF NoneAppearsBelow, Covers
  <2> QED
    BY <1>3, <2>1 DEF NoneAppearsBelow, Covers
<1> QED
  BY <1>2, <1>3 DEF Covers, Relevant, Contextual

LEMMA UnchangedAppears ==
  ASSUME TypeOK, UNCHANGED rows
  PROVE  NoneAppearsBelow
BY LenProperties DEF TypeOK, NoneAppearsBelow

LEMMA AppendAppears ==
  ASSUME TypeOK, TypeOK', NEW row, rows' = Append(rows, row)
  PROVE  NoneAppearsBelow
<1>1. Len(rows) \in Nat /\ Len(rows') \in Nat /\ DOMAIN rows = 1..Len(rows) /\ DOMAIN rows' = 1..Len(rows')
  BY LenProperties DEF TypeOK
<1>2. Len(rows') = Len(rows) + 1 /\ \A n \in DOMAIN rows : rows'[n] = rows[n]
  BY AppendEffect
<1> QED
  BY <1>1, <1>2 DEF NoneAppearsBelow

LEMMA FlushAppears ==
  ASSUME TypeOK, TypeOK', Streams, NEW r \in Requests, IsLive(r),
         NEW status \in {"pending", "streaming", "complete", "error"}, NEW text \in Nat,
         Flush(r, status, text)
  PROVE  NoneAppearsBelow
<1>1. Len(rows) \in Nat /\ Len(rows') \in Nat /\ DOMAIN rows = 1..Len(rows) /\ DOMAIN rows' = 1..Len(rows')
  BY LenProperties DEF TypeOK
<1>2. CASE ~exists
  BY <1>2, UnchangedAppears DEF Flush
<1>3. CASE exists
  <2>1. req[r].row \in DOMAIN rows /\ rows[req[r].row].status \in InFlight
    BY <1>3 DEF Streams, Reserved, InFlight
  <2>2. Len(rows') = Len(rows) /\ \A n \in DOMAIN rows : n # req[r].row => rows'[n] = rows[n]
    BY ZenonT(60), <1>3, <2>1, FlushEffect
  <2>3. \A n \in DOMAIN rows : Relevant(rows'[n]) => Relevant(rows[n])
    BY <2>1, <2>2 DEF Relevant
  <2> QED
    BY <1>1, <2>2, <2>3 DEF NoneAppearsBelow
<1> QED
  BY <1>2, <1>3

LEMMA ServingAppears ==
  ASSUME TypeOK, TypeOK', Streams, NEW r \in Requests, Serving(r)
  PROVE  NoneAppearsBelow
<1>0. req[r].got \in Nat /\ req[r].got + 1 \in Nat
  BY ConstantsAssumption DEF TypeOK, Request, Text
<1>1. CASE UNCHANGED rows
  BY <1>1, UnchangedAppears
<1>2. ASSUME NEW m \in Models, StartStream(r, m) PROVE NoneAppearsBelow
  BY <1>2, AppendAppears DEF StartStream
<1>3. CASE CompleteReturns(r)
  BY <1>1, <1>3, AppendAppears DEF CompleteReturns, PersistReply
<1>4. CASE Delta(r)
  BY <1>0, <1>1, <1>4, FlushAppears DEF Delta, IsLive
<1>5. CASE StreamFinishes(r)
  BY <1>0, <1>5, FlushAppears DEF StreamFinishes, IsLive
<1>6. CASE StreamFails(r)
  BY <1>0, <1>6, FlushAppears DEF StreamFails, Interrupted, IsLive
<1>7. CASE StreamCut(r)
  BY <1>0, <1>7, FlushAppears DEF StreamCut, Interrupted, IsLive
<1> QED
  BY <1>1, <1>2, <1>3, <1>4, <1>5, <1>6, <1>7
  DEF Serving, StartComplete, StartCompact, Headers, ClientCloses, CompactReturns, CallFails,
      CallGivesUp, EndCall, Drained, Thought, StreamCloses

LEMMA StepAppears ==
  ASSUME TypeOK, TypeOK', Streams, [Next]_vars, ~DeleteChat
  PROVE  NoneAppearsBelow
<1>1. CASE UNCHANGED rows
  BY <1>1, UnchangedAppears
<1>2. CASE PostMessage
  BY <1>2, AppendAppears DEF PostMessage
<1>3. ASSUME NEW r \in Requests, Serving(r) PROVE NoneAppearsBelow
  BY <1>3, ServingAppears
<1>4. CASE Crash
  <2>1. ASSUME NEW r \in Requests, req[r].op = "stream", req[r].at = "body", Flush(r, "complete", req[r].got)
        PROVE  NoneAppearsBelow
    <3>1. req[r].got \in Nat
      BY ConstantsAssumption DEF TypeOK, Request, Text
    <3> QED
      BY <2>1, <3>1, FlushAppears DEF IsLive
  <2> QED
    BY <1>1, <1>4, <2>1 DEF Crash
<1>5. CASE Restart
  <2>1. Len(rows) \in Nat /\ DOMAIN rows = 1..Len(rows) /\ DOMAIN rows' = 1..Len(rows')
    BY LenProperties DEF TypeOK
  <2>2. Len(rows') = Len(rows)
    BY <1>5, SweepEffect
  <2>3. \A n \in DOMAIN rows : Relevant(rows'[n]) => Relevant(rows[n])
    <3> SUFFICES ASSUME NEW n \in DOMAIN rows, Relevant(rows'[n]) PROVE Relevant(rows[n])
      OBVIOUS
    <3>1. /\ rows'[n].status \notin InFlight
          /\ rows[n].status \notin InFlight => rows'[n] = rows[n]
          /\ rows[n].status \in InFlight => rows'[n].status = "error"
      BY <1>5, SweepEffect
    <3> QED
      BY <3>1 DEF Relevant, Contextual
  <2> QED
    BY <2>1, <2>2, <2>3 DEF NoneAppearsBelow
<1> QED
  BY <1>1, <1>2, <1>3, <1>4, <1>5 DEF Next, DeleteModel, vars

(* What a compaction has read accounts for every message below its boundary. *)
LEMMA FoldPlanCovers ==
  ASSUME TypeOK, Covers(summary), NEW k \in Preserves, NEW n \in Uncompacted(k)
  PROVE  Covers(FoldPlan(k))
<1> DEFINE plan == FoldPlan(k)
<1>1. /\ Len(rows) \in Nat /\ DOMAIN rows = 1..Len(rows)
      /\ summary.before \in Nat /\ k \in Nat
  BY ConstantsAssumption, LenProperties DEF TypeOK, Summary
<1>2. plan.before = Len(rows) - k + 1 /\ summary.before <= plan.before /\ plan.before <= Len(rows) + 1
  BY FoldPlanTyped DEF FoldPlan
<1>3. /\ plan.folded = summary.folded \cup {i \in Uncompacted(k) : Contextual(rows[i])}
      /\ plan.overtaken = summary.overtaken \cup {i \in Uncompacted(k) : rows[i].status \in InFlight}
      /\ plan.blanked = summary.blanked
  BY DEF FoldPlan
<1> HIDE DEF plan
<1>4. ASSUME NEW i \in DOMAIN rows, i < plan.before, Relevant(rows[i])
      PROVE  i \in plan.folded \cup plan.overtaken \cup plan.blanked
  <2>1. CASE i < summary.before
    BY <1>3, <1>4, <2>1 DEF Covers
  <2>2. CASE ~(i < summary.before)
    <3>1. i \in Uncompacted(k)
      BY <1>1, <1>2, <1>4, <2>2 DEF Uncompacted
    <3> QED
      BY <1>3, <1>4, <3>1 DEF Relevant
  <2> QED
    BY <2>1, <2>2
<1>5. ASSUME NEW i \in plan.folded PROVE i < plan.before
  <2>1. CASE i \in summary.folded
    <3>1. i < summary.before /\ i \in Nat
      BY <2>1 DEF Covers, TypeOK, Summary
    <3> QED
      BY <1>1, <1>2, <3>1
  <2>2. CASE i \in Uncompacted(k)
    BY <1>1, <1>2, <2>2 DEF Uncompacted
  <2> QED
    BY <1>3, <1>5, <2>1, <2>2
<1>6. Covers(plan)
  BY <1>2, <1>4, <1>5 DEF Covers
<1> QED
  BY <1>6 DEF plan

LEMMA AnsweredCovers ==
  ASSUME NEW plan \in Summary, Covers(plan), NEW blank \in BOOLEAN
  PROVE  Covers(Answered(plan, blank))
BY DEF Covers, Answered, Summary

LEMMA CoveredInit == Init => Covered
BY EmptySeq DEF Init, Covered, Covers, NoSummary, Idle

(* No summary is stored, and every compaction has the plan it had, or a sound one. *)
PlansKept ==
  /\ UNCHANGED summary /\ (exists' => exists)
  /\ \A r \in Requests : req'[r].op = "compact" =>
       \/ req[r].op = "compact" /\ req'[r].plan = req[r].plan
       \/ Covers(req'[r].plan)

LEMMA PlansKeptCovered ==
  ASSUME TypeOK, TypeOK', Covered, NoneAppearsBelow, PlansKept
  PROVE  Covered'
<1>1. ASSUME NEW p \in Summary, Covers(p) PROVE Covers(p)'
  BY <1>1, CoversKept
<1>2. Covers(summary)'
  BY <1>1 DEF TypeOK, Covered, Covers, PlansKept
<1>3. ASSUME exists', NEW r \in Requests, req'[r].op = "compact"
      PROVE  Covers(req[r].plan)'
  <2>1. Covers(req'[r].plan)
    BY <1>3 DEF Covered, PlansKept
  <2>2. req'[r].plan \in Summary
    BY DEF TypeOK, Request
  <2> QED
    BY <1>1, <2>1, <2>2 DEF Covers
<1> QED
  BY <1>2, <1>3 DEF Covered

LEMMA ServingCovered ==
  ASSUME TypeOK, TypeOK', Streams, Covered, NEW r \in Requests, Serving(r)
  PROVE  Covered'
<1>0. NoneAppearsBelow
  BY ServingAppears
<1>1. \A s \in Requests : s # r => req'[s] = req[s]
  BY DEF Serving, StartComplete, StartStream, StartCompact, Headers, ClientCloses, CompleteReturns,
         CompactReturns, CallFails, CallGivesUp, EndCall, Drained, Delta, Thought, StreamFinishes,
         StreamFails, StreamCut, StreamCloses, Interrupted, Settled, Serve, Move, Leave, TypeOK
<1>2. CASE CompactReturns(r)
  <2>1. req[r].plan \in Summary
    BY DEF TypeOK, Request
  <2>2. PICK blank \in BOOLEAN, reported \in BOOLEAN : StoreSummary(r, blank, reported)
    BY <1>2 DEF CompactReturns
  <2>3. exists' = exists /\ UNCHANGED rows /\ req'[r].op = "idle"
    BY <1>2 DEF CompactReturns, Leave, Serve, Idle, TypeOK
  <2>4. \A s \in Requests : req'[s].op = "compact" => req[s].op = "compact" /\ req'[s] = req[s]
    BY <1>1, <2>3
  <2>5. \/ summary' = summary
        \/ exists /\ summary' = Answered(req[r].plan, blank)
    BY <2>2 DEF StoreSummary
  <2>6. Covers(summary)'
    <3>1. CASE summary' = summary
      BY <2>3, <3>1 DEF Covered, Covers, Relevant, Contextual
    <3>2. CASE exists /\ summary' = Answered(req[r].plan, blank)
      <4>1. Covers(Answered(req[r].plan, blank))
        BY <1>2, <2>1, <3>2, AnsweredCovers DEF Covered, CompactReturns
      <4> QED
        BY <2>3, <3>2, <4>1 DEF Covers, Relevant, Contextual
    <3> QED
      BY <2>5, <3>1, <3>2
  <2>7. \A s \in Requests : exists' /\ req'[s].op = "compact" => Covers(req[s].plan)'
    BY <2>3, <2>4 DEF Covered, Covers, Relevant, Contextual
  <2> QED
    BY <2>6, <2>7 DEF Covered
<1>3. ASSUME NEW m \in Models, NEW k \in Preserves, StartCompact(r, m, k) PROVE Covered'
  <2>1. Covers(FoldPlan(k))
    BY <1>3, FoldPlanCovers DEF StartCompact, Covered
  <2>2. req'[r].plan = FoldPlan(k)
    BY <1>3, IdleTyped DEF StartCompact, Serve, TypeOK, Request
  <2> HIDE DEF Covers
  <2>3. PlansKept
    BY <1>1, <1>3, <2>1, <2>2 DEF StartCompact, PlansKept
  <2> QED
    BY <1>0, <2>3, PlansKeptCovered
<1>4. CASE ~CompactReturns(r) /\ ~\E m \in Models, k \in Preserves : StartCompact(r, m, k)
  <2>1. UNCHANGED summary /\ exists' = exists
    BY <1>4 DEF Serving, StartComplete, StartStream, Headers, ClientCloses, CompleteReturns,
       CallFails, CallGivesUp, EndCall, Drained, Delta, Thought, StreamFinishes,
       StreamFails, StreamCut, StreamCloses
  <2>2. req[r] \in Request
    BY DEF TypeOK
  <2>a. ASSUME NEW m \in Models, StartComplete(r, m) \/ StartStream(r, m) PROVE req'[r].op # "compact"
    BY <2>a DEF StartComplete, StartStream, Serve, Idle, TypeOK
  <2>b. ASSUME Leave(r) PROVE req'[r].op # "compact"
    BY <2>b DEF Leave, Serve, Idle, TypeOK
  <2>c. ASSUME NEW end, Settled(r, end), req[r].op = "stream" PROVE req'[r].op # "compact"
    BY <2>2, <2>c DEF Settled, Serve, TypeOK, Request
  <2>d. ASSUME NEW place, Move(r, place) PROVE req'[r].op = req[r].op /\ req'[r].plan = req[r].plan
    BY <2>2, <2>d DEF Move, TypeOK, Request
  <2>e. ASSUME ClientCloses(r) PROVE req'[r].op = req[r].op /\ req'[r].plan = req[r].plan
    BY <2>2, <2>e DEF ClientCloses, TypeOK, Request
  <2>f. ASSUME Delta(r) PROVE req'[r].op # "compact"
    BY <2>2, <2>f DEF Delta, Serve, TypeOK, Request
  <2>g. ASSUME StreamFinishes(r) \/ StreamFails(r) \/ StreamCut(r) PROVE req'[r].op # "compact"
    BY <2>c, <2>g DEF StreamFinishes, StreamFails, StreamCut, Interrupted
  <2>h. ASSUME Headers(r) \/ Drained(r) \/ Thought(r)
        PROVE  req'[r].op = req[r].op /\ req'[r].plan = req[r].plan
    BY <2>d, <2>h DEF Headers, Drained, Thought
  <2>i. ASSUME CompleteReturns(r) \/ CallFails(r) \/ CallGivesUp(r) \/ StreamCloses(r)
        PROVE  req'[r].op # "compact"
    BY <2>b, <2>i DEF CompleteReturns, CallFails, CallGivesUp, EndCall, StreamCloses
  <2>3. req'[r].op = "compact" => req[r].op = "compact" /\ req'[r].plan = req[r].plan
    BY <1>4, <2>a, <2>e, <2>f, <2>g, <2>h, <2>i DEF Serving
  <2>4. PlansKept
    BY <1>1, <2>1, <2>3 DEF PlansKept
  <2> QED
    BY <1>0, <2>4, PlansKeptCovered
<1> QED
  BY <1>2, <1>3, <1>4

LEMMA CoveredNext == TypeOK /\ TypeOK' /\ Streams /\ Covered /\ [Next]_vars => Covered'
<1> SUFFICES ASSUME TypeOK, TypeOK', Streams, Covered, [Next]_vars PROVE Covered'
  OBVIOUS
<1>1. CASE DeleteChat
  BY <1>1, EmptySeq DEF DeleteChat, Covered, Covers, NoSummary
<1>2. ASSUME NEW r \in Requests, Serving(r) PROVE Covered'
  BY <1>2, ServingCovered
<1>3. CASE ~DeleteChat /\ ~\E r \in Requests : Serving(r)
  <2>1. NoneAppearsBelow
    BY <1>3, StepAppears
  <2>2. PlansKept
    BY <1>3 DEF Next, PostMessage, DeleteModel, Crash, Restart, Idle, vars, PlansKept
  <2> QED
    BY <2>1, <2>2, PlansKeptCovered
<1> QED
  BY <1>1, <1>2, <1>3

(* Below the compaction boundary nothing is lost but what the two history  *)
(* variables name, and nothing above it is in the summary: for any number  *)
(* of concurrent compactions, replies and messages (compactChat,           *)
(* buildContextPure).                                                      *)
THEOREM CompactionAccounts == Spec => []HistoryCovered
<1>1. TypeOK /\ Covered => HistoryCovered
  BY DEF Covered, Covers, HistoryCovered, Accounted, Relevant
<1> QED
  BY TypeInit, TypeNext, StreamsInit, StreamsNext, CoveredInit, CoveredNext, <1>1, PTL DEF Spec

-----------------------------------------------------------------------------
(* Charges. *)

LEMMA ChargesType ==
  ASSUME TypeOK, NEW n
  PROVE  Charges(n) \in Nat /\ IsFiniteSet({i \in DOMAIN usage : usage[i] = [event |-> "chat_completion", row |-> n]})
<1>1. IsFiniteSet(1..Len(usage)) /\ DOMAIN usage = 1..Len(usage)
  <2>1. Len(usage) \in Nat /\ DOMAIN usage = 1..Len(usage) BY LenProperties DEF TypeOK
  <2> QED BY <2>1, FS_Interval
<1>2. IsFiniteSet({i \in DOMAIN usage : usage[i] = [event |-> "chat_completion", row |-> n]})
  BY <1>1, FS_Subset
<1> QED BY <1>2, FS_CardinalityType DEF Charges

(* An event adds to the charges of the message it names, and to no other;  *)
(* one for a compaction adds to none.                                      *)
LEMMA ChargeCounts ==
  ASSUME TypeOK, NEW kind \in {"chat_completion", "chat_compaction"}, NEW k \in Nat, Charge(kind, k)
  PROVE  \A n \in Nat :
           Charges(n)' = IF kind = "chat_completion" /\ n = k THEN Charges(n) + 1 ELSE Charges(n)
<1> SUFFICES ASSUME NEW n \in Nat
             PROVE  Charges(n)' = IF kind = "chat_completion" /\ n = k THEN Charges(n) + 1 ELSE Charges(n)
  OBVIOUS
<1> DEFINE e == [event |-> "chat_completion", row |-> n]
           new == [event |-> kind, row |-> k]
           S == {i \in DOMAIN usage : usage[i] = e}
           last == Len(usage) + 1
<1>1. /\ Len(usage) \in Nat /\ DOMAIN usage = 1..Len(usage) /\ DOMAIN usage' = 1..last
      /\ usage' = Append(usage, new)
      /\ \A i \in 1..Len(usage) : usage'[i] = usage[i]
      /\ usage'[last] = new
  BY LenProperties, AppendProperties DEF TypeOK, Charge
<1>2. new = e <=> kind = "chat_completion" /\ n = k OBVIOUS
<1>3. Charges(n)' = Cardinality({i \in DOMAIN usage' : usage'[i] = e}) BY DEF Charges
<1>4. Charges(n) = Cardinality(S) BY DEF Charges
<1>5. IsFiniteSet(S) BY ChargesType
<1> HIDE DEF e, new
<1>6. CASE new = e
  <2>1. {i \in DOMAIN usage' : usage'[i] = e} = S \cup {last} BY <1>1, <1>6
  <2>2. last \notin S BY <1>1
  <2> HIDE DEF S
  <2>3. Cardinality(S \cup {last}) = Cardinality(S) + 1 BY <1>5, <2>2, FS_AddElement
  <2> QED BY <1>2, <1>3, <1>4, <1>6, <2>1, <2>3
<1>7. CASE new # e
  <2>1. {i \in DOMAIN usage' : usage'[i] = e} = S BY <1>1, <1>7
  <2> QED BY <1>2, <1>3, <1>4, <1>7, <2>1
<1> QED BY <1>6, <1>7

LEMMA UsageStays == UNCHANGED usage => \A n \in Nat : Charges(n)' = Charges(n)
BY DEF Charges

-----------------------------------------------------------------------------
(* The invariant. *)

IsStream(r) == req[r].op = "stream"
Closing(r) == req[r].at = "closing"

OwnRows ==
  /\ \A r \in Requests : IsStream(r) => req[r].row \in DOMAIN rows /\ rows[req[r].row].author = "model"
  /\ \A r, s \in Requests : IsStream(r) /\ IsStream(s) /\ req[r].row = req[s].row => r = s

(* What is charged for a message, and for one that is not there. *)
Tally ==
  /\ \A n \in Nat : n > Len(rows) => Charges(n) = 0
  /\ \A n \in DOMAIN rows :
       /\ rows[n].status \in InFlight => Charges(n) = 0
       /\ Charges(n) <= 1
       /\ Charges(n) = 1 => rows[n].author = "model" /\ rows[n].status = "complete"

(* The outcome of a stream that has settled. *)
Outcome(end, got) ==
  CASE end = "finished" -> "complete"
    [] end = "failed" -> "error"
    [] OTHER -> IF got > 0 THEN "complete" ELSE "error"

Left(r) ==
  /\ rows[req[r].row].text = req[r].got
  /\ rows[req[r].row].status = Outcome(req[r].end, req[r].got)
  /\ Charges(req[r].row) = (IF req[r].end = "finished" THEN 1 ELSE 0)

Accounts == exists => OwnRows /\ Tally /\ \A r \in Requests : Closing(r) => Left(r)

LEMMA AccountsInit == Init => Accounts
<1> SUFFICES ASSUME Init PROVE OwnRows /\ Tally /\ \A r \in Requests : Closing(r) => Left(r)
  BY DEF Accounts
<1>1. \A r \in Requests : ~IsStream(r) /\ ~Closing(r) BY DEF Init, Idle, IsStream, Closing
<1>2. DOMAIN rows = {} /\ DOMAIN usage = {} BY EmptySeq DEF Init
<1>3. \A n : Charges(n) = 0
  <2>1. \A n : {i \in DOMAIN usage : usage[i] = [event |-> "chat_completion", row |-> n]} = {} BY <1>2
  <2> QED BY <2>1, FS_EmptySet DEF Charges
<1> QED BY <1>1, <1>2, <1>3 DEF OwnRows, Tally

(* What is known of the numbers. *)
LEMMA Numbers ==
  ASSUME TypeOK
  PROVE  /\ Len(rows) \in Nat /\ DOMAIN rows = 1..Len(rows) /\ \A n \in DOMAIN rows : n \in Nat /\ rows[n] \in Row
         /\ \A n \in Nat : Charges(n) \in Nat
         /\ \A r \in Requests : req[r] \in Request /\ req[r].row \in Nat /\ req[r].got \in Nat
<1>1. Len(rows) \in Nat /\ DOMAIN rows = 1..Len(rows) BY LenProperties DEF TypeOK
<1>2. \A n \in DOMAIN rows : n \in Nat /\ rows[n] \in Row BY <1>1, ElementOfSeq DEF TypeOK
<1>3. \A r \in Requests : req[r] \in Request /\ req[r].row \in Nat /\ req[r].got \in Nat
  BY ConstantsAssumption DEF TypeOK, Request, Text
<1> QED BY <1>1, <1>2, <1>3, ChargesType

(* The streams that go on, and those that had settled, as they were. *)
SameStreams ==
  \A s \in Requests :
    /\ IsStream(s)' => IsStream(s) /\ req'[s].row = req[s].row
    /\ Closing(s)' => Closing(s) /\ req'[s].row = req[s].row /\ req'[s].got = req[s].got
                      /\ req'[s].end = req[s].end

(* Only the streams of a chat settle. *)
LEMMA OnlyStreamsClose ==
  ASSUME Shaped, TypeOK
  PROVE  \A r \in Requests : Closing(r) => IsStream(r)
BY DEF Shaped, TypeOK, Request, Closing, IsStream

(* A step that writes no message and charges none. *)
LEMMA NothingWritten ==
  ASSUME TypeOK, Accounts, exists' => exists, exists' => rows' = rows, SameStreams,
         \A n \in Nat : Charges(n)' = Charges(n)
  PROVE  Accounts'
<1> SUFFICES ASSUME exists' PROVE (OwnRows /\ Tally /\ \A r \in Requests : Closing(r) => Left(r))'
  BY DEF Accounts
<1>1. OwnRows /\ Tally /\ \A r \in Requests : Closing(r) => Left(r) BY DEF Accounts
<1>2. rows' = rows OBVIOUS
<1>3. OwnRows' BY <1>1, <1>2 DEF OwnRows, SameStreams
<1>4. Tally' BY <1>1, <1>2, Numbers DEF Tally
<1>5. ASSUME NEW r \in Requests, Closing(r)' PROVE Left(r)'
  <2>1. Left(r) /\ req'[r].row = req[r].row /\ req'[r].got = req[r].got /\ req'[r].end = req[r].end
    BY <1>1, <1>5 DEF SameStreams
  <2>2. req[r].row \in Nat BY Numbers
  <2> QED BY <1>2, <2>1, <2>2 DEF Left
<1> QED BY <1>3, <1>4, <1>5

(* A message at the end, charged as it is written or not at all. *)
LEMMA Added ==
  ASSUME TypeOK, Shaped, Accounts, exists, NEW row \in Row, rows' = Append(rows, row), OwnRows',
         NEW charged \in BOOLEAN, charged => row.author = "model" /\ row.status = "complete",
         \A n \in Nat : Charges(n)' = IF charged /\ n = Len(rows) + 1 THEN Charges(n) + 1 ELSE Charges(n),
         \A s \in Requests : Closing(s)' => /\ Closing(s) /\ req'[s].row = req[s].row
                                            /\ req'[s].got = req[s].got /\ req'[s].end = req[s].end
  PROVE  Accounts'
<1>1. OwnRows /\ Tally /\ \A r \in Requests : Closing(r) => Left(r) BY DEF Accounts
<1>2. /\ Len(rows) \in Nat /\ DOMAIN rows = 1..Len(rows) /\ \A n \in DOMAIN rows : n \in Nat
      /\ \A n \in Nat : Charges(n) \in Nat
      /\ \A r \in Requests : req[r].row \in Nat
  BY Numbers
<1>3. /\ Len(rows') = Len(rows) + 1
      /\ DOMAIN rows' = DOMAIN rows \cup {Len(rows) + 1}
      /\ \A n \in DOMAIN rows : rows'[n] = rows[n]
      /\ rows'[Len(rows) + 1] = row
  BY AppendEffect
<1>4. Charges(Len(rows) + 1) = 0 BY <1>1, <1>2 DEF Tally
<1>5. \A n \in DOMAIN rows : n # Len(rows) + 1 /\ Charges(n)' = Charges(n) BY <1>2
<1>6. Tally'
  <2>1. ASSUME NEW n \in Nat, n > Len(rows') PROVE Charges(n)' = 0
    <3>1. n > Len(rows) /\ n # Len(rows) + 1 BY <1>2, <1>3, <2>1
    <3> QED BY <1>1, <3>1 DEF Tally
  <2>2. ASSUME NEW n \in DOMAIN rows'
        PROVE  /\ rows'[n].status \in InFlight => Charges(n)' = 0
               /\ Charges(n)' <= 1
               /\ Charges(n)' = 1 => rows'[n].author = "model" /\ rows'[n].status = "complete"
    <3>1. CASE n \in DOMAIN rows BY <1>1, <1>3, <1>5, <3>1 DEF Tally
    <3>2. CASE n = Len(rows) + 1 BY <1>2, <1>3, <1>4, <3>2 DEF InFlight
    <3> QED BY <1>3, <2>2, <3>1, <3>2
  <2> QED BY <2>1, <2>2 DEF Tally
<1>7. ASSUME NEW s \in Requests, Closing(s)' PROVE Left(s)'
  <2>1. /\ Left(s) /\ req'[s].row = req[s].row /\ req'[s].got = req[s].got /\ req'[s].end = req[s].end
        /\ req[s].row \in DOMAIN rows
    BY <1>1, <1>7, OnlyStreamsClose DEF OwnRows
  <2> QED BY <1>3, <1>5, <2>1 DEF Left
<1> QED BY <1>6, <1>7 DEF Accounts

LEMMA AddedOwn ==
  ASSUME TypeOK, OwnRows, SameStreams, NEW row, rows' = Append(rows, row)
  PROVE  OwnRows'
<1>1. DOMAIN rows \subseteq DOMAIN rows' /\ \A n \in DOMAIN rows : rows'[n] = rows[n] BY AppendEffect
<1> QED BY <1>1 DEF OwnRows, SameStreams

(* A stream writes its message, for good or not, and charges it or not. *)
LEMMA Written ==
  ASSUME TypeOK, Streams, Accounts, UNCHANGED exists, NEW r \in Requests, IsLive(r),
         NEW status \in {"pending", "streaming", "complete", "error"}, NEW text \in Nat,
         Flush(r, status, text),
         NEW charged \in BOOLEAN, charged => status = "complete",
         \A n \in Nat : Charges(n)' = IF charged /\ n = req[r].row THEN Charges(n) + 1 ELSE Charges(n),
         \A s \in Requests \ {r} :
            /\ IsStream(s)' => IsStream(s) /\ req'[s].row = req[s].row
            /\ Closing(s)' => Closing(s) /\ req'[s].got = req[s].got /\ req'[s].end = req[s].end,
         \A s \in Requests : Closing(s)' => IsStream(s)',
         IsStream(r)' => req'[r].row = req[r].row,
         Closing(r)' => /\ req'[r].got = text /\ status = Outcome(req'[r].end, text)
                        /\ charged <=> req'[r].end = "finished"
  PROVE  Accounts'
<1> SUFFICES ASSUME exists, exists' PROVE (OwnRows /\ Tally /\ \A s \in Requests : Closing(s) => Left(s))'
  BY DEF Accounts
<1>k. PICK k \in Nat : k = req[r].row BY Numbers
<1>1. OwnRows /\ Tally /\ \A s \in Requests : Closing(s) => Left(s) BY DEF Accounts
<1>2. /\ Len(rows) \in Nat /\ DOMAIN rows = 1..Len(rows) /\ \A n \in DOMAIN rows : n \in Nat
      /\ \A n \in Nat : Charges(n) \in Nat
      /\ \A s \in Requests : req[s].row \in Nat
  BY Numbers
<1>3. IsStream(r) BY DEF IsLive, IsStream
<1>4. k \in DOMAIN rows /\ rows[k].author = "model" /\ rows[k].status \in InFlight
  BY <1>k, <1>1, <1>3 DEF OwnRows, Streams, Reserved, InFlight
<1>5. /\ Len(rows') = Len(rows) /\ DOMAIN rows' = DOMAIN rows
      /\ \A n \in DOMAIN rows : n # k => rows'[n] = rows[n]
      /\ rows'[k] = [author |-> rows[k].author, status |-> status, text |-> text]
  BY <1>k, <1>4, FlushEffect
<1>6. Charges(k) = 0 BY <1>1, <1>4 DEF Tally
<1>7. \A s \in Requests : IsStream(s)' => IsStream(s) /\ req'[s].row = req[s].row BY <1>3
<1>8. OwnRows' BY <1>1, <1>4, <1>5, <1>7 DEF OwnRows
<1>9. \A n \in DOMAIN rows : n # k => Charges(n)' = Charges(n) BY <1>k, <1>2
<1>10. Charges(k)' = IF charged THEN 1 ELSE 0
  <2>1. Charges(k)' = IF charged THEN Charges(k) + 1 ELSE Charges(k) BY ONLY <1>k,
    \A n \in Nat : Charges(n)' = IF charged /\ n = req[r].row THEN Charges(n) + 1 ELSE Charges(n)
  <2> QED BY <1>6, <2>1
<1>11. Tally'
  <2>1. ASSUME NEW n \in Nat, n > Len(rows') PROVE Charges(n)' = 0
    <3>1. n > Len(rows) /\ n # k BY <1>2, <1>4, <1>5, <2>1
    <3> QED BY <1>1, <1>9, <1>k, <3>1 DEF Tally
  <2>2. ASSUME NEW n \in DOMAIN rows'
        PROVE  /\ rows'[n].status \in InFlight => Charges(n)' = 0
               /\ Charges(n)' <= 1
               /\ Charges(n)' = 1 => rows'[n].author = "model" /\ rows'[n].status = "complete"
    <3>1. CASE n # k BY <1>1, <1>5, <1>9, <2>2, <3>1 DEF Tally
    <3>2. CASE n = k BY <1>4, <1>5, <1>10, <3>2 DEF InFlight
    <3> QED BY <3>1, <3>2
  <2> QED BY <2>1, <2>2 DEF Tally
<1>12. ASSUME NEW s \in Requests, Closing(s)' PROVE Left(s)'
  <2>1. IsStream(s)' /\ IsStream(s) /\ req'[s].row = req[s].row BY <1>7, <1>12
  <2>2. CASE s = r
    <3>1. req'[r].row = k /\ req'[r].got = text /\ status = Outcome(req'[r].end, text) /\ (charged <=> req'[r].end = "finished")
      BY <1>k, <1>12, <2>1, <2>2
    <3> QED BY <1>5, <1>10, <2>2, <3>1 DEF Left
  <2>3. CASE s # r
    <3>1. Left(s) /\ req'[s].got = req[s].got /\ req'[s].end = req[s].end BY <1>1, <1>12, <2>3
    <3>2. PICK n \in DOMAIN rows : n = req[s].row /\ n # k BY <1>k, <1>1, <1>3, <2>1, <2>3 DEF OwnRows
    <3>3. rows'[n] = rows[n] /\ Charges(n)' = Charges(n) BY <1>5, <1>9, <3>2
    <3> QED BY <2>1, <3>1, <3>2, <3>3 DEF Left
  <2> QED BY <2>2, <2>3
<1> QED BY <1>8, <1>11, <1>12

-----------------------------------------------------------------------------
(* The steps. *)

(* What the helpers that serve a request leave of it. *)
LEMMA Served ==
  ASSUME TypeOK, NEW r \in Requests
  PROVE  /\ \A request : Serve(r, request) => \A s \in Requests : req'[s] = IF s = r THEN request ELSE req[s]
         /\ \A place : Move(r, place) =>
              /\ \A s \in Requests \ {r} : req'[s] = req[s]
              /\ req'[r].op = req[r].op /\ req'[r].at = place /\ req'[r].row = req[r].row
         /\ \A end : Settled(r, end) =>
              /\ \A s \in Requests \ {r} : req'[s] = req[s]
              /\ req'[r].op = req[r].op /\ req'[r].at = "closing" /\ req'[r].row = req[r].row
              /\ req'[r].got = req[r].got /\ req'[r].end = end
<1>1. req[r] \in Request /\ req \in [Requests -> Request] BY DEF TypeOK
<1>2. \A place : Move(r, place) =>
              /\ \A s \in Requests \ {r} : req'[s] = req[s]
              /\ req'[r].op = req[r].op /\ req'[r].at = place /\ req'[r].row = req[r].row
  BY <1>1 DEF Move, Request
<1>3. \A request : Serve(r, request) => \A s \in Requests : req'[s] = IF s = r THEN request ELSE req[s]
  BY <1>1 DEF Serve
<1>4. \A end : Settled(r, end) =>
              /\ \A s \in Requests \ {r} : req'[s] = req[s]
              /\ req'[r].op = req[r].op /\ req'[r].at = "closing" /\ req'[r].row = req[r].row
              /\ req'[r].got = req[r].got /\ req'[r].end = end
  BY <1>1 DEF Settled, Serve, Request
<1> QED BY <1>2, <1>3, <1>4

LEMMA IdleIsNoStream == Idle.op = "idle" /\ Idle.at = "idle"
BY DEF Idle

(* A stream that settles. *)
LEMMA SettlesAccounts ==
  ASSUME TypeOK, Streams, Accounts, UNCHANGED exists, NEW r \in Requests, IsLive(r),
         NEW end \in {"finished", "failed", "cut", "mistaken"}, Settled(r, end),
         Flush(r, Outcome(end, req[r].got), req[r].got),
         IF end = "finished" THEN Charge("chat_completion", req[r].row) ELSE UNCHANGED usage
  PROVE  Accounts'
<1>1. /\ \A s \in Requests \ {r} : req'[s] = req[s]
      /\ req'[r].op = req[r].op /\ req'[r].at = "closing" /\ req'[r].row = req[r].row
      /\ req'[r].got = req[r].got /\ req'[r].end = end
  BY Served
<1>2. req[r].got \in Nat /\ req[r].row \in Nat BY Numbers
<1>3. PICK charged \in BOOLEAN : charged <=> end = "finished" OBVIOUS
<1>4. \A n \in Nat : Charges(n)' = IF charged /\ n = req[r].row THEN Charges(n) + 1 ELSE Charges(n)
  <2>1. CASE end = "finished"
    <3>1. \A n \in Nat : Charges(n)' = IF "chat_completion" = "chat_completion" /\ n = req[r].row THEN Charges(n) + 1 ELSE Charges(n)
      BY <1>2, <2>1, ChargeCounts
    <3> QED BY <1>3, <2>1, <3>1
  <2>2. CASE end # "finished" BY <1>3, <2>2, UsageStays
  <2> QED BY <2>1, <2>2
<1>5. PICK status \in {"complete", "error"} : status = Outcome(end, req[r].got) BY DEF Outcome
<1>6. charged => status = "complete" BY <1>3, <1>5 DEF Outcome
<1>7. PICK text \in Nat : text = req[r].got BY <1>2
<1>8. Flush(r, status, text) BY <1>5, <1>7
<1>9. \A s \in Requests \ {r} :
            /\ IsStream(s)' => IsStream(s) /\ req'[s].row = req[s].row
            /\ Closing(s)' => Closing(s) /\ req'[s].got = req[s].got /\ req'[s].end = req[s].end
  BY <1>1 DEF IsStream, Closing
<1>10. \A s \in Requests : Closing(s)' => IsStream(s)'
  <2>1. \A s \in Requests : Closing(s) => IsStream(s) BY OnlyStreamsClose DEF Streams
  <2> QED BY <1>1, <2>1 DEF IsStream, Closing, IsLive
<1>11. IsStream(r)' => req'[r].row = req[r].row BY <1>1
<1>12. Closing(r)' => req'[r].got = text /\ status = Outcome(req'[r].end, text) /\ (charged <=> req'[r].end = "finished")
  BY <1>1, <1>3, <1>5, <1>7
<1> QED BY <1>4, <1>6, <1>8, <1>9, <1>10, <1>11, <1>12, Written

LEMMA ServingAccounts ==
  ASSUME TypeOK, Streams, Accounts, NEW r \in Requests, Serving(r)
  PROVE  Accounts'
<1> USE IdleIsNoStream
<1>0. req[r] \in Request /\ req[r].got \in Nat /\ req[r].row \in Nat /\ Len(rows) \in Nat BY Numbers
<1>s. Shaped /\ \A s \in Requests : Closing(s) => IsStream(s) BY OnlyStreamsClose DEF Streams
(* Nothing is written, and a request moves, starts or ends. *)
<1>q. ASSUME exists' = exists, rows' = rows, SameStreams, UNCHANGED usage PROVE Accounts'
  BY <1>q, UsageStays, NothingWritten
<1>m. ASSUME NEW place \in {"headers", "body", "yielded"}, Move(r, place) PROVE SameStreams
  BY <1>m, Served DEF SameStreams, IsStream, Closing
<1>l. ASSUME Leave(r) PROVE SameStreams
  BY <1>l, Served DEF Leave, SameStreams, IsStream, Closing
<1>o. ASSUME NEW request, Serve(r, request), request.op # "stream", request.at # "closing" PROVE SameStreams
  BY <1>o, Served DEF SameStreams, IsStream, Closing
<1>1. ASSUME NEW m \in Models, StartComplete(r, m) PROVE Accounts'
  <2>1. SameStreams BY <1>1, <1>o DEF StartComplete, Idle
  <2> QED BY <1>1, <1>q, <2>1 DEF StartComplete
<1>2. ASSUME NEW m \in Models, NEW k \in Preserves, StartCompact(r, m, k) PROVE Accounts'
  <2>1. SameStreams BY <1>2, <1>o DEF StartCompact, Idle
  <2> QED BY <1>2, <1>q, <2>1 DEF StartCompact
<1>3. CASE Headers(r) BY <1>3, <1>q, <1>m DEF Headers
<1>4. CASE ClientCloses(r)
  <2>1. /\ \A s \in Requests \ {r} : req'[s] = req[s]
        /\ req'[r].op = req[r].op /\ req'[r].at = req[r].at /\ req'[r].row = req[r].row
        /\ req'[r].got = req[r].got /\ req'[r].end = req[r].end
    BY <1>0, <1>4 DEF ClientCloses, TypeOK, Request
  <2>2. SameStreams BY <2>1 DEF SameStreams, IsStream, Closing
  <2> QED BY <1>4, <1>q, <2>2 DEF ClientCloses
<1>5. CASE CallFails(r) \/ CallGivesUp(r)
  BY <1>5, <1>q, <1>l DEF CallFails, CallGivesUp, EndCall
<1>6. CASE Drained(r) \/ Thought(r)
  <2>1. \E place \in {"headers", "body", "yielded"} : Move(r, place) BY <1>6 DEF Drained, Thought
  <2> QED BY <1>6, <1>m, <1>q, <2>1 DEF Drained, Thought
<1>7. CASE StreamCloses(r) BY <1>7, <1>q, <1>l DEF StreamCloses
<1>8. CASE CompactReturns(r)
  <2>1. \/ UNCHANGED usage
        \/ Charge("chat_compaction", 0)
    BY <1>8 DEF CompactReturns, StoreSummary
  <2>2. \A n \in Nat : Charges(n)' = Charges(n)
    <3>1. CASE UNCHANGED usage BY <3>1, UsageStays
    <3>2. CASE Charge("chat_compaction", 0)
      <4>1. \A n \in Nat : Charges(n)' = IF "chat_compaction" = "chat_completion" /\ n = 0 THEN Charges(n) + 1 ELSE Charges(n)
        BY <3>2, ChargeCounts
      <4> QED BY <4>1
    <3> QED BY <2>1, <3>1, <3>2
  <2>3. SameStreams BY <1>8, <1>l DEF CompactReturns
  <2> QED BY <1>8, <2>2, <2>3, NothingWritten DEF CompactReturns
(* A reply at the end. *)
<1>9. CASE CompleteReturns(r)
  <2>1. PICK text \in 0..1 : PersistReply(r, text) BY <1>9 DEF CompleteReturns
  <2>2. SameStreams BY <1>9, <1>l DEF CompleteReturns
  <2>3. CASE ~CanCharge(r) BY <1>9, <1>q, <2>1, <2>2, <2>3 DEF CompleteReturns, PersistReply
  <2>4. CASE CanCharge(r)
    <3>0. [author |-> "model", status |-> "complete", text |-> text] \in Row
      BY ConstantsAssumption DEF Row, Text
    <3>1. PICK row \in Row : row = [author |-> "model", status |-> "complete", text |-> text] BY <3>0
    <3>2. rows' = Append(rows, row) /\ Charge("chat_completion", Len(rows) + 1) /\ exists /\ exists'
      BY <1>9, <2>1, <2>4, <3>1 DEF CompleteReturns, PersistReply, CanCharge
    <3>3. OwnRows' BY <2>2, <3>2, AddedOwn DEF Accounts
    <3>4. \A n \in Nat : Charges(n)' = IF "chat_completion" = "chat_completion" /\ n = Len(rows) + 1 THEN Charges(n) + 1 ELSE Charges(n)
      <4>1. Len(rows) + 1 \in Nat BY <1>0
      <4> QED BY <3>2, <4>1, ChargeCounts
    <3>5. PICK charged \in BOOLEAN : charged OBVIOUS
    <3>6. \A n \in Nat : Charges(n)' = IF charged /\ n = Len(rows) + 1 THEN Charges(n) + 1 ELSE Charges(n)
      BY <3>4, <3>5
    <3>7. row.author = "model" /\ row.status = "complete" BY <3>1
    <3> QED BY <1>s, <2>2, <3>2, <3>3, <3>6, <3>7, Added DEF SameStreams
  <2> QED BY <2>3, <2>4
(* A reply's message is reserved. *)
<1>10. ASSUME NEW m \in Models, StartStream(r, m) PROVE Accounts'
  <2>0. [author |-> "model", status |-> "pending", text |-> 0] \in Row
    BY ConstantsAssumption DEF Row, Text
  <2>1. PICK row \in Row : row = [author |-> "model", status |-> "pending", text |-> 0] BY <2>0
  <2>2. rows' = Append(rows, row) /\ UNCHANGED usage /\ exists BY <1>10, <2>1 DEF StartStream, Starts
  <2>3. /\ \A s \in Requests \ {r} : req'[s] = req[s]
        /\ req'[r].op = "stream" /\ req'[r].at = "started" /\ req'[r].row = Len(rows) + 1
    <3> DEFINE request == [Idle EXCEPT !.op = "stream", !.at = "started", !.model = m, !.row = Len(rows) + 1]
    <3>1. request.op = "stream" /\ request.at = "started" /\ request.row = Len(rows) + 1 BY DEF Idle
    <3>2. Serve(r, request) BY <1>10 DEF StartStream
    <3> HIDE DEF request
    <3> QED BY <3>1, <3>2, Served
  <2>4. OwnRows'
    <3>1. /\ DOMAIN rows' = DOMAIN rows \cup {Len(rows) + 1} /\ Len(rows) + 1 \notin DOMAIN rows
          /\ \A n \in DOMAIN rows : rows'[n] = rows[n]
          /\ rows'[Len(rows) + 1].author = "model"
      BY <2>1, <2>2, AppendEffect
    <3>2. OwnRows BY <2>2 DEF Accounts
    <3> QED BY <2>3, <3>1, <3>2 DEF OwnRows, IsStream
  <2>5. \A s \in Requests : Closing(s)' => Closing(s) /\ req'[s] = req[s] BY <2>3 DEF Closing
  <2>6. PICK charged \in BOOLEAN : ~charged OBVIOUS
  <2>7. \A n \in Nat : Charges(n)' = IF charged /\ n = Len(rows) + 1 THEN Charges(n) + 1 ELSE Charges(n)
    BY <2>2, <2>6, UsageStays
  <2> QED BY <1>s, <2>2, <2>4, <2>5, <2>6, <2>7, Added
<1>11. CASE Delta(r)
  <2>1. /\ \A s \in Requests \ {r} : req'[s] = req[s]
        /\ req'[r].op = "stream" /\ req'[r].at = "yielded" /\ req'[r].row = req[r].row
    <3>1. req'[r] = [req[r] EXCEPT !.at = "yielded", !.got = @ + 1] /\ \A s \in Requests \ {r} : req'[s] = req[s]
      BY <1>11, Served DEF Delta
    <3> QED BY <1>0, <1>11, <3>1 DEF Delta, Request
  <2>2. CASE UNCHANGED rows
    <3>1. SameStreams BY <1>11, <2>1 DEF Delta, SameStreams, IsStream, Closing
    <3> QED BY <1>11, <1>q, <2>2, <3>1 DEF Delta
  <2>3. CASE Flush(r, "streaming", req[r].got + 1)
    <3>1. IsLive(r) /\ UNCHANGED <<exists, usage>> BY <1>11 DEF Delta, IsLive
    <3>2. PICK text \in Nat : text = req[r].got + 1 BY <1>0
    <3>3. PICK charged \in BOOLEAN : ~charged OBVIOUS
    <3>4. \A n \in Nat : Charges(n)' = IF charged /\ n = req[r].row THEN Charges(n) + 1 ELSE Charges(n)
      BY <3>1, <3>3, UsageStays
    <3>5. \A s \in Requests \ {r} :
            /\ IsStream(s)' => IsStream(s) /\ req'[s].row = req[s].row
            /\ Closing(s)' => Closing(s) /\ req'[s].got = req[s].got /\ req'[s].end = req[s].end
      BY <2>1 DEF IsStream, Closing
    <3>6. \A s \in Requests : Closing(s)' => IsStream(s)' BY <1>s, <2>1 DEF IsStream, Closing
    <3>7. ~Closing(r)' BY <2>1 DEF Closing
    <3> QED BY <2>1, <2>3, <3>1, <3>2, <3>3, <3>4, <3>5, <3>6, <3>7, Written
  <2> QED BY <1>11, <2>2, <2>3 DEF Delta
<1>12. CASE StreamFinishes(r)
  <2>1. IsLive(r) /\ exists' = exists BY <1>12 DEF StreamFinishes, IsLive
  <2>2. Outcome("finished", req[r].got) = "complete" /\ Outcome("failed", req[r].got) = "error" BY DEF Outcome
  <2> QED BY <1>12, <2>1, <2>2, SettlesAccounts DEF StreamFinishes
<1>i. ASSUME NEW end \in {"cut", "mistaken"}, Interrupted(r, end), IsLive(r), exists' = exists, UNCHANGED usage
      PROVE  Accounts'
  <2>1. Outcome(end, req[r].got) = IF req[r].got > 0 THEN "complete" ELSE "error" BY DEF Outcome
  <2> QED BY <1>i, <2>1, SettlesAccounts DEF Interrupted
<1>13. CASE StreamFails(r)
  <2>1. IsLive(r) /\ UNCHANGED <<exists, usage>> BY <1>13 DEF StreamFails, IsLive
  <2>2. Outcome("failed", req[r].got) = "error" BY DEF Outcome
  <2>3. CASE Flush(r, "error", req[r].got) /\ Settled(r, "failed") BY <2>1, <2>2, <2>3, SettlesAccounts
  <2>4. CASE Interrupted(r, "mistaken") BY <1>i, <2>1, <2>4
  <2> QED BY <1>13, <2>3, <2>4 DEF StreamFails
<1>14. CASE StreamCut(r) BY <1>14, <1>i DEF StreamCut, IsLive
<1> QED
  BY <1>1, <1>2, <1>3, <1>4, <1>5, <1>6, <1>7, <1>8, <1>9, <1>10, <1>11, <1>12, <1>13, <1>14 DEF Serving

LEMMA AccountsNext == TypeOK /\ Streams /\ Accounts /\ [Next]_vars => Accounts'
<1> SUFFICES ASSUME TypeOK, Streams, Accounts, [Next]_vars PROVE Accounts'
  OBVIOUS
<1> USE IdleIsNoStream
<1>s. Shaped BY DEF Streams
<1>1. CASE PostMessage
  <2>0. [author |-> "client", status |-> "complete", text |-> 1] \in Row BY ConstantsAssumption DEF Row, Text
  <2>1. PICK row \in Row : row = [author |-> "client", status |-> "complete", text |-> 1] BY <2>0
  <2>2. rows' = Append(rows, row) /\ exists /\ UNCHANGED <<req, usage>> BY <1>1, <2>1 DEF PostMessage
  <2>3. OwnRows'
    <3>1. SameStreams BY <2>2 DEF SameStreams, IsStream, Closing
    <3> QED BY <2>2, <3>1, AddedOwn DEF Accounts
  <2>4. PICK charged \in BOOLEAN : ~charged OBVIOUS
  <2>5. \A n \in Nat : Charges(n)' = IF charged /\ n = Len(rows) + 1 THEN Charges(n) + 1 ELSE Charges(n)
    BY <2>2, <2>4, UsageStays
  <2>6. \A s \in Requests : Closing(s)' => Closing(s) BY <2>2 DEF Closing
  <2> QED BY <1>s, <2>2, <2>3, <2>4, <2>5, <2>6, Added
<1>2. CASE DeleteChat BY <1>2 DEF DeleteChat, Accounts
<1>3. ASSUME UNCHANGED <<exists, rows, usage, req>> PROVE Accounts'
  <2>1. SameStreams BY <1>3 DEF SameStreams, IsStream, Closing
  <2> QED BY <1>3, <2>1, UsageStays, NothingWritten
<1>4. ASSUME NEW m \in Models, DeleteModel(m) PROVE Accounts' BY <1>3, <1>4 DEF DeleteModel
<1>5. ASSUME NEW r \in Requests, Serving(r) PROVE Accounts' BY <1>5, ServingAccounts
<1>6. CASE Crash
  <2>1. \A s \in Requests : ~IsStream(s)' /\ ~Closing(s)' BY <1>6 DEF Crash, IsStream, Closing
  <2>2. UNCHANGED <<exists, usage>> BY <1>6 DEF Crash
  <2>3. CASE UNCHANGED rows BY <2>1, <2>2, <2>3, UsageStays, NothingWritten DEF SameStreams
  <2>4. ASSUME NEW r \in Requests, IsLive(r), Flush(r, "complete", req[r].got) PROVE Accounts'
    <3>1. PICK text \in Nat : text = req[r].got BY Numbers
    <3>2. PICK charged \in BOOLEAN : ~charged OBVIOUS
    <3>3. \A n \in Nat : Charges(n)' = IF charged /\ n = req[r].row THEN Charges(n) + 1 ELSE Charges(n)
      BY <2>2, <3>2, UsageStays
    <3> QED BY <2>1, <2>2, <2>4, <3>1, <3>2, <3>3, Written
  <2> QED BY <1>6, <2>3, <2>4 DEF Crash, IsLive
<1>7. CASE Restart
  <2>1. \A s \in Requests : ~IsStream(s)' /\ ~Closing(s)'
    BY <1>7 DEF Restart, Streams, Shaped, IsStream, Closing
  <2>2. UNCHANGED <<exists, usage>> BY <1>7 DEF Restart
  <2>3. OwnRows' BY <2>1 DEF OwnRows
  <2>4. ASSUME exists PROVE Tally'
    <3>1. Tally BY <2>4 DEF Accounts
    <3>2. /\ Len(rows') = Len(rows) /\ DOMAIN rows' = DOMAIN rows
          /\ \A n \in DOMAIN rows :
              /\ rows'[n].status \notin InFlight
              /\ rows[n].status \notin InFlight => rows'[n] = rows[n]
      BY <1>7, SweepEffect
    <3>3. \A n \in Nat : Charges(n)' = Charges(n) BY <2>2, UsageStays
    <3>4. \A n \in DOMAIN rows : n \in Nat BY Numbers
    <3> QED BY <3>1, <3>2, <3>3, <3>4 DEF Tally
  <2> QED BY <2>1, <2>2, <2>3, <2>4 DEF Accounts
<1> QED BY <1>1, <1>2, <1>3, <1>4, <1>5, <1>6, <1>7 DEF Next, vars

LEMMA AccountsHold == Spec => [](TypeOK /\ Streams /\ Accounts)
BY TypeInit, TypeNext, StreamsInit, StreamsNext, AccountsInit, AccountsNext, PTL DEF Spec

(* A stream that has settled left the message its outcome calls for, with  *)
(* all the text that has come, and one usage event if it finished: for any *)
(* number of requests beside it, and whatever is deleted meanwhile         *)
(* (streamChat).                                                           *)
THEOREM OutcomesAreStored == Spec => []OutcomeStored
<1>1. TypeOK /\ Streams /\ Accounts => OutcomeStored
  BY DEF Accounts, Closing, Left, Outcome, OutcomeStored
<1> QED BY <1>1, AccountsHold, PTL

(* No message is charged twice, and what is charged is a complete reply,   *)
(* also when the process dies between the reply and its usage event        *)
(* (persistAssistantReply, streamChat).                                    *)
THEOREM RepliesAreChargedOnce == Spec => []ChargedAtMostOnce
<1>1. TypeOK /\ Streams /\ Accounts => ChargedAtMostOnce
  BY DEF Accounts, Tally, ChargedAtMostOnce
<1> QED BY <1>1, AccountsHold, PTL

-----------------------------------------------------------------------------
(* The transcript. *)

Read == [n \in DOMAIN rows |-> Seen(rows[n])]

LEMMA SeenType == \A row \in Row : Seen(row) \in Reader!Message
BY DEF Row, Seen, InFlight, Reader!Message

ReadIsTyped ==
  /\ Len(rows) \in Nat /\ DOMAIN rows = 1..Len(rows) /\ DOMAIN Read = DOMAIN rows
  /\ \A n \in DOMAIN rows : rows[n] \in Row /\ Read[n] = Seen(rows[n]) /\ Seen(rows[n]) \in Reader!Message
  /\ Read \in Seq(Reader!Message) /\ Len(Read) = Len(rows)

LEMMA ReadType == TypeOK => ReadIsTyped
<1> SUFFICES ASSUME TypeOK PROVE ReadIsTyped
  OBVIOUS
<1>1. /\ Len(rows) \in Nat /\ DOMAIN rows = 1..Len(rows)
      /\ \A n \in DOMAIN rows : rows[n] \in Row
  BY Numbers
<1>2. \A n \in DOMAIN rows : Seen(rows[n]) \in Reader!Message BY <1>1, SeenType
<1>3. Read \in [1..Len(rows) -> Reader!Message] BY <1>1, <1>2 DEF Read
<1>4. Read \in Seq(Reader!Message) BY <1>1, <1>3, SeqDef
<1>5. Len(Read) = Len(rows) BY <1>1, <1>3, <1>4, LenProperties
<1> QED BY <1>1, <1>2, <1>4, <1>5 DEF Read, ReadIsTyped

LEMMA ReadAppend ==
  ASSUME TypeOK, TypeOK', NEW row \in Row, rows' = Append(rows, row)
  PROVE  Read' = Append(Read, Seen(row))
<1> DEFINE longer == Append(Read, Seen(row))
<1>1. Read \in Seq(Reader!Message) /\ Len(Read) = Len(rows) /\ Seen(row) \in Reader!Message
      /\ Len(rows) \in Nat /\ DOMAIN rows = 1..Len(rows) /\ \A n \in DOMAIN rows : Read[n] = Seen(rows[n])
  BY ReadType, SeenType DEF ReadIsTyped
<1>2. /\ longer \in Seq(Reader!Message) /\ Len(longer) = Len(rows) + 1
      /\ \A i \in 1..Len(rows) : longer[i] = Read[i]
      /\ longer[Len(rows) + 1] = Seen(row)
  BY <1>1, AppendProperties
<1>3. ReadIsTyped' BY ReadType, PTL
<1>4. /\ Len(rows') = Len(rows) + 1 /\ DOMAIN rows' = DOMAIN rows \cup {Len(rows) + 1}
      /\ \A n \in DOMAIN rows : rows'[n] = rows[n] /\ rows'[Len(rows) + 1] = row
  BY AppendEffect
<1> HIDE DEF longer
<1>5. Len(Read') = Len(longer) /\ \A i \in 1..Len(Read') : Read'[i] = longer[i]
  BY <1>1, <1>2, <1>3, <1>4 DEF ReadIsTyped
<1>6. Read' = longer
  <2>1. Read' \in Seq(Reader!Message) BY <1>3 DEF ReadIsTyped, Reader!Message
  <2> QED BY <1>2, <1>5, <2>1, SeqEqual
<1> QED BY <1>6 DEF longer

(* An append adds a settled message or reserves a place; what a live       *)
(* stream writes advances its message; the sweep recovers them all.        *)
LEMMA AppendReads ==
  ASSUME TypeOK, TypeOK', exists, exists' = exists, NEW row \in Row, rows' = Append(rows, row),
         \/ row.status = "complete"
         \/ row = [author |-> "model", status |-> "pending", text |-> 0]
  PROVE  Reader!TNext
<1>1. Read' = Append(Read, Seen(row)) /\ Seen(row) \in Reader!Message BY ReadAppend, SeenType
<1>2. CASE row.status = "complete"
  <2>1. Seen(row).state = "complete" BY <1>2 DEF Seen, InFlight
  <2>2. Reader!AddSettled BY <1>1, <2>1 DEF Reader!AddSettled, Read
  <2> QED BY <2>2 DEF Reader!TNext
<1>3. CASE row = [author |-> "model", status |-> "pending", text |-> 0]
  <2>1. Seen(row) = [author |-> "model", state |-> "open", text |-> 0] BY <1>3 DEF Seen, InFlight
  <2>2. Reader!Reserve BY <1>1, <2>1 DEF Reader!Reserve, Read
  <2> QED BY <2>2 DEF Reader!TNext
<1> QED BY <1>2, <1>3

LEMMA FlushReads ==
  ASSUME TypeOK, TypeOK', Streams, UNCHANGED exists, NEW r \in Requests, IsLive(r),
         NEW status \in {"pending", "streaming", "complete", "error"}, NEW text \in Text, req[r].got <= text,
         Flush(r, status, text)
  PROVE  UNCHANGED rows \/ Reader!TNext
<1>1. CASE ~exists BY <1>1 DEF Flush
<1>2. CASE exists
  <2>1. ReadIsTyped BY ReadType
  <2>2. PICK k \in DOMAIN rows : /\ k = req[r].row /\ rows[k].status \in InFlight
                                 /\ rows[k].text <= req[r].got
    BY <1>2 DEF Streams, Reserved, InFlight
  <2> DEFINE row == [author |-> rows[k].author, status |-> status, text |-> text]
             m == Seen(row)
  <2>a. \A t \in Text : t \in Nat BY ConstantsAssumption DEF Text
  <2>3. text \in Nat /\ req[r].got \in Nat BY <2>a DEF TypeOK, Request
  <2>4. /\ DOMAIN rows' = DOMAIN rows
        /\ \A n \in DOMAIN rows : n # k => rows'[n] = rows[n]
        /\ rows'[k] = row
    BY <1>2, <2>2, <2>3, FlushEffect
  <2>5. rows[k] \in Row /\ rows[k].text \in Nat BY <2>1, ConstantsAssumption DEF ReadIsTyped, Row, Text
  <2>6. row \in Row BY <2>5 DEF Row
  <2>7. m \in Reader!Message BY <2>6, SeenType
  <2>8. m.author = Seen(rows[k]).author /\ m.text >= Seen(rows[k]).text /\ Seen(rows[k]).state = "open"
    BY <2>2, <2>3, <2>5 DEF Seen
  <2> HIDE DEF row, m
  <2>9. Read[k] = Seen(rows[k]) /\ k \in DOMAIN Read BY <2>1 DEF ReadIsTyped
  <2>10. Read' = [Read EXCEPT ![k] = m]
    <3>1. \A n \in DOMAIN rows : Read'[n] = IF n = k THEN m ELSE Read[n]
      BY <2>4 DEF Read, m
    <3> QED BY <2>4, <3>1 DEF Read
  <2>11. Reader!Advance
    <3>1. /\ k \in DOMAIN Read /\ Read[k].state = "open"
          /\ m.author = Read[k].author /\ m.text >= Read[k].text /\ Read' = [Read EXCEPT ![k] = m]
      BY <2>8, <2>9, <2>10
    <3> QED BY <1>2, <2>7, <3>1 DEF Reader!Advance, Read
  <2> QED BY <2>11 DEF Reader!TNext
<1> QED BY <1>1, <1>2

LEMMA SweepReads ==
  ASSUME TypeOK, Restart
  PROVE  Reader!TNext
<1>1. DOMAIN rows' = DOMAIN rows /\ \A n \in DOMAIN rows : rows'[n] = Sweep(rows[n]) /\ rows[n] \in Row
  BY SweepEffect
<1>2. \A row \in Row : Seen(Sweep(row)) = IF Seen(row).state = "open" THEN [Seen(row) EXCEPT !.state = "error"]
                                          ELSE Seen(row)
  <2> SUFFICES ASSUME NEW row \in Row
               PROVE  Seen(Sweep(row)) = IF Seen(row).state = "open" THEN [Seen(row) EXCEPT !.state = "error"]
                                         ELSE Seen(row)
    OBVIOUS
  <2>1. CASE row.status \in InFlight
    <3>1. Seen(row) = [author |-> row.author, text |-> row.text, state |-> "open"] BY <2>1 DEF Seen
    <3>2. Sweep(row) = [author |-> row.author, status |-> "error", text |-> row.text] BY <2>1 DEF Sweep, Row
    <3>3. Seen(Sweep(row)) = [author |-> row.author, text |-> row.text, state |-> "error"]
      BY <3>2 DEF Seen, InFlight
    <3> QED BY <3>1, <3>3
  <2>2. CASE row.status \notin InFlight BY <2>2 DEF Seen, Sweep, Row, InFlight
  <2> QED BY <2>1, <2>2
<1>3. Read' = [n \in DOMAIN Read |-> IF Read[n].state = "open" THEN [Read[n] EXCEPT !.state = "error"] ELSE Read[n]]
  <2>1. \A n \in DOMAIN rows : Seen(rows'[n]) = IF Seen(rows[n]).state = "open"
                                                THEN [Seen(rows[n]) EXCEPT !.state = "error"] ELSE Seen(rows[n])
    BY <1>1, <1>2
  <2> HIDE DEF Seen
  <2> QED BY <1>1, <2>1 DEF Read
<1>4. Reader!Recover BY <1>3 DEF Reader!Recover, Read, Restart
<1> QED BY <1>4 DEF Reader!TNext

LEMMA ServingReads ==
  ASSUME TypeOK, TypeOK', Streams, NEW r \in Requests, Serving(r)
  PROVE  UNCHANGED <<exists, rows>> \/ Reader!TNext
<1>0. req[r].got \in Text /\ req[r].got \in Nat BY ConstantsAssumption DEF TypeOK, Request, Text
<1>1. ASSUME NEW m \in Models, StartStream(r, m) PROVE Reader!TNext
  <2>1. [author |-> "model", status |-> "pending", text |-> 0] \in Row BY ConstantsAssumption DEF Row, Text
  <2> QED BY <1>1, <2>1, AppendReads DEF StartStream, Starts
<1>2. CASE CompleteReturns(r)
  <2>1. PICK text \in 0..1 : PersistReply(r, text) BY <1>2 DEF CompleteReturns
  <2>2. [author |-> "model", status |-> "complete", text |-> text] \in Row BY ConstantsAssumption DEF Row, Text
  <2>3. CASE CanCharge(r)
    <3> DEFINE row == [author |-> "model", status |-> "complete", text |-> text]
    <3>1. rows' = Append(rows, row) /\ row.status = "complete" /\ exists /\ exists' = exists
      BY <1>2, <2>1, <2>3 DEF CompleteReturns, PersistReply, CanCharge
    <3> HIDE DEF row
    <3>2. row \in Row BY <2>2 DEF row
    <3> QED BY <3>1, <3>2, AppendReads
  <2>4. CASE ~CanCharge(r) BY <1>2, <2>1, <2>4 DEF CompleteReturns, PersistReply
  <2> QED BY <2>3, <2>4
<1>3. CASE Delta(r)
  <2>1. req[r].got + 1 \in Text /\ req[r].got <= req[r].got + 1 BY <1>0, <1>3, ConstantsAssumption DEF Delta, Text
  <2>2. CASE Flush(r, "streaming", req[r].got + 1) BY <1>3, <2>1, <2>2, FlushReads DEF Delta, IsLive
  <2> QED BY <1>3, <2>2 DEF Delta
<1>4. ASSUME NEW status \in {"complete", "error"}, Flush(r, status, req[r].got), IsLive(r), exists' = exists
      PROVE  UNCHANGED <<exists, rows>> \/ Reader!TNext
  <2>1. req[r].got <= req[r].got BY <1>0
  <2> QED BY <1>0, <1>4, <2>1, FlushReads
<1>5. CASE StreamFinishes(r) BY <1>4, <1>5 DEF StreamFinishes, IsLive
<1>6. CASE StreamFails(r) BY <1>4, <1>6 DEF StreamFails, Interrupted, IsLive
<1>7. CASE StreamCut(r) BY <1>4, <1>7 DEF StreamCut, Interrupted, IsLive
<1> QED
  BY <1>1, <1>2, <1>3, <1>5, <1>6, <1>7
  DEF Serving, StartComplete, StartCompact, Headers, ClientCloses, CompactReturns, CallFails, CallGivesUp,
      EndCall, Drained, Thought, StreamCloses

LEMMA StepReads ==
  TypeOK /\ TypeOK' /\ Streams /\ [Next]_vars => [Reader!TNext]_(Reader!tVars)
<1> SUFFICES ASSUME TypeOK, TypeOK', Streams, [Next]_vars PROVE [Reader!TNext]_(Reader!tVars)
  OBVIOUS
<1>0. ASSUME UNCHANGED <<exists, rows>> PROVE UNCHANGED Reader!tVars
  BY <1>0 DEF Reader!tVars
<1>1. CASE PostMessage
  <2>1. [author |-> "client", status |-> "complete", text |-> 1] \in Row BY ConstantsAssumption DEF Row, Text
  <2> DEFINE row == [author |-> "client", status |-> "complete", text |-> 1]
  <2>2. rows' = Append(rows, row) /\ row.status = "complete" /\ exists /\ exists' = exists /\ row \in Row
    BY <1>1, <2>1 DEF PostMessage
  <2> HIDE DEF row
  <2> QED BY <2>2, AppendReads
<1>2. CASE DeleteChat
  <2>1. Read' = <<>>
    <3>1. ReadIsTyped' BY ReadType, PTL
    <3>2. rows' = <<>> BY <1>2 DEF DeleteChat
    <3> QED BY <3>1, <3>2, EmptySeq DEF ReadIsTyped
  <2>2. Reader!Drop BY <1>2, <2>1 DEF Reader!Drop, DeleteChat, Read
  <2> QED BY <2>2 DEF Reader!TNext
<1>3. ASSUME NEW m \in Models, DeleteModel(m) PROVE UNCHANGED Reader!tVars BY <1>0, <1>3 DEF DeleteModel
<1>4. ASSUME NEW r \in Requests, Serving(r) PROVE [Reader!TNext]_(Reader!tVars) BY <1>0, <1>4, ServingReads
<1>5. CASE Crash
  <2>1. exists' = exists BY <1>5 DEF Crash
  <2>2. CASE UNCHANGED rows BY <1>0, <2>1, <2>2
  <2>3. ASSUME NEW r \in Requests, IsLive(r), Flush(r, "complete", req[r].got)
        PROVE  [Reader!TNext]_(Reader!tVars)
    <3>1. req[r].got \in Text /\ req[r].got <= req[r].got BY ConstantsAssumption DEF TypeOK, Request, Text
    <3> QED BY <1>0, <2>1, <2>3, <3>1, FlushReads
  <2> QED BY <1>5, <2>2, <2>3 DEF Crash, IsLive
<1>6. CASE Restart BY <1>6, SweepReads
<1>7. CASE UNCHANGED vars BY <1>0, <1>7 DEF vars
<1> QED BY <1>1, <1>2, <1>3, <1>4, <1>5, <1>6, <1>7 DEF Next

(* Every behaviour of the API shows a reader of the messages a transcript: *)
(* it grows at its end, a reply gains text and settles once, what has      *)
(* settled stays, and a restart settles what was left open (chats and      *)
(* messages modules, streamChat, sweepStrandedMessages).                   *)
THEOREM TheChatIsATranscript == Spec => IsTranscript
<1>1. Init => Reader!TInit
  <2> SUFFICES ASSUME Init PROVE Reader!TInit
    OBVIOUS
  <2>1. DOMAIN Read = {} BY EmptySeq DEF Init, Read
  <2>2. Read = <<>>
    <3>1. ReadIsTyped BY TypeInit, ReadType
    <3> QED BY <2>1, <3>1, EmptySeq DEF ReadIsTyped, Init
  <2> QED BY <2>2 DEF Reader!TInit, Init, Read
<1> QED
  BY <1>1, StepReads, TypeInit, TypeNext, StreamsInit, StreamsNext, PTL DEF Spec, IsTranscript, Reader!TSpec
=============================================================================
