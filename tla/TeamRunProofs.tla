--------------------------- MODULE TeamRunProofs ----------------------------
(***************************************************************************)
(* What holds of the turns of a team for every number of prompts, agents   *)
(* and turns.  The inductive invariant speaks of one prompt at a time: of  *)
(* its record u, of the messages rs and of the charges us, so that it can  *)
(* be used in the middle of a step too, where a turn has been stored and   *)
(* the next one has not begun.                                             *)
(***************************************************************************)
EXTENDS TeamRun, FiniteSetTheorems, SequenceTheorems, TLAPS

TurnsIn(r, rs) == {n \in DOMAIN rs : rs[n].run = r}
LastIn(r, rs, n) == \A m \in TurnsIn(r, rs) : m <= n
Place(r, rs, n) == Cardinality({m \in TurnsIn(r, rs) : m <= n})
Charged(us, n) == \E i \in DOMAIN us : us[i] = n

(* A turn is streamed; a turn waits for its answer in one piece; a turn    *)
(* streamed to its end waits for its client.                               *)
Works(u) == u.at \in {"started", "provider", "yielded"} /\ u.streams
Waits(u) == u.at = "provider" /\ ~u.streams
Turned(u) == u.at = "turned"
ByRoster(u) == u.strategy \in {"sequential", "broadcast"}
Bound(u) == IF u.strategy = "coordinator" THEN 2 ELSE u.limit
Broken(u) == Works(u) \/ u.end \in {"failed", "cut", "dropped", "stranded"}

(* The messages of a prompt: the last one may be under way or broken off,  *)
(* all others are complete and charged.                                    *)
Own(r, u, rs, us) ==
  /\ u.at = "idle" => TurnsIn(r, rs) = {}
  /\ u.at # "over" => u.end = "none"
  /\ \A n \in TurnsIn(r, rs) :
       \/ LastIn(r, rs, n) /\ Broken(u)
       \/ rs[n].status = "complete" /\ Charged(us, n)
  /\ \A n \in TurnsIn(r, rs) : rs[n].status \in InFlight =>
       u.row = n /\ (Works(u) \/ (u.end = "stranded" /\ u.strategy = "coordinator"))
  /\ Works(u) =>
       /\ u.row \in TurnsIn(r, rs) /\ LastIn(r, rs, u.row)
       /\ rs[u.row].status = (IF u.said THEN "streaming" ELSE "pending")

(* What its turns have seen, and what a turn under way has seen whose      *)
(* message is not there yet.                                               *)
Sees(r, u, rs) ==
  /\ u.upto <= Len(rs)
  /\ u.strategy = "broadcast" =>
       /\ \A n \in TurnsIn(r, rs) : n > u.upto /\ \A k \in rs[n].saw : k <= u.upto
       /\ Waits(u) => \A k \in u.saw : k <= u.upto
  /\ u.strategy # "broadcast" =>
       /\ \A n, m \in TurnsIn(r, rs) : m < n /\ rs[m].said => m \in rs[n].saw
       /\ Waits(u) => \A m \in TurnsIn(r, rs) : rs[m].said => m \in u.saw

(* Who has spoken, and who is to speak. *)
Spoken(r, u, rs) ==
  \A n \in TurnsIn(r, rs) :
    /\ ByRoster(u) => rs[n].agent \in {u.members[Place(r, rs, n)], NoAgent}
    /\ \A m \in TurnsIn(r, rs) : Place(r, rs, n) = Place(r, rs, m) + 1 =>
         rs[n].agent # rs[m].agent \/ rs[n].agent = NoAgent

Order(r, u, rs) ==
  /\ u.turn <= Bound(u)
  /\ Cardinality(TurnsIn(r, rs)) <= u.turn
  /\ Works(u) \/ Turned(u) => Cardinality(TurnsIn(r, rs)) = u.turn
  /\ Waits(u) => Cardinality(TurnsIn(r, rs)) + 1 = u.turn
  /\ Distinct(u.members)
  /\ u.at \notin {"idle", "over"} =>
       /\ u.who \in Agents
       /\ ByRoster(u) => u.turn \in DOMAIN u.members /\ u.who = u.members[u.turn]
  /\ Spoken(r, u, rs)
  /\ Works(u) \/ Turned(u) =>
       \A m \in TurnsIn(r, rs) : Place(r, rs, m) = u.turn => rs[m].agent \in {u.who, NoAgent}
  /\ Waits(u) =>
       \A m \in TurnsIn(r, rs) : Place(r, rs, m) + 1 = u.turn => rs[m].agent # u.who
  /\ Turned(u) => u.next \in HandsOnTo(u)

(* Nothing is charged twice, and only complete messages are. *)
Ledger(rs, us) ==
  /\ \A i, j \in DOMAIN us : us[i] = us[j] => i = j
  /\ \A i \in DOMAIN us : us[i] \in DOMAIN rs /\ rs[us[i]].status = "complete"

(* What clients have posted is complete. *)
Posted(rs) == \A n \in TurnsIn(NoRun, rs) : rs[n].status = "complete"

Inv ==
  /\ Distinct(roster)
  /\ \A i, j \in DOMAIN usage : usage[i] = usage[j] => i = j
  /\ exists => /\ Ledger(rows, usage) /\ Posted(rows)
               /\ \A r \in Runs : Own(r, run[r], rows, usage) /\ Sees(r, run[r], rows)
                                  /\ Order(r, run[r], rows)
  /\ ~exists => rows = <<>>

-----------------------------------------------------------------------------
(* Sequences and turns. *)

(* A message added at the end leaves those before it in their places. *)
LEMMA Appended ==
  ASSUME NEW rs \in Seq(Row), NEW x \in Row
  PROVE  /\ Append(rs, x) \in Seq(Row)
         /\ DOMAIN Append(rs, x) = DOMAIN rs \cup {Len(rs) + 1}
         /\ Len(rs) + 1 \notin DOMAIN rs
         /\ Len(Append(rs, x)) = Len(rs) + 1
         /\ \A n \in DOMAIN rs : Append(rs, x)[n] = rs[n] /\ n <= Len(rs) /\ n \in Nat
         /\ Append(rs, x)[Len(rs) + 1] = x
         /\ Len(rs) \in Nat
OBVIOUS

(* The record of a request that serves nothing. *)
LEMMA IdleTyped == Idle \in Run
BY TeamAssumption DEF Idle, Run

(* What is shown to a turn are sequences of messages. *)
LEMMA ShownTyped ==
  ASSUME NEW u, NEW rs \in Seq(Row)
  PROVE  Shown(u, rs) \in SUBSET Nat
BY DEF Shown

(* The fields of u that a turn leaves alone. *)
Continues(u, v) ==
  /\ v \in Run
  /\ v.streams = u.streams /\ v.strategy = u.strategy /\ v.members = u.members
  /\ v.limit = u.limit /\ v.upto = u.upto

(* The message a turn leaves. *)
Said(r, u, x, status, said, saw) ==
  /\ x \in Row
  /\ x.run = r /\ x.agent = u.who /\ x.status = status /\ x.said = said /\ x.saw = saw

(* How a turn of u can begin without a message: its agent cannot speak, it *)
(* asks for an answer in one piece, or it fails.                           *)
Quiet(u, v) ==
  \/ v.at = "over" /\ u.streams /\ v.end = "dropped"
  \/ v.at = "provider" /\ ~u.streams /\ v.end = u.end
  \/ v.at = "over" /\ ~u.streams /\ v.end = "failed"

(* And with one: its row is reserved, it is reserved for a client that has *)
(* gone, or it fails.                                                      *)
Loud(r, u, v, rs, x) ==
  /\ u.who \in agents
  /\ \/ /\ v.at = "started" /\ u.streams /\ v.end = u.end /\ v.row = Len(rs) + 1 /\ ~v.said
        /\ Said(r, u, x, "pending", FALSE, v.saw)
     \/ /\ v.at = "over" /\ u.streams /\ ~u.open /\ v.end = "stranded" /\ v.row = Len(rs) + 1
        /\ Said(r, u, x, "pending", FALSE, v.saw)
     \/ /\ v.at = "over" /\ ~u.streams /\ v.end = "failed"
        /\ Said(r, u, x, "error", FALSE, v.saw)

Begins(r, u, v, rs, rs2) ==
  /\ Continues(u, v)
  /\ v.turn = u.turn + 1 /\ v.who = u.who /\ v.saw = Shown(u, rs)
  /\ \/ rs2 = rs /\ Quiet(u, v)
     \/ \E x : rs2 = Append(rs, x) /\ Loud(r, u, v, rs, x)

(* Begin is one of these. *)
LEMMA BeginBegins ==
  ASSUME TypeOK, NEW r \in Runs, NEW u \in Run, NEW rs \in Seq(Row), Begin(r, u, rs)
  PROVE  \E v : Becomes(r, v) /\ Begins(r, u, v, rs, rows')
<1> DEFINE begun == [u EXCEPT !.turn = @ + 1, !.saw = Shown(u, rs), !.row = 0,
                              !.said = FALSE, !.next = NoAgent, !.at = "provider"]
           reserved == [begun EXCEPT !.at = "started", !.row = Len(rs) + 1]
<1>0. Shown(u, rs) \in SUBSET Nat /\ u.turn + 1 \in Nat /\ Len(rs) + 1 \in Nat
  BY ShownTyped DEF Run
<1>1. /\ begun \in Run
      /\ begun.turn = u.turn + 1 /\ begun.who = u.who /\ begun.saw = Shown(u, rs)
      /\ begun.at = "provider" /\ begun.end = u.end /\ begun.said = FALSE
      /\ Continues(u, begun)
  BY <1>0 DEF Run, Continues
<1> HIDE DEF begun
<1>2. /\ reserved \in Run
      /\ reserved.turn = u.turn + 1 /\ reserved.who = u.who /\ reserved.saw = Shown(u, rs)
      /\ reserved.at = "started" /\ reserved.end = u.end /\ reserved.row = Len(rs) + 1
      /\ reserved.said = FALSE
      /\ Continues(u, reserved)
  BY ZenonT(60), <1>0, <1>1 DEF Run, Continues
<1>3. ASSUME NEW w \in Run, NEW e \in {"failed", "dropped", "stranded"}
      PROVE  /\ Over(w, e) \in Run
             /\ Over(w, e).turn = w.turn /\ Over(w, e).who = w.who /\ Over(w, e).saw = w.saw
             /\ Over(w, e).at = "over" /\ Over(w, e).end = e /\ Over(w, e).row = w.row
             /\ Continues(u, w) => Continues(u, Over(w, e))
  <2> DEFINE o == Over(w, e)
  <2>1. /\ o \in Run /\ o.turn = w.turn /\ o.who = w.who /\ o.saw = w.saw
        /\ o.at = "over" /\ o.end = e /\ o.row = w.row
        /\ o.streams = w.streams /\ o.strategy = w.strategy /\ o.members = w.members
        /\ o.limit = w.limit /\ o.upto = w.upto
    BY ZenonT(60) DEF Run, Over
  <2> HIDE DEF o
  <2>2. Continues(u, w) => Continues(u, o) BY <2>1 DEF Continues
  <2> QED BY <2>1, <2>2 DEF o
<1>4. ASSUME NEW st \in {"pending", "error"}
      PROVE  Said(r, u, Turn(r, begun, st, FALSE), st, FALSE, Shown(u, rs))
  BY <1>1, ShownTyped DEF Said, Turn, Row, Run
<1> HIDE DEF reserved
<1>5. CASE u.streams
  <2>1. CASE exists /\ Resolves(u.who)
    <3>1. /\ rows' = Append(rs, Turn(r, begun, "pending", FALSE))
          /\ Becomes(r, IF u.open THEN reserved ELSE Over(reserved, "stranded"))
      BY <1>5, <2>1 DEF Begin, begun, reserved
    <3>2. u.who \in agents BY <2>1 DEF Resolves
    <3>3. CASE u.open
      <4>1. Becomes(r, reserved) BY <3>1, <3>3
      <4>2. Begins(r, u, reserved, rs, rows') BY <1>2, <1>4, <1>5, <3>1, <3>2 DEF Begins, Quiet, Loud
      <4> QED BY <4>1, <4>2
    <3>4. CASE ~u.open
      <4>1. Becomes(r, Over(reserved, "stranded")) BY <3>1, <3>4
      <4> DEFINE v == Over(reserved, "stranded")
      <4>2. /\ Continues(u, v) /\ v.turn = u.turn + 1 /\ v.who = u.who /\ v.saw = Shown(u, rs)
            /\ v.at = "over" /\ v.end = "stranded" /\ v.row = Len(rs) + 1
        BY <1>2, <1>3
      <4>3. Said(r, u, Turn(r, begun, "pending", FALSE), "pending", FALSE, v.saw) BY <1>4, <4>2
      <4> HIDE DEF v
      <4>4. Begins(r, u, v, rs, rows') BY <1>5, <3>1, <3>2, <3>4, <4>2, <4>3 DEF Begins, Quiet, Loud
      <4> QED BY <4>1, <4>4 DEF v
    <3> QED BY <3>3, <3>4
  <2>2. CASE ~(exists /\ Resolves(u.who))
    <3>1. rows' = rs /\ Becomes(r, Over(begun, "dropped"))
      BY <1>5, <2>2 DEF Begin, begun, reserved
    <3>2. Begins(r, u, Over(begun, "dropped"), rs, rows') BY <1>1, <1>3, <1>5, <3>1 DEF Begins, Quiet, Loud
    <3> QED BY <3>1, <3>2
  <2> QED BY <2>1, <2>2
<1>6. CASE ~u.streams
  <2>1. CASE Resolves(u.who) /\ u.open
    <3>1. rows' = rs /\ Becomes(r, begun) BY <1>6, <2>1 DEF Begin, begun, reserved
    <3>2. Begins(r, u, begun, rs, rows') BY <1>1, <1>6, <3>1 DEF Begins, Quiet, Loud
    <3> QED BY <3>1, <3>2
  <2>2. CASE ~(Resolves(u.who) /\ u.open)
    <3>1. FailWhole(r, begun, rs) BY <1>6, <2>2 DEF Begin, begun, reserved
    <3>2. /\ Becomes(r, Over(begun, "failed"))
          /\ rows' = rs \/ (u.who \in agents /\ rows' = Append(rs, Turn(r, begun, "error", FALSE)))
      BY <3>1, <1>1 DEF FailWhole
    <3> DEFINE v == Over(begun, "failed")
    <3>3. /\ Continues(u, v) /\ v.turn = u.turn + 1 /\ v.who = u.who /\ v.saw = Shown(u, rs)
          /\ v.at = "over" /\ v.end = "failed"
      BY <1>1, <1>3
    <3>4. Said(r, u, Turn(r, begun, "error", FALSE), "error", FALSE, v.saw) BY <1>4, <3>3
    <3> HIDE DEF v
    <3>5. Begins(r, u, v, rs, rows') BY <1>6, <3>2, <3>3, <3>4 DEF Begins, Quiet, Loud
    <3> QED BY <3>2, <3>5 DEF v
  <2> QED BY <2>1, <2>2
<1> QED BY <1>5, <1>6

-----------------------------------------------------------------------------
(* The places of turns. *)

(* The turns of a prompt are finitely many, and so are those up to one. *)
LEMMA TurnsFinite ==
  ASSUME NEW r, NEW rs \in Seq(Row)
  PROVE  /\ IsFiniteSet(TurnsIn(r, rs)) /\ Cardinality(TurnsIn(r, rs)) \in Nat
         /\ \A n : Place(r, rs, n) \in Nat /\ Place(r, rs, n) <= Cardinality(TurnsIn(r, rs))
<1>1. IsFiniteSet(1..Len(rs)) BY FS_Interval
<1>2. TurnsIn(r, rs) \in SUBSET (1..Len(rs)) BY DEF TurnsIn
<1>3. IsFiniteSet(TurnsIn(r, rs)) BY <1>1, <1>2, FS_Subset
<1>4. Cardinality(TurnsIn(r, rs)) \in Nat BY <1>3, FS_CardinalityType
<1>5. ASSUME NEW n
      PROVE  Place(r, rs, n) \in Nat /\ Place(r, rs, n) <= Cardinality(TurnsIn(r, rs))
  <2>1. {m \in TurnsIn(r, rs) : m <= n} \in SUBSET TurnsIn(r, rs) OBVIOUS
  <2>2. /\ IsFiniteSet({m \in TurnsIn(r, rs) : m <= n})
        /\ Cardinality({m \in TurnsIn(r, rs) : m <= n}) <= Cardinality(TurnsIn(r, rs))
    BY <1>3, <2>1, FS_Subset
  <2> QED BY <2>2, FS_CardinalityType DEF Place
<1> QED BY <1>3, <1>4, <1>5

(* A message of another prompt changes no place; one of this prompt is its *)
(* last.                                                                   *)
LEMMA TurnsAppended ==
  ASSUME NEW r, NEW rs \in Seq(Row), NEW x \in Row
  PROVE  LET more == Append(rs, x) IN
         /\ TurnsIn(r, more) = TurnsIn(r, rs) \cup (IF x.run = r THEN {Len(rs) + 1} ELSE {})
         /\ Cardinality(TurnsIn(r, more)) = Cardinality(TurnsIn(r, rs)) + (IF x.run = r THEN 1 ELSE 0)
         /\ \A n \in TurnsIn(r, rs) : Place(r, more, n) = Place(r, rs, n) /\ more[n] = rs[n] /\ n <= Len(rs)
         /\ x.run = r => Place(r, more, Len(rs) + 1) = Cardinality(TurnsIn(r, rs)) + 1
<1> DEFINE more == Append(rs, x)
<1>1. /\ more \in Seq(Row) /\ DOMAIN more = DOMAIN rs \cup {Len(rs) + 1} /\ Len(rs) + 1 \notin DOMAIN rs
      /\ \A n \in DOMAIN rs : more[n] = rs[n] /\ n <= Len(rs) /\ n \in Nat
      /\ more[Len(rs) + 1] = x /\ Len(rs) \in Nat
  BY Appended
<1> HIDE DEF more
<1>2. TurnsIn(r, more) = TurnsIn(r, rs) \cup (IF x.run = r THEN {Len(rs) + 1} ELSE {})
  BY <1>1 DEF TurnsIn
<1>3. Len(rs) + 1 \notin TurnsIn(r, rs) BY <1>1 DEF TurnsIn
<1>4. IsFiniteSet(TurnsIn(r, rs)) BY TurnsFinite
<1>5. Cardinality(TurnsIn(r, rs) \cup {Len(rs) + 1}) = Cardinality(TurnsIn(r, rs)) + 1
  BY <1>3, <1>4, FS_AddElement
<1>6. Cardinality(TurnsIn(r, more)) = Cardinality(TurnsIn(r, rs)) + (IF x.run = r THEN 1 ELSE 0)
  <2>1. CASE x.run = r BY <1>2, <1>5, <2>1
  <2>2. CASE x.run # r
    <3>1. TurnsIn(r, more) = TurnsIn(r, rs) BY <1>2, <2>2
    <3> QED BY <2>2, <3>1, TurnsFinite
  <2> QED BY <2>1, <2>2
<1>7. ASSUME NEW n \in TurnsIn(r, rs)
      PROVE  Place(r, more, n) = Place(r, rs, n) /\ more[n] = rs[n] /\ n <= Len(rs)
  <2>1. n \in Nat /\ n <= Len(rs) /\ more[n] = rs[n] BY <1>1 DEF TurnsIn
  <2>2. {m \in TurnsIn(r, more) : m <= n} = {m \in TurnsIn(r, rs) : m <= n}
    BY <1>1, <1>2, <2>1
  <2> QED BY <2>1, <2>2 DEF Place
<1>8. ASSUME x.run = r PROVE Place(r, more, Len(rs) + 1) = Cardinality(TurnsIn(r, rs)) + 1
  <2>1. \A m \in TurnsIn(r, rs) : m <= Len(rs) + 1 BY <1>1 DEF TurnsIn
  <2>2. {m \in TurnsIn(r, more) : m <= Len(rs) + 1} = TurnsIn(r, rs) \cup {Len(rs) + 1}
    BY <1>1, <1>2, <1>8, <2>1
  <2> QED BY <1>5, <2>2 DEF Place
<1> QED BY <1>2, <1>6, <1>7, <1>8 DEF more

-----------------------------------------------------------------------------
(* From one turn to the next. *)

(* What the turns so far have seen. *)
Seen(r, u, rs) ==
  /\ u.upto <= Len(rs)
  /\ u.strategy = "broadcast" =>
       \A n \in TurnsIn(r, rs) : n > u.upto /\ \A k \in rs[n].saw : k <= u.upto
  /\ u.strategy # "broadcast" =>
       \A n, m \in TurnsIn(r, rs) : m < n /\ rs[m].said => m \in rs[n].saw

(* No turn is under way, and u.who is about to have one. *)
Ready(r, u, rs, us) ==
  /\ \A n \in TurnsIn(r, rs) : rs[n].status = "complete" /\ Charged(us, n)
  /\ u.end = "none" /\ u.who \in Agents
  /\ Cardinality(TurnsIn(r, rs)) = u.turn /\ u.turn + 1 <= Bound(u)
  /\ Distinct(u.members)
  /\ ByRoster(u) => u.turn + 1 \in DOMAIN u.members /\ u.who = u.members[u.turn + 1]
  /\ Spoken(r, u, rs)
  /\ \A m \in TurnsIn(r, rs) : Place(r, rs, m) = u.turn => rs[m].agent # u.who
  /\ Seen(r, u, rs)
  /\ ~u.open => u.strategy = "coordinator" \/ ~u.streams

(* However the turn begins, the messages of the prompt are accounted for. *)
LEMMA BeginOwn ==
  ASSUME NEW r \in Runs, NEW u \in Run, NEW v, NEW rs \in Seq(Row), NEW rs2, NEW us,
         Ready(r, u, rs, us), Begins(r, u, v, rs, rs2)
  PROVE  Own(r, v, rs2, us)
<1>1. CASE rs2 = rs /\ Quiet(u, v)
  BY <1>1 DEF Ready, Begins, Quiet, Own, Works, Broken, InFlight, Continues
<1>2. ASSUME NEW x, rs2 = Append(rs, x), Loud(r, u, v, rs, x) PROVE Own(r, v, rs2, us)
  <2>0. x \in Row /\ x.run = r /\ v \in Run BY <1>2 DEF Loud, Said, Begins, Continues
  <2>1. /\ TurnsIn(r, rs2) = TurnsIn(r, rs) \cup {Len(rs) + 1}
        /\ \A n \in TurnsIn(r, rs) : rs2[n] = rs[n] /\ n <= Len(rs) /\ n \in Nat
        /\ rs2[Len(rs) + 1] = x /\ Len(rs) \in Nat /\ Len(rs) + 1 \notin TurnsIn(r, rs)
    BY <1>2, <2>0, TurnsAppended, Appended DEF TurnsIn
  <2>2. LastIn(r, rs2, Len(rs) + 1) BY <2>1 DEF LastIn
  <2>3. \A n \in TurnsIn(r, rs) : rs2[n].status = "complete" /\ Charged(us, n)
    BY <2>1 DEF Ready
  <2>4. v.at # "idle" /\ (v.at # "over" => v.end = "none")
    BY <1>2 DEF Loud, Ready
  <2>5. Broken(v) BY <1>2 DEF Loud, Broken, Works, Begins, Continues
  <2>6. x.status \in InFlight =>
          v.row = Len(rs) + 1 /\ (Works(v) \/ (v.end = "stranded" /\ v.strategy = "coordinator"))
    BY <1>2 DEF Loud, Works, Begins, Continues, Said, Ready, InFlight
  <2>7. Works(v) => v.row = Len(rs) + 1 /\ x.status = (IF v.said THEN "streaming" ELSE "pending")
    BY <1>2 DEF Loud, Works, Said
  <2> HIDE DEF Ready
  <2> QED BY <2>1, <2>2, <2>3, <2>4, <2>5, <2>6, <2>7 DEF Own, InFlight
<1> QED BY <1>1, <1>2 DEF Begins

(* It has seen what it should. *)
LEMMA BeginSees ==
  ASSUME NEW r \in Runs, NEW u \in Run, NEW v, NEW rs \in Seq(Row), NEW rs2, NEW us,
         Ready(r, u, rs, us), Begins(r, u, v, rs, rs2)
  PROVE  Sees(r, v, rs2)
<1>1. /\ v.upto = u.upto /\ v.strategy = u.strategy /\ v.saw = Shown(u, rs)
      /\ u.upto \in Nat /\ Seen(r, u, rs)
  BY DEF Begins, Continues, Ready, Run
<1>2. u.strategy = "broadcast" => \A k \in Shown(u, rs) : k <= u.upto
  BY DEF Shown
<1>3. u.strategy # "broadcast" => \A m \in TurnsIn(r, rs) : rs[m].said => m \in Shown(u, rs)
  BY DEF Shown, Ready, TurnsIn
<1>4. CASE rs2 = rs
  BY <1>1, <1>2, <1>3, <1>4 DEF Sees, Seen
<1>5. ASSUME NEW x, rs2 = Append(rs, x), Loud(r, u, v, rs, x) PROVE Sees(r, v, rs2)
  <2>0. x \in Row /\ x.run = r /\ x.saw = Shown(u, rs) BY <1>1, <1>5 DEF Loud, Said
  <2>1. /\ TurnsIn(r, rs2) = TurnsIn(r, rs) \cup {Len(rs) + 1}
        /\ \A n \in TurnsIn(r, rs) : rs2[n] = rs[n] /\ n <= Len(rs) /\ n \in Nat
        /\ rs2[Len(rs) + 1] = x /\ Len(rs) \in Nat /\ Len(rs2) = Len(rs) + 1
    BY <1>5, <2>0, TurnsAppended, Appended DEF TurnsIn
  <2>2. ~Waits(v) BY <1>5 DEF Loud, Waits
  <2>3. ASSUME u.strategy = "broadcast", NEW n \in TurnsIn(r, rs2)
        PROVE  n > u.upto /\ \A k \in rs2[n].saw : k <= u.upto
    BY <1>1, <1>2, <2>0, <2>1, <2>3 DEF Seen
  <2>4. ASSUME u.strategy # "broadcast", NEW n \in TurnsIn(r, rs2), NEW m \in TurnsIn(r, rs2),
               m < n, rs2[m].said
        PROVE  m \in rs2[n].saw
    <3>1. m \in TurnsIn(r, rs) /\ rs[m].said BY <2>1, <2>4
    <3>2. CASE n \in TurnsIn(r, rs) BY <1>1, <2>1, <2>4, <3>1, <3>2 DEF Seen
    <3>3. CASE n = Len(rs) + 1 BY <1>3, <2>0, <2>1, <2>4, <3>1, <3>3
    <3> QED BY <2>1, <3>2, <3>3
  <2>5. u.upto <= Len(rs2) BY <1>1, <2>1 DEF Seen
  <2> QED BY <1>1, <2>2, <2>3, <2>4, <2>5 DEF Sees
<1> QED BY <1>4, <1>5 DEF Begins

(* It is the turn of who is to speak. *)
LEMMA BeginOrder ==
  ASSUME NEW r \in Runs, NEW u \in Run, NEW v, NEW rs \in Seq(Row), NEW rs2, NEW us,
         Ready(r, u, rs, us), Begins(r, u, v, rs, rs2)
  PROVE  Order(r, v, rs2)
<1>1. /\ v.members = u.members /\ v.strategy = u.strategy /\ v.limit = u.limit /\ v.who = u.who
      /\ v.turn = u.turn + 1 /\ u.turn \in Nat /\ v.streams = u.streams
      /\ Bound(v) = Bound(u) /\ ByRoster(v) = ByRoster(u)
  BY DEF Begins, Continues, Run, Bound, ByRoster
<1>2. /\ v.turn <= Bound(v) /\ Distinct(v.members) /\ v.who \in Agents
      /\ ByRoster(v) => v.turn \in DOMAIN v.members /\ v.who = v.members[v.turn]
  BY <1>1 DEF Ready
<1>3. Cardinality(TurnsIn(r, rs)) = u.turn BY DEF Ready
<1>4. \A m \in TurnsIn(r, rs) :
        Place(r, rs, m) \in Nat /\ Place(r, rs, m) <= u.turn
  BY <1>3, TurnsFinite
<1>5. CASE rs2 = rs /\ Quiet(u, v)
  <2>1. ~Works(v) /\ ~Turned(v) BY <1>1, <1>5 DEF Quiet, Works, Turned
  <2>2. Spoken(r, v, rs2) BY <1>1, <1>5 DEF Ready, Spoken
  <2>3. \A m \in TurnsIn(r, rs) : Place(r, rs, m) + 1 = v.turn => rs[m].agent # v.who
    BY <1>1, <1>4 DEF Ready
  <2> QED BY <1>1, <1>2, <1>3, <1>5, <2>1, <2>2, <2>3 DEF Order
<1>6. ASSUME NEW x, rs2 = Append(rs, x), Loud(r, u, v, rs, x) PROVE Order(r, v, rs2)
  <2>0. x \in Row /\ x.run = r /\ x.agent = u.who BY <1>6 DEF Loud, Said
  <2>1. /\ TurnsIn(r, rs2) = TurnsIn(r, rs) \cup {Len(rs) + 1}
        /\ Cardinality(TurnsIn(r, rs2)) = u.turn + 1
        /\ \A n \in TurnsIn(r, rs) : Place(r, rs2, n) = Place(r, rs, n) /\ rs2[n] = rs[n]
        /\ Place(r, rs2, Len(rs) + 1) = u.turn + 1
        /\ rs2[Len(rs) + 1] = x
    <3>1. /\ TurnsIn(r, rs2) = TurnsIn(r, rs) \cup {Len(rs) + 1}
          /\ Cardinality(TurnsIn(r, rs2)) = Cardinality(TurnsIn(r, rs)) + 1
          /\ \A n \in TurnsIn(r, rs) : Place(r, rs2, n) = Place(r, rs, n) /\ rs2[n] = rs[n]
          /\ Place(r, rs2, Len(rs) + 1) = Cardinality(TurnsIn(r, rs)) + 1
      BY ZenonT(60), <1>6, <2>0, TurnsAppended
    <3>2. rs2[Len(rs) + 1] = x BY <1>6, <2>0, Appended
    <3> QED BY <1>3, <3>1, <3>2
  <2>2. ~Waits(v) /\ ~Turned(v) BY <1>6 DEF Loud, Waits, Turned
  <2>3. Spoken(r, v, rs2)
    <3> SUFFICES ASSUME NEW n \in TurnsIn(r, rs2)
                 PROVE  /\ ByRoster(v) => rs2[n].agent \in {v.members[Place(r, rs2, n)], NoAgent}
                        /\ \A m \in TurnsIn(r, rs2) : Place(r, rs2, n) = Place(r, rs2, m) + 1 =>
                             rs2[n].agent # rs2[m].agent \/ rs2[n].agent = NoAgent
      BY DEF Spoken
    <3>1. CASE n \in TurnsIn(r, rs)
      <4>1. ByRoster(v) => rs2[n].agent \in {v.members[Place(r, rs2, n)], NoAgent}
        BY <1>1, <2>1, <3>1 DEF Ready, Spoken
      <4>2. ASSUME NEW m \in TurnsIn(r, rs2), Place(r, rs2, n) = Place(r, rs2, m) + 1
            PROVE  rs2[n].agent # rs2[m].agent \/ rs2[n].agent = NoAgent
        <5>1. m \in TurnsIn(r, rs) BY <1>1, <1>4, <2>1, <3>1, <4>2
        <5> QED BY <2>1, <3>1, <4>2, <5>1 DEF Ready, Spoken
      <4> QED BY <4>1, <4>2
    <3>2. CASE n = Len(rs) + 1
      <4>1. ByRoster(v) => rs2[n].agent \in {v.members[Place(r, rs2, n)], NoAgent}
        BY <1>1, <1>2, <2>0, <2>1, <3>2
      <4>2. ASSUME NEW m \in TurnsIn(r, rs2), Place(r, rs2, n) = Place(r, rs2, m) + 1
            PROVE  rs2[n].agent # rs2[m].agent
        <5>1. m \in TurnsIn(r, rs) BY <1>1, <2>1, <3>2, <4>2
        <5>2. Place(r, rs, m) = u.turn BY <1>1, <1>4, <2>1, <3>2, <4>2, <5>1
        <5>3. rs[m].agent # u.who BY <5>1, <5>2 DEF Ready
        <5> QED BY <2>0, <2>1, <3>2, <5>1, <5>3
      <4> QED BY <4>1, <4>2
    <3> QED BY <2>1, <3>1, <3>2
  <2>4. \A m \in TurnsIn(r, rs2) : Place(r, rs2, m) = v.turn => rs2[m].agent \in {v.who, NoAgent}
    BY <1>1, <1>4, <2>0, <2>1
  <2> QED BY <1>1, <1>2, <2>1, <2>2, <2>3, <2>4 DEF Order
<1> QED BY <1>5, <1>6 DEF Begins

(* The three parts together, and what a step of a prompt may add.          *)
Keeps(r, u, rs, us) == Own(r, u, rs, us) /\ Sees(r, u, rs) /\ Order(r, u, rs)
Grows(r, rs, rs2) ==
  rs2 = rs \/ \E x \in Row : x.run = r /\ x.agent \in agents /\ rs2 = Append(rs, x)

(* The turn of u.who begins, and the prompt is in order. *)
LEMMA BeginKeeps ==
  ASSUME TypeOK, NEW r \in Runs, NEW u \in Run, NEW rs \in Seq(Row), NEW us,
         Ready(r, u, rs, us), Begin(r, u, rs)
  PROVE  \E v \in Run : Becomes(r, v) /\ Keeps(r, v, rows', us) /\ Grows(r, rs, rows')
<1>1. PICK v : Becomes(r, v) /\ Begins(r, u, v, rs, rows') BY BeginBegins
<1>2. v \in Run BY <1>1 DEF Begins, Continues
<1>3. Keeps(r, v, rows', us) BY <1>1, BeginOwn, BeginSees, BeginOrder DEF Keeps
<1>4. Grows(r, rs, rows') BY <1>1 DEF Begins, Loud, Said, Grows
<1> QED BY <1>1, <1>2, <1>3, <1>4

(* A turn is over and stored, u.next is chosen, and nothing has followed. *)
Between(r, u, rs, us) ==
  /\ \A n \in TurnsIn(r, rs) : rs[n].status = "complete" /\ Charged(us, n)
  /\ u.end = "none" /\ u.who \in Agents
  /\ Cardinality(TurnsIn(r, rs)) = u.turn /\ u.turn <= Bound(u)
  /\ Distinct(u.members)
  /\ ByRoster(u) => u.turn \in DOMAIN u.members /\ u.who = u.members[u.turn]
  /\ Spoken(r, u, rs)
  /\ \A m \in TurnsIn(r, rs) : Place(r, rs, m) = u.turn => rs[m].agent \in {u.who, NoAgent}
  /\ u.next \in HandsOnTo(u)
  /\ Seen(r, u, rs)

(* Whoever is handed on to is another member, and there is a turn left. *)
LEMMA HandedOn ==
  ASSUME NEW u \in Run, u.next \in HandsOnTo(u), u.next # NoAgent, u.who \in Agents, Distinct(u.members),
         ByRoster(u) => u.turn \in DOMAIN u.members /\ u.who = u.members[u.turn]
  PROVE  /\ u.next \in Agents /\ u.next # u.who /\ u.turn + 1 <= Bound(u)
         /\ ByRoster(u) => u.turn + 1 \in DOMAIN u.members /\ u.next = u.members[u.turn + 1]
<1>1. u.next \in Agents BY DEF Run
<1>2. u.turn \in Nat /\ u.limit \in 1..10 BY TeamAssumption DEF Run
<1>3. CASE u.strategy \in {"sequential", "broadcast"}
  <2>1. u.next \in DownTheRoster(u)
    BY <1>3 DEF HandsOnTo, AfterSequential, AfterBroadcast
  <2>2. /\ u.turn + 1 \in DOMAIN u.members /\ u.next = u.members[u.turn + 1]
        /\ u.turn < u.limit
    BY <2>1 DEF DownTheRoster, TurnsLeft
  <2>3. u.next # u.who BY <1>2, <1>3, <2>2 DEF Distinct, ByRoster
  <2> QED BY <1>1, <1>2, <1>3, <2>2, <2>3 DEF Bound, ByRoster
<1>4. CASE u.strategy = "coordinator"
  <2>1. u.next \in Colleagues(u) /\ u.turn = 1 BY <1>4 DEF HandsOnTo, AfterCoordinator
  <2> QED BY <1>1, <1>4, <2>1 DEF Colleagues, Bound, ByRoster
<1>5. CASE u.strategy = "autonomous"
  <2>1. u.next \in Colleagues(u) /\ u.turn < u.limit
    BY <1>5 DEF HandsOnTo, AfterAutonomous, TurnsLeft
  <2> QED BY <1>1, <1>2, <1>5, <2>1 DEF Colleagues, Bound, ByRoster
<1> QED BY <1>3, <1>4, <1>5 DEF Run

(* A prompt that ends between two turns stays in order. *)
LEMMA EndKeeps ==
  ASSUME NEW r \in Runs, NEW u \in Run, NEW rs \in Seq(Row), NEW us, Between(r, u, rs, us),
         NEW e \in {"finished", "cut"}
  PROVE  Over(u, e) \in Run /\ Keeps(r, Over(u, e), rs, us)
<1> DEFINE v == Over(u, e)
<1>1. /\ v \in Run /\ v.at = "over" /\ v.end = e /\ v.turn = u.turn /\ v.members = u.members
      /\ v.strategy = u.strategy /\ v.limit = u.limit /\ v.upto = u.upto
  BY ZenonT(60) DEF Over, Run
<1> HIDE DEF v
<1>2. u.turn \in Nat BY DEF Run
<1>3. Own(r, v, rs, us) BY <1>1 DEF Own, Between, Works, InFlight
<1>4. Sees(r, v, rs) BY <1>1 DEF Sees, Seen, Between, Waits
<1>5. Order(r, v, rs)
  BY <1>1, <1>2 DEF Order, Spoken, Between, Works, Waits, Turned, Bound, ByRoster
<1> QED BY <1>1, <1>3, <1>4, <1>5 DEF Keeps, v

(* The team goes on, or stops. *)
LEMMA GoOnKeeps ==
  ASSUME TypeOK, NEW r \in Runs, NEW u \in Run, NEW rs \in Seq(Row), NEW us,
         Between(r, u, rs, us), GoOn(r, u, rs)
  PROVE  \E v \in Run : Becomes(r, v) /\ Keeps(r, v, rows', us) /\ Grows(r, rs, rows')
<1>1. CASE u.next = NoAgent
  <2>1. rows' = rs /\ Becomes(r, Over(u, "finished")) BY <1>1 DEF GoOn
  <2> QED BY <2>1, EndKeeps DEF Grows
<1>2. CASE u.next # NoAgent /\ ~u.open /\ u.strategy # "coordinator"
  <2>1. rows' = rs /\ Becomes(r, Over(u, "cut")) BY <1>2 DEF GoOn
  <2> QED BY <2>1, EndKeeps DEF Grows
<1>3. CASE u.next # NoAgent /\ (u.open \/ u.strategy = "coordinator")
  <2> DEFINE w == [u EXCEPT !.who = u.next]
  <2>1. Begin(r, w, rs) BY <1>3 DEF GoOn
  <2>2. /\ w \in Run /\ w.who = u.next /\ w.end = u.end /\ w.turn = u.turn /\ w.members = u.members
        /\ w.strategy = u.strategy /\ w.limit = u.limit /\ w.upto = u.upto /\ w.open = u.open
    BY DEF Run
  <2>3. /\ u.next \in Agents /\ u.next # u.who /\ u.turn + 1 <= Bound(u)
        /\ ByRoster(u) => u.turn + 1 \in DOMAIN u.members /\ u.next = u.members[u.turn + 1]
    BY <1>3, HandedOn DEF Between
  <2>4. Bound(w) = Bound(u) /\ (ByRoster(w) <=> ByRoster(u)) BY <2>2 DEF Bound, ByRoster
  <2> HIDE DEF w
  <2>5. Spoken(r, w, rs) /\ Seen(r, w, rs) BY <2>2, <2>4 DEF Spoken, Seen, Between
  <2>6. \A m \in TurnsIn(r, rs) : Place(r, rs, m) = w.turn => rs[m].agent # w.who
    BY <2>2, <2>3, TeamAssumption DEF Between
  <2>7. Ready(r, w, rs, us) BY <1>3, <2>2, <2>3, <2>4, <2>5, <2>6 DEF Ready, Between
  <2> QED BY <2>1, <2>2, <2>7, BeginKeeps
<1> QED BY <1>1, <1>2, <1>3

-----------------------------------------------------------------------------
(* Types. *)

(* The roster without an agent has its other members, each once. *)
LEMMA WithoutTyped ==
  ASSUME NEW a, roster \in Seq(agents), Distinct(roster)
  PROVE  Without(a) \in Seq(agents \ {a}) /\ Distinct(Without(a))
<1>1. CASE \A i \in DOMAIN roster : roster[i] # a
  <2>1. Without(a) = roster BY <1>1 DEF Without
  <2>2. \A i \in 1..Len(roster) : roster[i] \in agents \ {a} BY <1>1
  <2> QED BY <2>1, <2>2
<1>2. CASE \E i \in DOMAIN roster : roster[i] = a
  <2> DEFINE k == CHOOSE i \in DOMAIN roster : roster[i] = a
             rest == [i \in 1..(Len(roster) - 1) |-> roster[IF i < k THEN i ELSE i + 1]]
  <2>1. k \in DOMAIN roster /\ roster[k] = a BY <1>2
  <2>2. Without(a) = rest BY <1>2 DEF Without
  <2> HIDE DEF k
  <2>3. Len(roster) - 1 \in Nat /\ k \in 1..Len(roster) /\ Len(roster) \in Nat BY <2>1
  <2>4. ASSUME NEW i \in 1..(Len(roster) - 1)
        PROVE  rest[i] \in agents \ {a} /\ (IF i < k THEN i ELSE i + 1) \in (1..Len(roster)) \ {k}
    <3>1. (IF i < k THEN i ELSE i + 1) \in (1..Len(roster)) \ {k} BY <2>3
    <3>2. roster[IF i < k THEN i ELSE i + 1] # a BY <2>1, <3>1 DEF Distinct
    <3>3. roster[IF i < k THEN i ELSE i + 1] \in agents BY <3>1
    <3> QED BY <3>1, <3>2, <3>3
  <2>5. rest \in Seq(agents \ {a})
    <3>1. rest \in [1..(Len(roster) - 1) -> agents \ {a}] BY <2>4
    <3> HIDE DEF rest
    <3>2. \E n \in Nat : rest \in [1..n -> agents \ {a}] BY <2>3, <3>1
    <3> QED BY <3>2, SeqDef
  <2>6. Distinct(rest)
    <3> SUFFICES ASSUME NEW i \in 1..(Len(roster) - 1), NEW j \in 1..(Len(roster) - 1), rest[i] = rest[j]
                 PROVE  i = j
      BY DEF Distinct
    <3>1. /\ rest[i] = roster[IF i < k THEN i ELSE i + 1] /\ rest[j] = roster[IF j < k THEN j ELSE j + 1]
          /\ (IF i < k THEN i ELSE i + 1) \in DOMAIN roster /\ (IF j < k THEN j ELSE j + 1) \in DOMAIN roster
      BY <2>3, <2>4
    <3>2. (IF i < k THEN i ELSE i + 1) = (IF j < k THEN j ELSE j + 1) BY <3>1 DEF Distinct
    <3> QED BY <2>3, <3>2
  <2> QED BY <2>2, <2>5, <2>6
<1> QED BY <1>1, <1>2

(* Messages are typed by the agents that are there. *)
Typed(rs) == rs \in Seq(Row) /\ \A n \in DOMAIN rs : rs[n].agent \in agents \cup {NoAgent}

LEMMA GrowsTyped ==
  ASSUME NEW r, NEW rs, NEW rs2, Typed(rs), Grows(r, rs, rs2)
  PROVE  Typed(rs2)
BY DEF Grows, Typed

(* A turn that fails in one piece ends its prompt. *)
LEMMA FailWholeEffect ==
  ASSUME TypeOK, NEW r \in Runs, NEW u \in Run, NEW rs \in Seq(Row), FailWhole(r, u, rs)
  PROVE  /\ Over(u, "failed") \in Run /\ Becomes(r, Over(u, "failed"))
         /\ \/ rows' = rs
            \/ \E x \in Row : /\ Said(r, u, x, "error", FALSE, u.saw) /\ u.who \in agents
                              /\ rows' = Append(rs, x)
<1>1. Said(r, u, Turn(r, u, "error", FALSE), "error", FALSE, u.saw) BY DEF Said, Turn, Run, Row
<1> QED BY ZenonT(60), <1>1 DEF FailWhole, Over, Run, Said

LEMMA GoOnTyped ==
  ASSUME TypeOK, NEW r \in Runs, NEW u \in Run, NEW rs \in Seq(Row), GoOn(r, u, rs)
  PROVE  \E v \in Run : Becomes(r, v) /\ Grows(r, rs, rows')
<1>1. CASE rows' = rs /\ \E e \in {"finished", "cut"} : Becomes(r, Over(u, e))
  BY ZenonT(60), <1>1 DEF Grows, Over, Run
<1>2. CASE Begin(r, [u EXCEPT !.who = u.next], rs)
  <2>1. [u EXCEPT !.who = u.next] \in Run BY DEF Run
  <2>2. PICK v : Becomes(r, v) /\ Begins(r, [u EXCEPT !.who = u.next], v, rs, rows')
    BY <1>2, <2>1, BeginBegins
  <2> QED BY <2>2 DEF Begins, Continues, Loud, Said, Grows
<1> QED BY <1>1, <1>2 DEF GoOn

(* A function on the places of a sequence is a sequence as long. *)
LEMMA SameLength ==
  ASSUME NEW S, NEW T, NEW s \in Seq(S), NEW t, t = [n \in DOMAIN s |-> t[n]],
         \A n \in DOMAIN s : t[n] \in T
  PROVE  t \in Seq(T) /\ DOMAIN t = DOMAIN s /\ Len(t) = Len(s)
<1>1. DOMAIN s = 1..Len(s) /\ Len(s) \in Nat OBVIOUS
<1>2. t \in [1..Len(s) -> T] BY SMTT(40), <1>1
<1>3. \E n \in Nat : t \in [1..n -> T] BY <1>1, <1>2
<1>4. t \in Seq(T) BY <1>3, SeqDef
<1>5. DOMAIN t = 1..Len(s) BY <1>2
<1> QED BY <1>1, <1>4, <1>5, LenProperties

(* A message that is written keeps its prompt, its author and what it saw, *)
(* and the others are as they were.                                        *)
Rewrites(k, st, b, rs, rs2) ==
  /\ rs2 \in Seq(Row) /\ DOMAIN rs2 = DOMAIN rs /\ Len(rs2) = Len(rs)
  /\ \A n \in DOMAIN rs :
       /\ n # k => rs2[n] = rs[n]
       /\ rs2[n].run = rs[n].run /\ rs2[n].agent = rs[n].agent /\ rs2[n].saw = rs[n].saw
       /\ n = k => rs2[n].status = st /\ rs2[n].said = b

LEMMA Rewritten ==
  ASSUME NEW rs \in Seq(Row), NEW k, NEW st \in {"streaming", "complete", "error"}, NEW b \in BOOLEAN,
         NEW rs2, rs2 = [rs EXCEPT ![k] = [@ EXCEPT !.status = st, !.said = b]]
  PROVE  Rewrites(k, st, b, rs, rs2)
<1>1. /\ DOMAIN rs2 = DOMAIN rs
      /\ \A n \in DOMAIN rs : rs2[n] = IF n = k THEN [rs[n] EXCEPT !.status = st, !.said = b] ELSE rs[n]
  OBVIOUS
<1>2. ASSUME NEW x \in Row, NEW y, y = [x EXCEPT !.status = st, !.said = b]
      PROVE  /\ y \in Row /\ y.run = x.run /\ y.agent = x.agent /\ y.saw = x.saw
             /\ y.status = st /\ y.said = b
  BY <1>2 DEF Row
<1>3. ASSUME NEW n \in DOMAIN rs
      PROVE  /\ rs2[n] \in Row
             /\ n # k => rs2[n] = rs[n]
             /\ rs2[n].run = rs[n].run /\ rs2[n].agent = rs[n].agent /\ rs2[n].saw = rs[n].saw
             /\ n = k => rs2[n].status = st /\ rs2[n].said = b
  <2>1. rs[n] \in Row BY ElementOfSeq
  <2>2. CASE n = k
    <3>1. rs2[n] = [rs[n] EXCEPT !.status = st, !.said = b] BY <1>1, <2>2
    <3> QED BY ZenonT(60), <1>2, <2>1, <2>2, <3>1
  <2>3. CASE n # k BY <1>1, <2>1, <2>3
  <2> QED BY <2>2, <2>3
<1>4. rs2 = [n \in DOMAIN rs |-> rs2[n]] OBVIOUS
<1>5. \A n \in DOMAIN rs : rs2[n] \in Row BY <1>3
<1>6. rs2 \in Seq(Row) /\ Len(rs2) = Len(rs) BY ONLY <1>4, <1>5, rs \in Seq(Row), SameLength
<1> QED BY <1>1, <1>3, <1>6 DEF Rewrites

(* The message of a streamed turn is written, if it is there. *)
LEMMA FlushTyped ==
  ASSUME TypeOK, NEW r \in Runs, NEW st \in {"streaming", "complete", "error"}, NEW b \in BOOLEAN,
         rows' = IF exists THEN [rows EXCEPT ![run[r].row] = [@ EXCEPT !.status = st, !.said = b]]
                 ELSE rows
  PROVE  Typed(rows')
<1>1. CASE exists
  <2>1. Rewrites(run[r].row, st, b, rows, rows') BY ZenonT(60), <1>1, Rewritten DEF TypeOK
  <2> QED BY <2>1 DEF Rewrites, TypeOK, Typed
<1>2. CASE ~exists BY <1>2 DEF TypeOK, Typed
<1> QED BY <1>1, <1>2

(* A step of one prompt. *)
LEMMA StepTyped ==
  ASSUME TypeOK, NEW r \in Runs, NEW v \in Run, Becomes(r, v), Typed(rows'), usage' \in Seq(Nat),
         UNCHANGED <<exists, agents, chain, roster>>
  PROVE  TypeOK'
<1>1. run' \in [Runs -> Run] BY DEF TypeOK, Becomes
<1> QED BY <1>1 DEF TypeOK, Typed

(* A deleted agent leaves its messages without an author. *)
Orphans(a, rs, rs2) ==
  /\ rs2 \in Seq(Row) /\ DOMAIN rs2 = DOMAIN rs /\ Len(rs2) = Len(rs)
  /\ \A n \in DOMAIN rs :
       /\ rs2[n].run = rs[n].run /\ rs2[n].status = rs[n].status
       /\ rs2[n].said = rs[n].said /\ rs2[n].saw = rs[n].saw
       /\ rs2[n].agent = IF rs[n].agent = a THEN NoAgent ELSE rs[n].agent

LEMMA Orphaned ==
  ASSUME NEW a, NEW rs \in Seq(Row), NEW rs2,
         rs2 = [n \in DOMAIN rs |-> [rs[n] EXCEPT !.agent = IF @ = a THEN NoAgent ELSE @]]
  PROVE  Orphans(a, rs, rs2)
<1>1. ASSUME NEW x \in Row, NEW y, y = [x EXCEPT !.agent = IF @ = a THEN NoAgent ELSE @]
      PROVE  /\ y \in Row /\ y.run = x.run /\ y.status = x.status /\ y.said = x.said /\ y.saw = x.saw
             /\ y.agent = IF x.agent = a THEN NoAgent ELSE x.agent
  BY <1>1 DEF Row
<1>2. ASSUME NEW n \in DOMAIN rs
      PROVE  /\ rs2[n] \in Row /\ rs2[n].run = rs[n].run /\ rs2[n].status = rs[n].status
             /\ rs2[n].said = rs[n].said /\ rs2[n].saw = rs[n].saw
             /\ rs2[n].agent = IF rs[n].agent = a THEN NoAgent ELSE rs[n].agent
  <2>1. rs[n] \in Row BY ElementOfSeq
  <2>2. rs2[n] = [rs[n] EXCEPT !.agent = IF @ = a THEN NoAgent ELSE @] OBVIOUS
  <2> QED BY <1>1, <2>1, <2>2
<1>3. rs2 = [n \in DOMAIN rs |-> rs2[n]] OBVIOUS
<1>4. \A n \in DOMAIN rs : rs2[n] \in Row BY <1>2
<1>5. rs2 \in Seq(Row) /\ DOMAIN rs2 = DOMAIN rs /\ Len(rs2) = Len(rs)
  BY ONLY <1>3, <1>4, rs \in Seq(Row), SameLength
<1> QED BY <1>2, <1>5 DEF Orphans

(* The record of a prompt whose first turn is about to begin, and of one   *)
(* answered in one piece.                                                  *)
Fresh(strategy, limit, streams, lead) ==
  [Idle EXCEPT !.strategy = strategy, !.limit = limit, !.streams = streams,
               !.members = roster, !.upto = Len(rows), !.who = roster[lead]]
Answered(u, n, said, next) == [u EXCEPT !.row = n, !.said = said, !.next = next]

LEMMA FreshTyped ==
  ASSUME TypeOK, NEW strategy \in Strategies, NEW limit \in TurnLimits, NEW streams \in BOOLEAN,
         NEW lead \in DOMAIN roster
  PROVE  LET u == Fresh(strategy, limit, streams, lead) IN
         /\ u \in Run /\ u.at = "idle" /\ u.end = "none" /\ u.open /\ u.turn = 0
         /\ u.strategy = strategy /\ u.members = roster /\ u.upto = Len(rows) /\ u.who = roster[lead]
         /\ u.limit = limit
<1>1. /\ strategy \in {"sequential", "coordinator", "broadcast", "autonomous"}
      /\ roster[lead] \in Agents /\ roster \in Seq(Agents) /\ Len(rows) \in Nat
  BY TeamAssumption DEF TypeOK
<1>2. Idle \in Run /\ Idle.at = "idle" /\ Idle.end = "none" /\ Idle.open = TRUE /\ Idle.turn = 0
  BY IdleTyped DEF Idle
<1> HIDE DEF Idle
<1> QED BY ZenonT(60), <1>1, <1>2 DEF Fresh, Run

(* Whom a turn hands on to. *)
LEMMA HandsTyped ==
  ASSUME NEW u \in Run, NEW next \in HandsOnTo(u)
  PROVE  next \in Agents \cup {NoAgent}
<1>1. \A i \in DOMAIN u.members : u.members[i] \in Agents BY DEF Run
<1>2. DownTheRoster(u) \subseteq Agents /\ Colleagues(u) \subseteq Agents
  BY <1>1 DEF DownTheRoster, Colleagues
<1> QED BY <1>2 DEF HandsOnTo, AfterSequential, AfterBroadcast, AfterCoordinator, AfterAutonomous, Run

LEMMA AnsweredTyped ==
  ASSUME NEW u \in Run, NEW n \in Nat, NEW said \in BOOLEAN, NEW next \in HandsOnTo(u)
  PROVE  LET v == Answered(u, n, said, next) IN
         /\ v \in Run /\ v.row = n /\ v.said = said /\ v.next = next
         /\ v.at = u.at /\ v.end = u.end /\ v.turn = u.turn /\ v.who = u.who /\ Continues(u, v)
<1>1. next \in Agents \cup {NoAgent} BY HandsTyped
<1> QED BY <1>1 DEF Answered, Run, Continues

(* A turn that fails keeps the types. *)
LEMMA FailTyped ==
  ASSUME TypeOK, NEW r \in Runs, FailWhole(r, run[r], rows),
         UNCHANGED <<exists, agents, chain, roster, usage>>
  PROVE  TypeOK'
<1>1. run[r] \in Run /\ rows \in Seq(Row) /\ Typed(rows) BY DEF TypeOK, Typed
<1>2. /\ Over(run[r], "failed") \in Run /\ Becomes(r, Over(run[r], "failed"))
      /\ \/ rows' = rows
         \/ \E x \in Row : /\ Said(r, run[r], x, "error", FALSE, run[r].saw) /\ run[r].who \in agents
                           /\ rows' = Append(rows, x)
  BY <1>1, FailWholeEffect
<1>2b. Grows(r, rows, rows') BY <1>2 DEF Said, Grows
<1>3. Typed(rows') BY <1>1, <1>2b, GrowsTyped
<1>4. usage' \in Seq(Nat) BY DEF TypeOK
<1> QED BY <1>2, <1>3, <1>4, StepTyped

LEMMA TypeInit == Init => TypeOK /\ Distinct(roster)
<1> SUFFICES ASSUME Init PROVE TypeOK /\ Distinct(roster) OBVIOUS
<1>1. Cardinality(Agents) \in Nat BY TeamAssumption, FS_CardinalityType
<1>2. roster \in Seq(Agents)
  <2>1. roster \in [1..Cardinality(Agents) -> Agents] BY DEF Init
  <2>2. \E n \in Nat : roster \in [1..n -> Agents] BY <1>1, <2>1
  <2> QED BY <2>2, SeqDef
<1>3. Prompt \in Row BY DEF Prompt, Row
<1>4. rows \in Seq(Row) /\ \A n \in DOMAIN rows : rows[n].agent = NoAgent
  <2>1. rows = <<Prompt>> BY DEF Init
  <2>2. Prompt.agent = NoAgent BY DEF Prompt
  <2> HIDE DEF Prompt
  <2> QED BY <1>3, <2>1, <2>2
<1>5. run \in [Runs -> Run] BY IdleTyped DEF Init
<1> QED BY <1>2, <1>4, <1>5 DEF Init, TypeOK

LEMMA TypeNext == TypeOK /\ Distinct(roster) /\ [Next]_vars => TypeOK' /\ Distinct(roster)'
<1> SUFFICES ASSUME TypeOK, Distinct(roster), [Next]_vars PROVE TypeOK' /\ Distinct(roster)'
  OBVIOUS
<1>0. Typed(rows) BY DEF TypeOK, Typed
<1>1. CASE PostMessage
  <2>1. Prompt \in Row /\ Prompt.agent = NoAgent BY DEF Prompt, Row
  <2> HIDE DEF Prompt
  <2>2. Typed(rows') BY <1>0, <1>1, <2>1 DEF PostMessage, Typed
  <2> QED BY <1>1, <2>2 DEF PostMessage, TypeOK, Typed, Distinct
<1>2. CASE DeleteChat
  <2>1. rows' \in Seq(Row) /\ DOMAIN rows' = {} BY <1>2 DEF DeleteChat
  <2> QED BY <1>2, <2>1 DEF DeleteChat, TypeOK, Distinct
<1>3. ASSUME NEW a \in Fragile, AddMember(a) PROVE TypeOK' /\ Distinct(roster)'
  <2>1. roster \in Seq(agents) /\ a \in agents /\ \A i \in DOMAIN roster : roster[i] # a
    BY <1>3 DEF AddMember, TypeOK
  <2>2. roster' = Append(roster, a) BY <1>3 DEF AddMember
  <2>3. roster' \in Seq(agents) /\ Distinct(roster') BY <2>1, <2>2 DEF Distinct
  <2> QED BY <1>3, <2>3 DEF AddMember, TypeOK, Distinct
<1>4. ASSUME NEW a \in Fragile, RemoveMember(a) PROVE TypeOK' /\ Distinct(roster)'
  <2>1. roster' \in Seq(agents \ {a}) /\ Distinct(roster')
    BY <1>4, WithoutTyped DEF RemoveMember, TypeOK
  <2>2. roster' \in Seq(agents) BY <2>1
  <2> QED BY <1>4, <2>1, <2>2 DEF RemoveMember, TypeOK, Distinct
<1>5. ASSUME NEW a \in Fragile, DeleteAgent(a) PROVE TypeOK' /\ Distinct(roster)'
  <2>1. roster' \in Seq(agents \ {a}) /\ Distinct(roster')
    BY <1>5, WithoutTyped DEF DeleteAgent, TypeOK
  <2>2. Orphans(a, rows, rows') BY <1>5, Orphaned DEF DeleteAgent, TypeOK
  <2>3. rows' \in Seq(Row) /\ \A n \in DOMAIN rows' : rows'[n].agent \in (agents \ {a}) \cup {NoAgent}
    BY <2>2 DEF Orphans, TypeOK
  <2> QED BY <1>5, <2>1, <2>3 DEF DeleteAgent, TypeOK, Distinct
<1>6. ASSUME NEW a \in Fragile, BreakChain(a) PROVE TypeOK' /\ Distinct(roster)'
  BY <1>6 DEF BreakChain, TypeOK, Distinct
<1>7. ASSUME NEW r \in Runs, Answering(r) PROVE TypeOK' /\ Distinct(roster)'
  <2>0. UNCHANGED <<exists, agents, chain, roster>>
    BY <1>7 DEF Answering, StartTeam, ClientCloses, WholeReturns, WholeFails, Drained, Delta,
                TurnFinishes, TurnFails, TurnCut, StreamGoesOn
  <2>a. Distinct(roster)' BY <2>0 DEF Distinct
  <2>b. run[r] \in Run /\ usage \in Seq(Nat) /\ rows \in Seq(Row) BY DEF TypeOK
  <2>1. ASSUME NEW strategy \in Strategies, NEW limit \in TurnLimits, NEW streams \in BOOLEAN,
               StartTeam(r, strategy, limit, streams)
        PROVE  TypeOK'
    <3>1. PICK lead \in DOMAIN roster : Begin(r, Fresh(strategy, limit, streams, lead), rows)
      BY <2>1 DEF StartTeam, Fresh
    <3>2. Fresh(strategy, limit, streams, lead) \in Run BY FreshTyped
    <3>3. PICK v : Becomes(r, v) /\ Begins(r, Fresh(strategy, limit, streams, lead), v, rows, rows')
      BY <2>b, <3>1, <3>2, BeginBegins
    <3>4. v \in Run /\ Grows(r, rows, rows') BY <3>3 DEF Begins, Continues, Loud, Said, Grows
    <3>5. usage' = usage BY <2>1 DEF StartTeam
    <3> QED BY <1>0, <2>0, <2>b, <3>3, <3>4, <3>5, GrowsTyped, StepTyped
  <2>2. CASE ClientCloses(r)
    <3>1. [run[r] EXCEPT !.open = FALSE] \in Run BY <2>b DEF Run
    <3>2. Becomes(r, [run[r] EXCEPT !.open = FALSE]) BY <2>2 DEF ClientCloses, Becomes, TypeOK
    <3> QED BY <1>0, <2>0, <2>2, <2>b, <3>1, <3>2, StepTyped DEF ClientCloses
  <2>3. CASE WholeReturns(r)
    <3>1. PICK said \in BOOLEAN : Persist(r, said) BY <2>3 DEF WholeReturns
    <3>2. CASE CanCharge(run[r].who)
      <4>1. PICK next \in HandsOnTo(run[r]) :
              /\ usage' = Append(usage, Len(rows) + 1)
              /\ GoOn(r, Answered(run[r], Len(rows) + 1, said, next),
                      Append(rows, Turn(r, run[r], "complete", said)))
        BY <3>1, <3>2 DEF Persist, Answered
      <4>2. Answered(run[r], Len(rows) + 1, said, next) \in Run BY <2>b, AnsweredTyped
      <4>3. Said(r, run[r], Turn(r, run[r], "complete", said), "complete", said, run[r].saw)
        BY <2>b DEF Said, Turn, Run, Row
      <4>4. run[r].who \in agents BY <3>2 DEF CanCharge
      <4> DEFINE x == Turn(r, run[r], "complete", said)
      <4>5. x \in Row /\ x.run = r /\ x.agent \in agents BY <4>3, <4>4 DEF Said
      <4> HIDE DEF x
      <4>6. Append(rows, x) \in Seq(Row) /\ Typed(Append(rows, x))
        <5>1. Grows(r, rows, Append(rows, x)) BY <4>5 DEF Grows
        <5> QED BY <1>0, <2>b, <4>5, <5>1, GrowsTyped
      <4>7. PICK v \in Run : Becomes(r, v) /\ Grows(r, Append(rows, x), rows')
        BY <4>1, <4>2, <4>6, GoOnTyped DEF x
      <4>8. usage' \in Seq(Nat) BY <2>b, <4>1
      <4> QED BY <2>0, <4>6, <4>7, <4>8, GrowsTyped, StepTyped
    <3>3. CASE ~CanCharge(run[r].who)
      BY <1>0, <2>0, <2>b, <3>1, <3>3, FailTyped DEF Persist
    <3> QED BY <3>2, <3>3
  <2>4. CASE WholeFails(r) BY <1>0, <2>0, <2>4, <2>b, FailTyped DEF WholeFails
  <2>5. CASE Drained(r)
    <3>1. [run[r] EXCEPT !.at = "provider"] \in Run BY <2>b DEF Run
    <3> QED BY <1>0, <2>0, <2>5, <2>b, <3>1, StepTyped DEF Drained
  <2>6. CASE Delta(r)
    <3>1. [run[r] EXCEPT !.said = TRUE, !.at = "yielded"] \in Run BY <2>b DEF Run
    <3>2. Typed(rows') BY <2>6, FlushTyped DEF Delta
    <3> QED BY <2>0, <2>6, <2>b, <3>1, <3>2, StepTyped DEF Delta
  <2>7. CASE TurnFinishes(r)
    <3>1. Typed(rows') BY <2>7, <2>b, FlushTyped DEF TurnFinishes, Flush, Run
    <3>2. ASSUME NEW next \in HandsOnTo(run[r])
          PROVE  [run[r] EXCEPT !.at = "turned", !.next = next] \in Run
      BY <2>b, <3>2, HandsTyped DEF Run
    <3>3. Over(run[r], "dropped") \in Run BY ZenonT(60), <2>b DEF Over, Run
    <3>4. Append(usage, run[r].row) \in Seq(Nat) BY <2>b DEF Run
    <3> QED BY <2>0, <2>7, <2>b, <3>1, <3>2, <3>3, <3>4, StepTyped DEF TurnFinishes
  <2>8. CASE TurnFails(r)
    <3>1. Typed(rows') BY <2>8, <2>b, FlushTyped DEF TurnFails, Flush, Run
    <3>2. Over(run[r], "failed") \in Run BY <2>b DEF Over, Run
    <3> QED BY <2>0, <2>8, <2>b, <3>1, <3>2, StepTyped DEF TurnFails
  <2>9. CASE TurnCut(r)
    <3>1. Typed(rows') BY <2>9, <2>b, FlushTyped DEF TurnCut, Flush, Run
    <3>2. Over(run[r], "cut") \in Run BY <2>b DEF Over, Run
    <3> QED BY <2>0, <2>9, <2>b, <3>1, <3>2, StepTyped DEF TurnCut
  <2>10. CASE StreamGoesOn(r)
    <3>1. PICK v \in Run : Becomes(r, v) /\ Grows(r, rows, rows')
      BY <2>10, <2>b, GoOnTyped DEF StreamGoesOn
    <3> QED BY <1>0, <2>0, <2>10, <2>b, <3>1, GrowsTyped, StepTyped DEF StreamGoesOn
  <2> QED BY <1>7, <2>a, <2>1, <2>2, <2>3, <2>4, <2>5, <2>6, <2>7, <2>8, <2>9, <2>10 DEF Answering
<1>8. CASE UNCHANGED vars BY <1>8 DEF vars, TypeOK, Distinct
<1> QED BY <1>1, <1>2, <1>3, <1>4, <1>5, <1>6, <1>7, <1>8 DEF Next

(* The rows and the requests stay within their types (drizzle schema of    *)
(* messages, team_members and usage_events; TeamRunState), and an agent is *)
(* on the roster once at most.                                             *)
THEOREM TypeInvariant == Spec => []TypeOK
<1>1. Spec => [](TypeOK /\ Distinct(roster)) BY TypeInit, TypeNext, PTL DEF Spec
<1> QED BY <1>1, PTL

-----------------------------------------------------------------------------
(* What a step leaves alone. *)

(* The messages of prompt s are where they were, though their authors may  *)
(* be gone, and what was charged still is.                                 *)
Same(s, rs, us, rs2, us2) ==
  /\ Len(rs) <= Len(rs2)
  /\ TurnsIn(s, rs2) = TurnsIn(s, rs)
  /\ \A n \in TurnsIn(s, rs) :
       /\ rs2[n].status = rs[n].status /\ rs2[n].said = rs[n].said /\ rs2[n].saw = rs[n].saw
       /\ rs2[n].agent \in {rs[n].agent, NoAgent}
       /\ Charged(us, n) => Charged(us2, n)

(* Then the prompt is in order as it was. *)
LEMMA SameKeeps ==
  ASSUME NEW s \in Runs, NEW u \in Run, NEW rs \in Seq(Row), NEW us, NEW rs2 \in Seq(Row), NEW us2,
         Keeps(s, u, rs, us), Same(s, rs, us, rs2, us2)
  PROVE  Keeps(s, u, rs2, us2)
<1>1. /\ TurnsIn(s, rs2) = TurnsIn(s, rs)
      /\ \A n : Place(s, rs2, n) = Place(s, rs, n)
      /\ \A n : LastIn(s, rs2, n) <=> LastIn(s, rs, n)
  BY DEF Same, Place, LastIn
<1>2. Own(s, u, rs2, us2) BY <1>1 DEF Keeps, Own, Same
<1>3. Sees(s, u, rs2)
  <2>1. u.upto <= Len(rs2) BY DEF Keeps, Sees, Same, Run
  <2> QED BY <1>1, <2>1 DEF Keeps, Sees, Same
<1>4. Order(s, u, rs2)
  <2>1. Spoken(s, u, rs2)
    <3> SUFFICES ASSUME NEW n \in TurnsIn(s, rs)
                 PROVE  /\ ByRoster(u) => rs2[n].agent \in {u.members[Place(s, rs, n)], NoAgent}
                        /\ \A m \in TurnsIn(s, rs) : Place(s, rs, n) = Place(s, rs, m) + 1 =>
                             rs2[n].agent # rs2[m].agent \/ rs2[n].agent = NoAgent
      BY <1>1 DEF Spoken
    <3>1. Spoken(s, u, rs) BY DEF Keeps, Order
    <3> QED BY <3>1 DEF Spoken, Same
  <2>2. Works(u) \/ Turned(u) =>
          \A m \in TurnsIn(s, rs2) : Place(s, rs2, m) = u.turn => rs2[m].agent \in {u.who, NoAgent}
    BY <1>1 DEF Keeps, Order, Same
  <2>3. Waits(u) =>
          \A m \in TurnsIn(s, rs2) : Place(s, rs2, m) + 1 = u.turn => rs2[m].agent # u.who
    <3>1. Waits(u) => u.who # NoAgent BY TeamAssumption DEF Keeps, Order, Waits
    <3> QED BY <1>1, <3>1 DEF Keeps, Order, Same
  <2> QED BY <1>1, <2>1, <2>2, <2>3 DEF Keeps, Order
<1> QED BY <1>2, <1>3, <1>4 DEF Keeps

(* Messages of others are added. *)
LEMMA AppendSame ==
  ASSUME NEW s, NEW rs \in Seq(Row), NEW us, NEW x \in Row, x.run # s
  PROVE  Same(s, rs, us, Append(rs, x), us)
<1> DEFINE more == Append(rs, x)
<1>1. /\ DOMAIN more = DOMAIN rs \cup {Len(rs) + 1} /\ Len(rs) + 1 \notin DOMAIN rs
      /\ \A n \in DOMAIN rs : more[n] = rs[n]
      /\ more[Len(rs) + 1] = x /\ Len(rs) \in Nat /\ Len(more) = Len(rs) + 1
  BY Appended
<1> HIDE DEF more
<1>2. TurnsIn(s, more) = TurnsIn(s, rs) /\ \A n \in TurnsIn(s, rs) : more[n] = rs[n]
  BY <1>1 DEF TurnsIn
<1>3. Len(rs) <= Len(more) BY <1>1
<1>4. Same(s, rs, us, more, us) BY <1>2, <1>3 DEF Same
<1> QED BY <1>4 DEF more

LEMMA GrowsSame ==
  ASSUME NEW r, NEW s, s # r, NEW rs \in Seq(Row), NEW us, NEW rs2, Grows(r, rs, rs2)
  PROVE  Same(s, rs, us, rs2, us)
<1>1. CASE rs2 = rs BY <1>1 DEF Same
<1>2. ASSUME NEW x \in Row, x.run = r, rs2 = Append(rs, x) PROVE Same(s, rs, us, rs2, us)
  BY <1>2, AppendSame
<1> QED BY <1>1, <1>2 DEF Grows

(* A message of another prompt is written. *)
LEMMA RewriteSame ==
  ASSUME NEW r, NEW s, s # r, NEW rs \in Seq(Row), NEW us, NEW k \in TurnsIn(r, rs), NEW st, NEW b, NEW rs2,
         Rewrites(k, st, b, rs, rs2)
  PROVE  Same(s, rs, us, rs2, us)
<1>1. TurnsIn(s, rs2) = TurnsIn(s, rs) BY DEF Rewrites, TurnsIn
<1>2. \A n \in TurnsIn(s, rs) : n \in DOMAIN rs /\ n # k BY DEF TurnsIn
<1> QED BY <1>1, <1>2 DEF Rewrites, Same

LEMMA OrphansSame ==
  ASSUME NEW a, NEW s, NEW rs \in Seq(Row), NEW us, NEW rs2, Orphans(a, rs, rs2)
  PROVE  Same(s, rs, us, rs2, us)
<1>1. TurnsIn(s, rs2) = TurnsIn(s, rs) BY DEF Orphans, TurnsIn
<1>2. \A n \in TurnsIn(s, rs) : n \in DOMAIN rs BY DEF TurnsIn
<1> QED BY <1>1, <1>2 DEF Orphans, Same

(* One step after another. *)
LEMMA SameTwice ==
  ASSUME NEW s, NEW rs \in Seq(Row), NEW us, NEW rs2 \in Seq(Row), NEW us2, NEW rs3 \in Seq(Row), NEW us3,
         Same(s, rs, us, rs2, us2), Same(s, rs2, us2, rs3, us3)
  PROVE  Same(s, rs, us, rs3, us3)
BY DEF Same

(* A charge more. *)
LEMMA ChargedMore ==
  ASSUME NEW us \in Seq(Nat), NEW k \in Nat
  PROVE  \A n : Charged(us, n) => Charged(Append(us, k), n)
BY DEF Charged

LEMMA ChargeSame ==
  ASSUME NEW s, NEW rs \in Seq(Row), NEW us \in Seq(Nat), NEW rs2, NEW k \in Nat, Same(s, rs, us, rs2, us)
  PROVE  Same(s, rs, us, rs2, Append(us, k))
<1>1. \A n : Charged(us, n) => Charged(Append(us, k), n) BY ChargedMore
<1> QED BY <1>1 DEF Same

-----------------------------------------------------------------------------
(* The charges. *)

LEMMA LedgerGrows ==
  ASSUME NEW r, NEW rs \in Seq(Row), NEW us, NEW rs2, Ledger(rs, us), Grows(r, rs, rs2)
  PROVE  Ledger(rs2, us)
<1>1. CASE rs2 = rs BY <1>1
<1>2. ASSUME NEW x \in Row, rs2 = Append(rs, x) PROVE Ledger(rs2, us)
  BY <1>2, Appended DEF Ledger
<1> QED BY <1>1, <1>2 DEF Grows

LEMMA LedgerOrphans ==
  ASSUME NEW a, NEW rs \in Seq(Row), NEW us, NEW rs2, Ledger(rs, us), Orphans(a, rs, rs2)
  PROVE  Ledger(rs2, us)
BY DEF Ledger, Orphans

LEMMA LedgerRewrites ==
  ASSUME NEW k, NEW rs \in Seq(Row), NEW us, NEW st, NEW b, NEW rs2,
         Ledger(rs, us), rs[k].status # "complete", Rewrites(k, st, b, rs, rs2)
  PROVE  Ledger(rs2, us) /\ ~Charged(us, k)
BY DEF Ledger, Rewrites, Charged

LEMMA LedgerCharges ==
  ASSUME NEW k \in Nat, NEW rs \in Seq(Row), NEW us \in Seq(Nat),
         Ledger(rs, us), ~Charged(us, k), k \in DOMAIN rs, rs[k].status = "complete"
  PROVE  Ledger(rs, Append(us, k)) /\ Charged(Append(us, k), k)
<1>1. /\ DOMAIN Append(us, k) = DOMAIN us \cup {Len(us) + 1} /\ Append(us, k)[Len(us) + 1] = k
      /\ \A i \in DOMAIN us : Append(us, k)[i] = us[i]
  OBVIOUS
<1>2. \A i, j \in DOMAIN Append(us, k) : Append(us, k)[i] = Append(us, k)[j] => i = j
  BY <1>1 DEF Ledger, Charged
<1>3. \A i \in DOMAIN Append(us, k) :
        Append(us, k)[i] \in DOMAIN rs /\ rs[Append(us, k)[i]].status = "complete"
  BY <1>1 DEF Ledger
<1>4. Charged(Append(us, k), k) BY <1>1 DEF Charged
<1> QED BY <1>2, <1>3, <1>4 DEF Ledger

-----------------------------------------------------------------------------
(* The steps of one prompt. *)

(* The first turn: nobody has spoken yet. *)
LEMMA FirstReady ==
  ASSUME TypeOK, Distinct(roster), NEW r \in Runs, TurnsIn(r, rows) = {},
         NEW strategy \in Strategies, NEW limit \in TurnLimits, NEW streams \in BOOLEAN,
         NEW lead \in DOMAIN roster, strategy \in {"sequential", "broadcast"} => lead = 1
  PROVE  Ready(r, Fresh(strategy, limit, streams, lead), rows, usage)
<1> DEFINE u == Fresh(strategy, limit, streams, lead)
<1>1. /\ u \in Run /\ u.at = "idle" /\ u.end = "none" /\ u.open /\ u.turn = 0
      /\ u.strategy = strategy /\ u.members = roster /\ u.upto = Len(rows) /\ u.who = roster[lead]
      /\ u.limit = limit
  BY FreshTyped
<1> HIDE DEF u
<1>2. limit \in 1..10 /\ Len(rows) \in Nat /\ roster[lead] \in Agents BY TeamAssumption DEF TypeOK
<1>3. u.turn + 1 = 1 /\ 1 <= Bound(u) BY <1>1, <1>2 DEF Bound
<1>4. Cardinality(TurnsIn(r, rows)) = u.turn BY <1>1, FS_EmptySet
<1>5. ByRoster(u) => u.turn + 1 \in DOMAIN u.members /\ u.who = u.members[u.turn + 1]
  BY <1>1, <1>3 DEF ByRoster
<1>6. Seen(r, u, rows) BY <1>1, <1>2 DEF Seen
<1> QED BY <1>1, <1>2, <1>3, <1>4, <1>5, <1>6 DEF Ready, Spoken, u

(* A turn in one piece leaves a message x, the last of its prompt, after   *)
(* complete ones.                                                          *)
Stored(r, u, rs, us, x, rs2) ==
  /\ rs2 \in Seq(Row)
  /\ TurnsIn(r, rs2) = TurnsIn(r, rs) \cup {Len(rs) + 1}
  /\ LastIn(r, rs2, Len(rs) + 1)
  /\ rs2[Len(rs) + 1] = x
  /\ \A n \in TurnsIn(r, rs) : rs2[n] = rs[n] /\ rs[n].status = "complete" /\ Charged(us, n)
  /\ Cardinality(TurnsIn(r, rs2)) = u.turn
  /\ Spoken(r, u, rs2) /\ Seen(r, u, rs2)
  /\ \A m \in TurnsIn(r, rs2) : Place(r, rs2, m) = u.turn => rs2[m].agent = u.who

LEMMA TurnStored ==
  ASSUME NEW r \in Runs, NEW u \in Run, NEW rs \in Seq(Row), NEW us, Keeps(r, u, rs, us), Waits(u),
         NEW x \in Row, x.run = r, x.agent = u.who, x.saw = u.saw, NEW rs2, rs2 = Append(rs, x)
  PROVE  Stored(r, u, rs, us, x, rs2)
<1>1. x \in Row /\ x.run = r /\ x.agent = u.who /\ x.saw = u.saw OBVIOUS
<1>2. /\ rs2 \in Seq(Row) /\ rs2[Len(rs) + 1] = x /\ Len(rs2) = Len(rs) + 1 /\ Len(rs) \in Nat
      /\ \A n \in DOMAIN rs : n <= Len(rs) /\ n \in Nat
  BY <1>1, Appended
<1>3. /\ TurnsIn(r, rs2) = TurnsIn(r, rs) \cup {Len(rs) + 1}
      /\ Cardinality(TurnsIn(r, rs2)) = Cardinality(TurnsIn(r, rs)) + 1
      /\ \A n \in TurnsIn(r, rs) : Place(r, rs2, n) = Place(r, rs, n) /\ rs2[n] = rs[n] /\ n <= Len(rs)
      /\ Place(r, rs2, Len(rs) + 1) = Cardinality(TurnsIn(r, rs)) + 1
  BY ONLY ZenonT(60), x \in Row, x.run = r, rs \in Seq(Row), rs2 = Append(rs, x), TurnsAppended
<1>4. u.turn \in Nat /\ u.upto \in Nat BY DEF Run
<1>5. Cardinality(TurnsIn(r, rs)) + 1 = u.turn BY DEF Keeps, Order
<1>6. \A m \in TurnsIn(r, rs) : Place(r, rs, m) \in Nat /\ Place(r, rs, m) < u.turn
  BY <1>4, <1>5, TurnsFinite
<1>7. LastIn(r, rs2, Len(rs) + 1) BY <1>2, <1>3 DEF LastIn, TurnsIn
<1>8. \A n \in TurnsIn(r, rs) : rs[n].status = "complete" /\ Charged(us, n)
  BY DEF Keeps, Own, Waits, Broken, Works
<1>9. Spoken(r, u, rs2)
  <2> SUFFICES ASSUME NEW n \in TurnsIn(r, rs2)
               PROVE  /\ ByRoster(u) => rs2[n].agent \in {u.members[Place(r, rs2, n)], NoAgent}
                      /\ \A m \in TurnsIn(r, rs2) : Place(r, rs2, n) = Place(r, rs2, m) + 1 =>
                           rs2[n].agent # rs2[m].agent \/ rs2[n].agent = NoAgent
    BY DEF Spoken
  <2>1. Spoken(r, u, rs) BY DEF Keeps, Order
  <2>2. CASE n \in TurnsIn(r, rs)
    <3>1. ASSUME NEW m \in TurnsIn(r, rs2), Place(r, rs2, n) = Place(r, rs2, m) + 1
          PROVE  m \in TurnsIn(r, rs)
      BY <1>3, <1>4, <1>5, <1>6, <2>2, <3>1
    <3> QED BY ZenonT(60), <1>3, <2>1, <2>2, <3>1 DEF Spoken
  <2>3. CASE n = Len(rs) + 1
    <3>1. ByRoster(u) => u.who = u.members[u.turn] BY DEF Keeps, Order, Waits
    <3>2. ASSUME NEW m \in TurnsIn(r, rs2), Place(r, rs2, n) = Place(r, rs2, m) + 1
          PROVE  rs2[n].agent # rs2[m].agent
      <4>1. Place(r, rs2, m) + 1 = u.turn /\ m \in TurnsIn(r, rs)
        BY <1>3, <1>4, <1>5, <2>3, <3>2
      <4>2. rs[m].agent # u.who BY <1>3, <4>1 DEF Keeps, Order
      <4> QED BY <1>1, <1>2, <1>3, <2>3, <4>1, <4>2
    <3> QED BY <1>1, <1>2, <1>3, <1>5, <2>3, <3>1, <3>2
  <2> QED BY <1>3, <2>2, <2>3
<1>10. Seen(r, u, rs2)
  <2>1. u.upto <= Len(rs2) BY <1>2, <1>4 DEF Keeps, Sees
  <2>2. ASSUME u.strategy = "broadcast", NEW n \in TurnsIn(r, rs2)
        PROVE  n > u.upto /\ \A k \in rs2[n].saw : k <= u.upto
    <3>1. CASE n \in TurnsIn(r, rs) BY <1>3, <2>2, <3>1 DEF Keeps, Sees
    <3>2. CASE n = Len(rs) + 1 BY <1>1, <1>2, <1>4, <2>2, <3>2 DEF Keeps, Sees
    <3> QED BY <1>3, <3>1, <3>2
  <2>3. ASSUME u.strategy # "broadcast", NEW n \in TurnsIn(r, rs2), NEW m \in TurnsIn(r, rs2),
               m < n, rs2[m].said
        PROVE  m \in rs2[n].saw
    <3>0. \A i \in TurnsIn(r, rs2) : i \in Nat /\ i <= Len(rs) + 1 BY <1>2, <1>3 DEF TurnsIn
    <3>a. m \in Nat /\ n \in Nat /\ m < n /\ n <= Len(rs) + 1 BY <2>3, <3>0
    <3>b. m # Len(rs) + 1 BY <1>2, <3>a
    <3>c. m \in TurnsIn(r, rs) BY <1>3, <3>b
    <3>1. m \in TurnsIn(r, rs) /\ rs[m].said BY <1>3, <2>3, <3>c
    <3>2. CASE n \in TurnsIn(r, rs) BY <1>3, <2>3, <3>1, <3>2 DEF Keeps, Sees
    <3>3. CASE n = Len(rs) + 1 BY <1>1, <1>2, <2>3, <3>1, <3>3 DEF Keeps, Sees
    <3> QED BY <1>3, <3>2, <3>3
  <2> QED BY <2>1, <2>2, <2>3 DEF Seen
<1>11. \A m \in TurnsIn(r, rs2) : Place(r, rs2, m) = u.turn => rs2[m].agent = u.who
  BY <1>1, <1>2, <1>3, <1>4, <1>6
<1> QED BY <1>2, <1>3, <1>5, <1>7, <1>8, <1>9, <1>10, <1>11 DEF Stored

(* It is complete and charged: the team is between two turns. *)
LEMMA ReplyBetween ==
  ASSUME NEW r \in Runs, NEW u \in Run, NEW rs \in Seq(Row), NEW us \in Seq(Nat), Keeps(r, u, rs, us), Waits(u),
         NEW x, NEW said, Said(r, u, x, "complete", said, u.saw), NEW v \in Run, NEW next \in HandsOnTo(u),
         v.next = next, v.end = u.end, v.turn = u.turn, v.who = u.who, Continues(u, v),
         NEW rs2, rs2 = Append(rs, x), NEW us2, us2 = Append(us, Len(rs) + 1)
  PROVE  Between(r, v, rs2, us2)
<1>1. /\ TurnsIn(r, rs2) = TurnsIn(r, rs) \cup {Len(rs) + 1}
      /\ rs2[Len(rs) + 1] = x
      /\ \A n \in TurnsIn(r, rs) : rs2[n] = rs[n] /\ rs[n].status = "complete" /\ Charged(us, n)
      /\ Cardinality(TurnsIn(r, rs2)) = u.turn
      /\ Spoken(r, u, rs2) /\ Seen(r, u, rs2)
      /\ \A m \in TurnsIn(r, rs2) : Place(r, rs2, m) = u.turn => rs2[m].agent = u.who
  <2>1. x \in Row /\ x.run = r /\ x.agent = u.who /\ x.saw = u.saw BY DEF Said
  <2>2. Stored(r, u, rs, us, x, rs2) BY <2>1, TurnStored
  <2> QED BY <2>2 DEF Stored
<1>2. (\A n : Charged(us, n) => Charged(us2, n)) /\ Charged(us2, Len(rs) + 1)
  <2>1. Len(rs) + 1 \in Nat OBVIOUS
  <2>2. /\ DOMAIN us2 = DOMAIN us \cup {Len(us) + 1} /\ us2[Len(us) + 1] = Len(rs) + 1
        /\ \A i \in DOMAIN us : us2[i] = us[i]
    BY <2>1
  <2> QED BY <2>2 DEF Charged
<1>3. x.status = "complete" BY DEF Said
<1>4. /\ v.strategy = u.strategy /\ v.members = u.members /\ v.limit = u.limit /\ v.upto = u.upto
      /\ Bound(v) = Bound(u) /\ (ByRoster(v) <=> ByRoster(u))
  BY DEF Continues, Bound, ByRoster
<1>5. HandsOnTo(v) = HandsOnTo(u)
  BY <1>4 DEF HandsOnTo, AfterSequential, AfterBroadcast, AfterCoordinator, AfterAutonomous,
              DownTheRoster, Colleagues, TurnsLeft
<1>6. /\ u.end = "none" /\ u.who \in Agents /\ u.turn <= Bound(u) /\ Distinct(u.members)
      /\ ByRoster(u) => u.turn \in DOMAIN u.members /\ u.who = u.members[u.turn]
  BY DEF Keeps, Own, Order, Waits
<1>7. Spoken(r, v, rs2) /\ Seen(r, v, rs2) BY <1>1, <1>4 DEF Spoken, Seen
<1>8. \A n \in TurnsIn(r, rs2) : rs2[n].status = "complete" /\ Charged(us2, n) BY <1>1, <1>2, <1>3
<1> QED BY <1>1, <1>4, <1>5, <1>6, <1>7, <1>8 DEF Between

(* A turn in one piece fails. *)
LEMMA FailKeeps ==
  ASSUME TypeOK, NEW r \in Runs, NEW u \in Run, NEW rs \in Seq(Row), NEW us, Keeps(r, u, rs, us), Waits(u),
         FailWhole(r, u, rs)
  PROVE  \E v \in Run : Becomes(r, v) /\ Keeps(r, v, rows', us) /\ Grows(r, rs, rows')
<1> DEFINE v == Over(u, "failed")
<1>1. /\ v \in Run /\ v.at = "over" /\ v.end = "failed" /\ v.turn = u.turn /\ v.members = u.members
      /\ v.strategy = u.strategy /\ v.limit = u.limit /\ v.upto = u.upto
  BY ZenonT(60) DEF Over, Run
<1>2. /\ Becomes(r, v)
      /\ \/ rows' = rs
         \/ \E x \in Row : /\ Said(r, u, x, "error", FALSE, u.saw) /\ u.who \in agents
                           /\ rows' = Append(rs, x)
  BY FailWholeEffect
<1> HIDE DEF v
<1>3. u.turn \in Nat /\ Bound(v) = Bound(u) /\ (ByRoster(v) <=> ByRoster(u))
  BY <1>1 DEF Run, Bound, ByRoster
<1>4. ~Works(v) /\ ~Waits(v) /\ ~Turned(v) /\ Broken(v) BY <1>1 DEF Works, Waits, Turned, Broken
<1>5. u.turn <= Bound(u) /\ Distinct(u.members) BY DEF Keeps, Order
<1>6. CASE rows' = rs
  <2>1. \A n \in TurnsIn(r, rs) : rs[n].status = "complete" /\ Charged(us, n)
    BY DEF Keeps, Own, Waits, Broken, Works
  <2>2. Own(r, v, rs, us) BY <1>1, <1>4, <2>1 DEF Own, InFlight
  <2>3. Sees(r, v, rs) BY <1>1, <1>4 DEF Keeps, Sees
  <2>4. Spoken(r, v, rs) BY <1>1, <1>3 DEF Keeps, Order, Spoken
  <2>5. Order(r, v, rs) BY <1>1, <1>3, <1>4, <1>5, <2>4 DEF Keeps, Order
  <2> QED BY <1>1, <1>2, <1>6, <2>2, <2>3, <2>5 DEF Keeps, Grows
<1>7. ASSUME NEW x \in Row, Said(r, u, x, "error", FALSE, u.saw), u.who \in agents, rows' = Append(rs, x)
      PROVE  \E w \in Run : Becomes(r, w) /\ Keeps(r, w, rows', us) /\ Grows(r, rs, rows')
  <2>2. x.status = "error" /\ x.run = r /\ x.agent = u.who /\ x.saw = u.saw BY <1>7 DEF Said
  <2>1. /\ TurnsIn(r, rows') = TurnsIn(r, rs) \cup {Len(rs) + 1}
        /\ LastIn(r, rows', Len(rs) + 1)
        /\ rows'[Len(rs) + 1] = x
        /\ \A n \in TurnsIn(r, rs) : rows'[n] = rs[n] /\ rs[n].status = "complete" /\ Charged(us, n)
        /\ Cardinality(TurnsIn(r, rows')) = u.turn
        /\ Spoken(r, u, rows') /\ Seen(r, u, rows')
    <3>1. Stored(r, u, rs, us, x, rows') BY <1>7, <2>2, TurnStored
    <3> QED BY <3>1 DEF Stored
  <2>3. Own(r, v, rows', us) BY <1>1, <1>4, <2>1, <2>2 DEF Own, InFlight
  <2>4. Sees(r, v, rows') BY <1>1, <1>4, <2>1 DEF Sees, Seen
  <2>5. Spoken(r, v, rows') BY <1>1, <1>3, <2>1 DEF Spoken
  <2>6. Order(r, v, rows') BY <1>1, <1>3, <1>4, <1>5, <2>1, <2>5 DEF Order
  <2>7. Grows(r, rs, rows') BY <1>7, <2>2 DEF Grows
  <2> QED BY <1>1, <1>2, <2>3, <2>4, <2>6, <2>7 DEF Keeps
<1> QED BY <1>2, <1>6, <1>7

(* The message of a streamed turn is written.                              *)
Written(r, u, k, st, b, rs, rs2) ==
  /\ TurnsIn(r, rs2) = TurnsIn(r, rs) /\ u.row = k /\ k \in TurnsIn(r, rs) /\ LastIn(r, rs, k)
  /\ \A n : Place(r, rs2, n) = Place(r, rs, n)
  /\ \A n : LastIn(r, rs2, n) <=> LastIn(r, rs, n)
  /\ \A n \in TurnsIn(r, rs) :
       /\ n # k => rs2[n] = rs[n] /\ rs[n].status = "complete" /\ n < k
       /\ rs2[n].agent = rs[n].agent /\ rs2[n].saw = rs[n].saw
  /\ rs2[k].status = st /\ rs2[k].said = b
  /\ Spoken(r, u, rs2) /\ Seen(r, u, rs2)

LEMMA TurnWritten ==
  ASSUME NEW r \in Runs, NEW u \in Run, NEW rs \in Seq(Row), NEW us, Keeps(r, u, rs, us), Works(u),
         NEW st, NEW b, NEW rs2, Rewrites(u.row, st, b, rs, rs2)
  PROVE  Written(r, u, u.row, st, b, rs, rs2)
<1>1. TurnsIn(r, rs2) = TurnsIn(r, rs) /\ TurnsIn(r, rs) \subseteq DOMAIN rs
  BY DEF Rewrites, TurnsIn
<1>2. (\A n : Place(r, rs2, n) = Place(r, rs, n)) /\ (\A n : LastIn(r, rs2, n) <=> LastIn(r, rs, n))
  BY <1>1 DEF Place, LastIn
<1>3. u.row \in TurnsIn(r, rs) /\ LastIn(r, rs, u.row) BY DEF Keeps, Own
<1>4. \A n \in TurnsIn(r, rs) : n \in Nat /\ n <= u.row BY <1>1, <1>3 DEF LastIn
<1>5. \A n \in TurnsIn(r, rs) : n # u.row => ~LastIn(r, rs, n) BY <1>3, <1>4 DEF LastIn
<1>6. ASSUME NEW n \in TurnsIn(r, rs)
      PROVE  /\ n # u.row => rs2[n] = rs[n] /\ rs[n].status = "complete" /\ n < u.row
             /\ rs2[n].agent = rs[n].agent /\ rs2[n].saw = rs[n].saw
             /\ n = u.row => rs2[n].status = st /\ rs2[n].said = b
  <2>1. n \in DOMAIN rs BY <1>1
  <2>2. n # u.row => rs[n].status = "complete" BY <1>5 DEF Keeps, Own
  <2>3. n # u.row => n < u.row BY <1>3, <1>4
  <2> QED BY <2>1, <2>2, <2>3 DEF Rewrites
<1>7. Spoken(r, u, rs2)
  <2>1. Spoken(r, u, rs) BY DEF Keeps, Order
  <2> QED BY <1>1, <1>2, <1>6, <2>1 DEF Spoken
<1>8. Seen(r, u, rs2)
  <2>1. Len(rs2) = Len(rs) /\ u.upto <= Len(rs) BY DEF Keeps, Sees, Rewrites
  <2>2. ASSUME u.strategy = "broadcast", NEW n \in TurnsIn(r, rs2)
        PROVE  n > u.upto /\ \A k \in rs2[n].saw : k <= u.upto
    BY <1>1, <1>6, <2>2 DEF Keeps, Sees
  <2>3. ASSUME u.strategy # "broadcast", NEW n \in TurnsIn(r, rs2), NEW m \in TurnsIn(r, rs2),
               m < n, rs2[m].said
        PROVE  m \in rs2[n].saw
    <3>1. m # u.row BY <1>1, <1>3, <1>4, <2>3
    <3>2. rs[m].said BY <1>1, <1>6, <2>3, <3>1
    <3> QED BY <1>1, <1>6, <2>3, <3>2 DEF Keeps, Sees
  <2> QED BY <2>1, <2>2, <2>3 DEF Seen
<1> QED BY <1>1, <1>2, <1>3, <1>6, <1>7, <1>8 DEF Written

(* What else the turn under way keeps. *)
LEMMA WorksFacts ==
  ASSUME NEW r \in Runs, NEW u \in Run, NEW rs \in Seq(Row), NEW us, Keeps(r, u, rs, us), Works(u)
  PROVE  /\ u.end = "none" /\ ~Waits(u) /\ ~Turned(u) /\ u.row \in DOMAIN rs
         /\ rs[u.row].status \in InFlight
         /\ \A n \in TurnsIn(r, rs) : n # u.row => Charged(us, n)
         /\ u.turn \in Nat /\ u.turn <= Bound(u) /\ Cardinality(TurnsIn(r, rs)) = u.turn
         /\ Distinct(u.members) /\ u.who \in Agents
         /\ ByRoster(u) => u.turn \in DOMAIN u.members /\ u.who = u.members[u.turn]
         /\ \A m \in TurnsIn(r, rs) : Place(r, rs, m) = u.turn => rs[m].agent \in {u.who, NoAgent}
<1>1. u.end = "none" /\ ~Waits(u) /\ ~Turned(u) BY DEF Keeps, Own, Works, Waits, Turned
<1>2. u.row \in TurnsIn(r, rs) /\ LastIn(r, rs, u.row) /\ rs[u.row].status \in InFlight
  BY DEF Keeps, Own, InFlight
<1>3. u.row \in DOMAIN rs /\ \A n \in TurnsIn(r, rs) : n \in Nat BY <1>2 DEF TurnsIn
<1>4. \A n \in TurnsIn(r, rs) : n # u.row => ~LastIn(r, rs, n) BY <1>2, <1>3 DEF LastIn
<1>5. \A n \in TurnsIn(r, rs) : n # u.row => Charged(us, n) BY <1>4 DEF Keeps, Own
<1> QED BY <1>1, <1>2, <1>3, <1>5 DEF Keeps, Order, Works, Run

(* A token: the turn goes on. *)
LEMMA TokenKeeps ==
  ASSUME NEW r \in Runs, NEW u \in Run, NEW rs \in Seq(Row), NEW us, Keeps(r, u, rs, us), Works(u),
         NEW rs2, Rewrites(u.row, "streaming", TRUE, rs, rs2),
         NEW v \in Run, Works(v), v.said, v.row = u.row, v.end = u.end, v.turn = u.turn, v.who = u.who,
         Continues(u, v)
  PROVE  Keeps(r, v, rs2, us)
<1>1. Written(r, u, u.row, "streaming", TRUE, rs, rs2) BY TurnWritten
<1>2. /\ v.strategy = u.strategy /\ v.members = u.members /\ v.upto = u.upto
      /\ Bound(v) = Bound(u) /\ (ByRoster(v) <=> ByRoster(u))
  BY DEF Continues, Bound, ByRoster
<1>3. v.at # "idle" /\ v.at # "over" /\ ~Waits(v) /\ ~Turned(v) BY DEF Works, Waits, Turned
<1>4. Own(r, v, rs2, us) BY <1>1, <1>3, WorksFacts DEF Own, Written, Broken, InFlight
<1>5. Sees(r, v, rs2) BY <1>1, <1>2, <1>3 DEF Sees, Seen, Written
<1>6. Spoken(r, v, rs2) BY <1>1, <1>2 DEF Spoken, Written
<1>7. Order(r, v, rs2) BY <1>1, <1>2, <1>3, <1>6, WorksFacts DEF Order, Written
<1> QED BY <1>4, <1>5, <1>7 DEF Keeps

(* The turn is over, and with it the prompt. *)
LEMMA StopKeeps ==
  ASSUME NEW r \in Runs, NEW u \in Run, NEW rs \in Seq(Row), NEW us, Keeps(r, u, rs, us), Works(u),
         NEW st \in {"complete", "error"}, NEW b, NEW rs2, Rewrites(u.row, st, b, rs, rs2),
         NEW e \in {"failed", "cut", "dropped"}
  PROVE  Over(u, e) \in Run /\ Keeps(r, Over(u, e), rs2, us)
<1> DEFINE v == Over(u, e)
<1>1. /\ v \in Run /\ v.at = "over" /\ v.end = e /\ v.turn = u.turn /\ v.members = u.members
      /\ v.strategy = u.strategy /\ v.limit = u.limit /\ v.upto = u.upto
  BY ZenonT(60) DEF Over, Run
<1> HIDE DEF v
<1>2. Written(r, u, u.row, st, b, rs, rs2) BY TurnWritten
<1>3. Bound(v) = Bound(u) /\ (ByRoster(v) <=> ByRoster(u)) BY <1>1 DEF Bound, ByRoster
<1>4. ~Works(v) /\ ~Waits(v) /\ ~Turned(v) /\ Broken(v) BY <1>1 DEF Works, Waits, Turned, Broken
<1>5. Own(r, v, rs2, us)
  <2>1. \A n \in TurnsIn(r, rs2) :
          \/ LastIn(r, rs2, n) /\ Broken(v)
          \/ rs2[n].status = "complete" /\ Charged(us, n)
    BY <1>2, <1>4, WorksFacts DEF Written
  <2>2. \A n \in TurnsIn(r, rs2) : rs2[n].status \notin InFlight BY <1>2 DEF Written, InFlight
  <2> QED BY <1>1, <1>4, <2>1, <2>2 DEF Own
<1>6. Sees(r, v, rs2) BY <1>1, <1>2, <1>4 DEF Sees, Seen, Written
<1>7. Spoken(r, v, rs2) BY <1>1, <1>2, <1>3 DEF Spoken, Written
<1>8. Order(r, v, rs2) BY <1>1, <1>2, <1>3, <1>4, <1>7, WorksFacts DEF Order, Written
<1> QED BY <1>1, <1>5, <1>6, <1>8 DEF Keeps, v

(* The turn is complete and charged, and waits for its client. *)
LEMMA DoneKeeps ==
  ASSUME NEW r \in Runs, NEW u \in Run, NEW rs \in Seq(Row), NEW us, Keeps(r, u, rs, us), Works(u),
         NEW b, NEW rs2, Rewrites(u.row, "complete", b, rs, rs2),
         NEW us2, Charged(us2, u.row), \A n : Charged(us, n) => Charged(us2, n),
         NEW next \in HandsOnTo(u), NEW v \in Run, v.at = "turned", v.next = next, v.end = u.end,
         v.turn = u.turn, v.who = u.who, Continues(u, v)
  PROVE  Keeps(r, v, rs2, us2)
<1>1. Written(r, u, u.row, "complete", b, rs, rs2) BY TurnWritten
<1>2. /\ v.strategy = u.strategy /\ v.members = u.members /\ v.limit = u.limit /\ v.upto = u.upto
      /\ Bound(v) = Bound(u) /\ (ByRoster(v) <=> ByRoster(u))
  BY DEF Continues, Bound, ByRoster
<1>3. ~Works(v) /\ ~Waits(v) /\ Turned(v) BY DEF Works, Waits, Turned
<1>4. Own(r, v, rs2, us2)
  <2>1. \A n \in TurnsIn(r, rs2) : rs2[n].status = "complete" /\ Charged(us2, n)
    BY <1>1, WorksFacts DEF Written
  <2> QED BY <1>3, <2>1, WorksFacts DEF Own, InFlight
<1>5. Sees(r, v, rs2) BY <1>1, <1>2, <1>3 DEF Sees, Seen, Written
<1>6. Spoken(r, v, rs2) BY <1>1, <1>2 DEF Spoken, Written
<1>7. HandsOnTo(v) = HandsOnTo(u)
  BY <1>2 DEF HandsOnTo, AfterSequential, AfterBroadcast, AfterCoordinator, AfterAutonomous,
              DownTheRoster, Colleagues, TurnsLeft
<1>8. Order(r, v, rs2) BY <1>1, <1>2, <1>3, <1>6, <1>7, WorksFacts DEF Order, Written
<1> QED BY <1>4, <1>5, <1>8 DEF Keeps

(* What a streamed turn that waited for its client leaves. *)
LEMMA TurnedBetween ==
  ASSUME NEW r \in Runs, NEW u \in Run, NEW rs \in Seq(Row), NEW us, Keeps(r, u, rs, us), Turned(u)
  PROVE  Between(r, u, rs, us)
<1>1. ~Works(u) /\ ~Waits(u) BY DEF Turned, Works, Waits
<1>2. u.end = "none" /\ u.who \in Agents BY DEF Keeps, Own, Order, Turned
<1>3. \A n \in TurnsIn(r, rs) : rs[n].status = "complete" /\ Charged(us, n)
  BY <1>1, <1>2 DEF Keeps, Own, Broken
<1>4. Seen(r, u, rs) BY DEF Keeps, Sees, Seen
<1> QED BY <1>1, <1>2, <1>3, <1>4 DEF Between, Keeps, Order, Turned

(* Whether the client is there is no matter, nor whether it keeps up. *)
LEMMA ClientKeeps ==
  ASSUME NEW r \in Runs, NEW u \in Run, NEW rs \in Seq(Row), NEW us, Keeps(r, u, rs, us),
         NEW v \in Run, Continues(u, v), v.turn = u.turn, v.who = u.who, v.saw = u.saw, v.row = u.row,
         v.said = u.said, v.next = u.next, v.end = u.end,
         v.at = u.at \/ (Works(u) /\ Works(v))
  PROVE  Keeps(r, v, rs, us)
<1>1. /\ v.strategy = u.strategy /\ v.members = u.members /\ v.limit = u.limit /\ v.upto = u.upto
      /\ v.streams = u.streams
      /\ Bound(v) = Bound(u) /\ (ByRoster(v) <=> ByRoster(u))
  BY DEF Continues, Bound, ByRoster
<1>2. /\ Works(v) <=> Works(u)
      /\ Waits(v) <=> Waits(u)
      /\ Turned(v) <=> Turned(u)
      /\ v.at = "idle" <=> u.at = "idle"
      /\ v.at = "over" <=> u.at = "over"
  BY <1>1 DEF Works, Waits, Turned
<1>3. HandsOnTo(v) = HandsOnTo(u)
  BY <1>1 DEF HandsOnTo, AfterSequential, AfterBroadcast, AfterCoordinator, AfterAutonomous,
              DownTheRoster, Colleagues, TurnsLeft
<1>4. Own(r, v, rs, us) BY <1>1, <1>2 DEF Keeps, Own, Broken
<1>5. Sees(r, v, rs) BY <1>1, <1>2 DEF Keeps, Sees
<1>6. Order(r, v, rs) BY <1>1, <1>2, <1>3 DEF Keeps, Order, Spoken
<1> QED BY <1>4, <1>5, <1>6 DEF Keeps

-----------------------------------------------------------------------------
(* The invariant. *)

LEMMA InvInit == Init => Inv
<1> SUFFICES ASSUME Init PROVE Inv OBVIOUS
<1>1. Distinct(roster) /\ exists /\ usage = <<>> BY DEF Init
<1>2. rows = <<Prompt>> BY DEF Init
<1>3. rows \in Seq(Row) /\ Len(rows) = 1 /\ DOMAIN rows = {1} /\ rows[1].run = NoRun
  <2>1. Prompt \in Row /\ Prompt.run = NoRun BY DEF Prompt, Row
  <2> HIDE DEF Prompt
  <2> QED BY <1>2, <2>1
<1>4. Ledger(rows, usage) /\ Posted(rows)
  <2>1. rows[1].status = "complete" BY <1>2 DEF Prompt
  <2> QED BY <1>1, <1>3, <2>1 DEF Ledger, Posted, TurnsIn
<1>5. ASSUME NEW r \in Runs
      PROVE  Own(r, run[r], rows, usage) /\ Sees(r, run[r], rows) /\ Order(r, run[r], rows)
  <2>1. TurnsIn(r, rows) = {} BY <1>3, TeamAssumption DEF TurnsIn
  <2>2. Cardinality(TurnsIn(r, rows)) = 0 BY <2>1, FS_EmptySet
  <2>3. run[r] = Idle BY DEF Init
  <2>4. /\ Idle.at = "idle" /\ Idle.end = "none" /\ Idle.upto = 0 /\ Idle.turn = 0 /\ Idle.members = <<>>
        /\ Idle.strategy = "sequential" /\ Idle.limit \in TurnLimits
    BY IdleTyped DEF Idle, Run
  <2> HIDE DEF Idle
  <2>5. ~Works(Idle) /\ ~Waits(Idle) /\ ~Turned(Idle) BY <2>4 DEF Works, Waits, Turned
  <2>6. Idle.turn <= Bound(Idle)
    <3>1. Idle.limit \in 1..10 BY <2>4, TeamAssumption
    <3>2. Bound(Idle) = Idle.limit BY <2>4 DEF Bound
    <3> QED BY <2>4, <3>1, <3>2
  <2>7. Own(r, Idle, rows, usage) BY <2>1, <2>4, <2>5 DEF Own
  <2>8. Sees(r, Idle, rows) BY <1>3, <2>1, <2>4, <2>5 DEF Sees
  <2>9. Order(r, Idle, rows) BY <2>1, <2>2, <2>4, <2>5, <2>6 DEF Order, Spoken, Distinct
  <2> QED BY <2>3, <2>7, <2>8, <2>9
<1> QED BY <1>1, <1>4, <1>5 DEF Inv

(* A step of prompt r, the chat being there. *)
LEMMA InvStep ==
  ASSUME TypeOK, Inv, exists, NEW r \in Runs, NEW v \in Run, Becomes(r, v),
         UNCHANGED <<exists, roster>>, rows' \in Seq(Row),
         Keeps(r, v, rows', usage'), Ledger(rows', usage'),
         \A s \in Runs \cup {NoRun} : s # r => Same(s, rows, usage, rows', usage')
  PROVE  Inv'
<1>1. run'[r] = v /\ \A s \in Runs : s # r => run'[s] = run[s] BY DEF Becomes, TypeOK
<1>2. ASSUME NEW s \in Runs PROVE Keeps(s, run'[s], rows', usage')
  <2>1. CASE s = r BY <1>1, <2>1
  <2>2. CASE s # r
    <3>1. Keeps(s, run[s], rows, usage) BY DEF Inv, Keeps
    <3>2. run[s] \in Run /\ rows \in Seq(Row) BY DEF TypeOK
    <3>3. Same(s, rows, usage, rows', usage') BY <2>2
    <3>4. Keeps(s, run[s], rows', usage') BY <3>1, <3>2, <3>3, SameKeeps
    <3> QED BY <1>1, <2>2, <3>4
  <2> QED BY <2>1, <2>2
<1>3. \A i, j \in DOMAIN usage' : usage'[i] = usage'[j] => i = j BY DEF Ledger
<1>4. Posted(rows')
  <2>1. Same(NoRun, rows, usage, rows', usage') BY TeamAssumption
  <2> QED BY <2>1 DEF Inv, Posted, Same
<1> QED BY <1>2, <1>3, <1>4 DEF Inv, Keeps, Distinct

(* A step of nobody's prompt that leaves the messages of all prompts. *)
LEMMA InvOthers ==
  ASSUME TypeOK, Inv, exists, UNCHANGED <<exists, usage, run>>, Distinct(roster'), rows' \in Seq(Row),
         Ledger(rows', usage), Posted(rows'), \A s \in Runs : Same(s, rows, usage, rows', usage)
  PROVE  Inv'
<1>1. ASSUME NEW s \in Runs PROVE Keeps(s, run[s], rows', usage)
  <2>1. Keeps(s, run[s], rows, usage) BY DEF Inv, Keeps
  <2>2. run[s] \in Run /\ rows \in Seq(Row) BY DEF TypeOK
  <2>3. Same(s, rows, usage, rows', usage) OBVIOUS
  <2> QED BY <2>1, <2>2, <2>3, SameKeeps
<1> QED BY <1>1 DEF Inv, Keeps, Distinct

(* Without its chat a prompt stores nothing and charges nothing. *)
LEMMA GoneQuiet ==
  ASSUME TypeOK, ~exists, rows = <<>>, NEW r \in Runs, Answering(r)
  PROVE  rows' = <<>> /\ usage' = usage /\ UNCHANGED <<exists, roster>>
<1>1. ASSUME NEW u, Begin(r, u, rows) PROVE rows' = rows BY <1>1 DEF Begin, FailWhole
<1>2. ASSUME NEW u, GoOn(r, u, rows) PROVE rows' = rows BY <1>1, <1>2 DEF GoOn
<1>3. ~CanCharge(run[r].who) BY DEF CanCharge
<1> QED BY <1>1, <1>2, <1>3 DEF Answering, StartTeam, ClientCloses, WholeReturns, Persist, WholeFails,
            FailWhole, Drained, Delta, TurnFinishes, TurnFails, TurnCut, StreamGoesOn, Flush

(* Whoever answers, the invariant holds. *)
LEMMA InvAnswering ==
  ASSUME TypeOK, Inv, exists, NEW r \in Runs, Answering(r)
  PROVE  Inv'
<1> DEFINE u == run[r]
<1>1. u \in Run /\ rows \in Seq(Row) /\ usage \in Seq(Nat) BY DEF TypeOK
<1>2. Keeps(r, u, rows, usage) /\ Ledger(rows, usage) BY SMTT(40) DEF Inv, Keeps
<1>3. UNCHANGED <<exists, roster>>
  BY DEF Answering, StartTeam, ClientCloses, WholeReturns, WholeFails, Drained, Delta,
         TurnFinishes, TurnFails, TurnCut, StreamGoesOn
<1>4. Distinct(roster) BY DEF Inv
<1> HIDE DEF u
<1>5. ASSUME NEW v \in Run, Becomes(r, v), Keeps(r, v, rows', usage), Grows(r, rows, rows'), usage' = usage
      PROVE  Inv'
  <2>1. Ledger(rows', usage) BY <1>1, <1>2, <1>5, LedgerGrows
  <2>2. \A s \in Runs \cup {NoRun} : s # r => Same(s, rows, usage, rows', usage) BY <1>1, <1>5, GrowsSame
  <2>3. rows' \in Seq(Row) BY SMTT(40), <1>1, <1>5 DEF Grows
  <2> QED BY <1>3, <1>5, <2>1, <2>2, <2>3, InvStep
<1>6. ASSUME Works(u), NEW st \in {"streaming", "complete", "error"}, NEW b \in BOOLEAN,
             rows' = [rows EXCEPT ![u.row] = [@ EXCEPT !.status = st, !.said = b]]
      PROVE  /\ Rewrites(u.row, st, b, rows, rows') /\ rows' \in Seq(Row)
             /\ u.row \in DOMAIN rows' /\ rows'[u.row].status = st
             /\ Ledger(rows', usage) /\ ~Charged(usage, u.row)
             /\ \A s \in Runs \cup {NoRun} : s # r => Same(s, rows, usage, rows', usage)
  <2>1. Rewrites(u.row, st, b, rows, rows') BY <1>1, <1>6, Rewritten
  <2>2. /\ u.row \in DOMAIN rows /\ rows[u.row].status \in InFlight /\ u.row \in TurnsIn(r, rows)
    BY <1>1, <1>2, <1>6, WorksFacts DEF Keeps, Own
  <2>3. Ledger(rows', usage) /\ ~Charged(usage, u.row)
    BY <1>1, <1>2, <2>1, <2>2, LedgerRewrites DEF InFlight
  <2>4. \A s \in Runs \cup {NoRun} : s # r => Same(s, rows, usage, rows', usage) BY <1>1, <2>1, <2>2, RewriteSame
  <2>5. rows' \in Seq(Row) /\ u.row \in DOMAIN rows' /\ rows'[u.row].status = st
    BY <2>1, <2>2 DEF Rewrites
  <2> QED BY <2>1, <2>3, <2>4, <2>5
<1>7. ASSUME Works(u), NEW st \in {"complete", "error"}, NEW b \in BOOLEAN,
             rows' = [rows EXCEPT ![u.row] = [@ EXCEPT !.status = st, !.said = b]],
             NEW e \in {"failed", "cut", "dropped"}, Becomes(r, Over(u, e)), usage' = usage
      PROVE  Inv'
  <2>1. /\ Rewrites(u.row, st, b, rows, rows') /\ rows' \in Seq(Row) /\ Ledger(rows', usage)
        /\ \A s \in Runs \cup {NoRun} : s # r => Same(s, rows, usage, rows', usage)
    BY <1>6, <1>7
  <2>2. Over(u, e) \in Run /\ Keeps(r, Over(u, e), rows', usage) BY <1>1, <1>2, <1>7, <2>1, StopKeeps
  <2> QED BY <1>3, <1>7, <2>1, <2>2, InvStep
<1>8. ASSUME NEW strategy \in Strategies, NEW limit \in TurnLimits, NEW streams \in BOOLEAN,
             StartTeam(r, strategy, limit, streams)
      PROVE  Inv'
  <2>1. PICK lead \in DOMAIN roster : /\ Begin(r, Fresh(strategy, limit, streams, lead), rows)
                                      /\ strategy \in {"sequential", "broadcast"} => lead = 1
    BY <1>8 DEF StartTeam, Fresh
  <2>2. u.at = "idle" BY <1>8 DEF StartTeam, u
  <2>3. TurnsIn(r, rows) = {} BY <1>2, <2>2 DEF Keeps, Own
  <2>4. Ready(r, Fresh(strategy, limit, streams, lead), rows, usage) BY <1>4, <2>1, <2>3, FirstReady
  <2>5. Fresh(strategy, limit, streams, lead) \in Run BY FreshTyped
  <2>6. PICK v \in Run : Becomes(r, v) /\ Keeps(r, v, rows', usage) /\ Grows(r, rows, rows')
    BY <1>1, <2>1, <2>4, <2>5, BeginKeeps
  <2>7. usage' = usage BY <1>8 DEF StartTeam
  <2> QED BY <1>5, <2>6, <2>7
<1>9. CASE ClientCloses(r)
  <2> DEFINE v == [u EXCEPT !.open = FALSE]
  <2>1. Becomes(r, v) /\ rows' = rows /\ usage' = usage BY <1>9 DEF ClientCloses, Becomes, TypeOK, u
  <2>2. /\ v \in Run /\ Continues(u, v) /\ v.turn = u.turn /\ v.who = u.who /\ v.saw = u.saw
        /\ v.row = u.row /\ v.said = u.said /\ v.next = u.next /\ v.end = u.end /\ v.at = u.at
    BY <1>1 DEF Run, Continues
  <2> HIDE DEF v
  <2>3. Keeps(r, v, rows, usage) BY <1>1, <1>2, <2>2, ClientKeeps
  <2> QED BY <1>5, <2>1, <2>2, <2>3 DEF Grows
<1>10. CASE WholeReturns(r)
  <2>1. PICK said \in BOOLEAN : Persist(r, said) BY <1>10 DEF WholeReturns
  <2>2. Waits(u) BY <1>10 DEF WholeReturns, Whole, Waits, u
  <2>3. CASE CanCharge(u.who)
    <3>1. PICK next \in HandsOnTo(u) :
            /\ usage' = Append(usage, Len(rows) + 1)
            /\ GoOn(r, Answered(u, Len(rows) + 1, said, next),
                    Append(rows, Turn(r, u, "complete", said)))
      BY <2>1, <2>3 DEF Persist, Answered, u
    <3> DEFINE x == Turn(r, u, "complete", said)
               w == Answered(u, Len(rows) + 1, said, next)
               more == Append(rows, x)
               paid == Append(usage, Len(rows) + 1)
    <3>2. Said(r, u, x, "complete", said, u.saw) BY <1>1 DEF Said, Turn, Run, Row
    <3>3. u.who \in agents BY <2>3 DEF CanCharge
    <3>4. Len(rows) + 1 \in Nat BY <1>1
    <3>5. /\ w \in Run /\ w.next = next /\ w.end = u.end /\ w.turn = u.turn /\ w.who = u.who
          /\ Continues(u, w)
      BY <1>1, <3>4, AnsweredTyped
    <3>6. usage' = paid /\ GoOn(r, w, more) BY <3>1
    <3> HIDE DEF x, w
    <3>7. /\ x \in Row /\ x.run = r /\ x.agent \in agents /\ x.status = "complete"
      BY <3>2, <3>3 DEF Said
    <3>8. /\ more \in Seq(Row) /\ DOMAIN more = DOMAIN rows \cup {Len(rows) + 1}
          /\ Len(rows) + 1 \notin DOMAIN rows /\ more[Len(rows) + 1] = x
      BY <1>1, <3>7, Appended
    <3>9. paid \in Seq(Nat) BY <1>1, <3>4
    <3>10. Grows(r, rows, more) BY <3>7 DEF Grows
    <3> DEFINE k == Len(rows) + 1
    <3>11. Ledger(more, paid)
      <4>1. Ledger(more, usage) BY <1>1, <1>2, <3>10, LedgerGrows
      <4>2. ~Charged(usage, k) BY <1>2, <3>8 DEF Ledger, Charged
      <4>3. k \in Nat /\ k \in DOMAIN more /\ more[k].status = "complete" BY <3>4, <3>7, <3>8
      <4> HIDE DEF more, k
      <4>4. Ledger(more, Append(usage, k)) BY <1>1, <3>8, <4>1, <4>2, <4>3, LedgerCharges
      <4> QED BY <4>4 DEF k
    <3> HIDE DEF more, paid
    <3>12. Between(r, w, more, paid) BY <1>1, <1>2, <2>2, <3>2, <3>5, ReplyBetween DEF more, paid
    <3>13. PICK v \in Run : Becomes(r, v) /\ Keeps(r, v, rows', paid) /\ Grows(r, more, rows')
      BY <3>5, <3>6, <3>8, <3>12, GoOnKeeps
    <3>14. Ledger(rows', paid) BY <3>8, <3>11, <3>13, LedgerGrows
    <3>15. rows' \in Seq(Row)
      <4>1. more \in Seq(Row) /\ Grows(r, more, rows') BY <3>8, <3>13
      <4> QED BY ONLY <4>1 DEF Grows
    <3>16. ASSUME NEW s \in Runs \cup {NoRun}, s # r PROVE Same(s, rows, usage, rows', paid)
      <4>1. Same(s, rows, usage, more, usage) BY <1>1, <3>10, <3>16, GrowsSame
      <4>2. Same(s, rows, usage, more, paid) BY <1>1, <3>4, <4>1, ChargeSame DEF paid
      <4>3. Same(s, more, paid, rows', paid) BY <3>8, <3>13, <3>16, GrowsSame
      <4> QED BY <1>1, <3>8, <3>15, <4>2, <4>3, SameTwice
    <3> QED BY <1>3, <3>6, <3>13, <3>14, <3>15, <3>16, InvStep
  <2>4. CASE ~CanCharge(u.who)
    <3>1. FailWhole(r, u, rows) /\ usage' = usage BY <2>1, <2>4 DEF Persist, u
    <3>2. PICK v \in Run : Becomes(r, v) /\ Keeps(r, v, rows', usage) /\ Grows(r, rows, rows')
      BY <1>1, <1>2, <2>2, <3>1, FailKeeps
    <3> QED BY <1>5, <3>1, <3>2
  <2> QED BY <2>3, <2>4
<1>11. CASE WholeFails(r)
  <2>1. Waits(u) /\ FailWhole(r, u, rows) /\ usage' = usage
    BY <1>11 DEF WholeFails, Whole, Waits, u
  <2>2. PICK v \in Run : Becomes(r, v) /\ Keeps(r, v, rows', usage) /\ Grows(r, rows, rows')
    BY <1>1, <1>2, <2>1, FailKeeps
  <2> QED BY <1>5, <2>1, <2>2
<1>12. CASE Drained(r)
  <2> DEFINE v == [u EXCEPT !.at = "provider"]
  <2>1. Becomes(r, v) /\ rows' = rows /\ usage' = usage /\ Works(u)
    BY <1>12 DEF Drained, Streaming, Works, u
  <2>2. /\ v \in Run /\ Continues(u, v) /\ v.turn = u.turn /\ v.who = u.who /\ v.saw = u.saw
        /\ v.row = u.row /\ v.said = u.said /\ v.next = u.next /\ v.end = u.end /\ Works(v)
    BY <1>1, <2>1 DEF Run, Continues, Works
  <2> HIDE DEF v
  <2>3. Keeps(r, v, rows, usage) BY <1>1, <1>2, <2>1, <2>2, ClientKeeps
  <2> QED BY <1>5, <2>1, <2>2, <2>3 DEF Grows
<1>13. CASE Delta(r)
  <2> DEFINE v == [u EXCEPT !.said = TRUE, !.at = "yielded"]
  <2>1. /\ Becomes(r, v) /\ usage' = usage /\ Works(u)
        /\ rows' = [rows EXCEPT ![u.row] = [@ EXCEPT !.status = "streaming", !.said = TRUE]]
    BY <1>13 DEF Delta, Heard, Works, u
  <2>2. /\ v \in Run /\ Continues(u, v) /\ v.turn = u.turn /\ v.who = u.who
        /\ v.row = u.row /\ v.said /\ v.end = u.end /\ Works(v)
    BY ZenonT(60), <1>1, <2>1 DEF Run, Continues, Works
  <2> HIDE DEF v
  <2>3. /\ Rewrites(u.row, "streaming", TRUE, rows, rows') /\ rows' \in Seq(Row) /\ Ledger(rows', usage)
        /\ \A s \in Runs \cup {NoRun} : s # r => Same(s, rows, usage, rows', usage)
    BY <1>6, <2>1
  <2>4. Keeps(r, v, rows', usage) BY <1>1, <1>2, <2>1, <2>2, <2>3, TokenKeeps
  <2> QED BY <1>3, <2>1, <2>2, <2>3, <2>4, InvStep
<1>14. CASE TurnFinishes(r)
  <2>1. /\ Works(u) /\ u.said \in BOOLEAN
        /\ rows' = [rows EXCEPT ![u.row] = [@ EXCEPT !.status = "complete", !.said = u.said]]
    BY <1>1, <1>14 DEF TurnFinishes, Heard, Flush, Works, Run, u
  <2>2. CASE CanCharge(u.who)
    <3>1. PICK next \in HandsOnTo(u) : /\ usage' = Append(usage, u.row)
                                       /\ Becomes(r, [u EXCEPT !.at = "turned", !.next = next])
      BY <1>14, <2>2 DEF TurnFinishes, u
    <3> DEFINE v == [u EXCEPT !.at = "turned", !.next = next]
    <3>2. next \in Agents \cup {NoAgent} BY <1>1, HandsTyped
    <3>3. /\ v \in Run /\ Continues(u, v) /\ v.turn = u.turn /\ v.who = u.who /\ v.next = next
          /\ v.end = u.end /\ v.at = "turned"
      BY <1>1, <3>2 DEF Run, Continues
    <3>4. Becomes(r, v) BY <3>1
    <3> HIDE DEF v
    <3>5. /\ Rewrites(u.row, "complete", u.said, rows, rows') /\ rows' \in Seq(Row)
          /\ u.row \in DOMAIN rows' /\ rows'[u.row].status = "complete"
          /\ Ledger(rows', usage) /\ ~Charged(usage, u.row)
          /\ \A s \in Runs \cup {NoRun} : s # r => Same(s, rows, usage, rows', usage)
      BY <1>6, <2>1
    <3>6. u.row \in Nat BY <1>1 DEF Run
    <3>7. Ledger(rows', usage') /\ Charged(usage', u.row) BY <1>1, <3>1, <3>5, <3>6, LedgerCharges
    <3>8. \A n : Charged(usage, n) => Charged(usage', n) BY <1>1, <3>1, <3>6, ChargedMore
    <3>9. \A s \in Runs \cup {NoRun} : s # r => Same(s, rows, usage, rows', usage')
      BY <1>1, <3>1, <3>5, <3>6, ChargeSame
    <3>10. Keeps(r, v, rows', usage') BY <1>1, <1>2, <2>1, <3>3, <3>5, <3>7, <3>8, DoneKeeps
    <3> QED BY <1>3, <3>3, <3>4, <3>5, <3>7, <3>9, <3>10, InvStep
  <2>3. CASE ~CanCharge(u.who)
    <3>1. Becomes(r, Over(u, "dropped")) /\ usage' = usage BY <1>14, <2>3 DEF TurnFinishes, u
    <3> QED BY <1>7, <2>1, <3>1
  <2> QED BY <2>2, <2>3
<1>15. CASE TurnFails(r)
  <2>1. /\ Works(u) /\ u.said \in BOOLEAN /\ Becomes(r, Over(u, "failed")) /\ usage' = usage
        /\ rows' = [rows EXCEPT ![u.row] = [@ EXCEPT !.status = "error", !.said = u.said]]
    BY <1>1, <1>15 DEF TurnFails, Heard, Flush, Works, Run, u
  <2> QED BY <1>7, <2>1
<1>16. CASE TurnCut(r)
  <2>1. /\ Works(u) /\ u.said \in BOOLEAN /\ Becomes(r, Over(u, "cut")) /\ usage' = usage
        /\ rows' = [rows EXCEPT ![u.row] = [@ EXCEPT !.status = IF u.said THEN "complete" ELSE "error",
                                                     !.said = u.said]]
    BY <1>1, <1>16 DEF TurnCut, Streaming, Flush, Works, Run, u
  <2> QED BY <1>7, <2>1
<1>17. CASE StreamGoesOn(r)
  <2>1. Turned(u) /\ GoOn(r, u, rows) /\ usage' = usage BY <1>17 DEF StreamGoesOn, Turned, u
  <2>2. Between(r, u, rows, usage) BY <1>1, <1>2, <2>1, TurnedBetween
  <2>3. PICK v \in Run : Becomes(r, v) /\ Keeps(r, v, rows', usage) /\ Grows(r, rows, rows')
    BY <1>1, <2>1, <2>2, GoOnKeeps
  <2> QED BY <1>5, <2>1, <2>3
<1> QED BY <1>8, <1>9, <1>10, <1>11, <1>12, <1>13, <1>14, <1>15, <1>16, <1>17 DEF Answering

LEMMA InvNext == TypeOK /\ Inv /\ [Next]_vars => Inv'
<1> SUFFICES ASSUME TypeOK, Inv, [Next]_vars PROVE Inv' OBVIOUS
<1>0. Distinct(roster) /\ Distinct(roster)' /\ TypeOK' BY TypeNext DEF Inv
<1>1. rows \in Seq(Row) /\ rows' \in Seq(Row) BY <1>0 DEF TypeOK
<1>2. CASE PostMessage
  <2>1. exists /\ rows' = Append(rows, Prompt) /\ UNCHANGED <<exists, usage, run>>
    BY <1>2 DEF PostMessage
  <2>2. Prompt \in Row /\ Prompt.run = NoRun BY DEF Prompt, Row
  <2> HIDE DEF Prompt
  <2>3. \A s \in Runs : Prompt.run # s BY <2>2, TeamAssumption
  <2>4. \A s \in Runs : Same(s, rows, usage, rows', usage) BY <1>1, <2>1, <2>2, <2>3, AppendSame
  <2>5. Ledger(rows, usage) BY <2>1 DEF Inv
  <2>6. Ledger(rows', usage) BY <1>1, <2>1, <2>2, <2>5, Appended DEF Ledger
  <2>7. Posted(rows')
    <3>1. Posted(rows) BY <2>1 DEF Inv
    <3>2. Prompt.status = "complete" BY DEF Prompt
    <3> QED BY <1>1, <2>1, <2>2, <3>1, <3>2, Appended DEF Posted, TurnsIn
  <2> QED BY <1>0, <1>1, <2>1, <2>4, <2>6, <2>7, InvOthers
<1>3. CASE DeleteChat BY <1>0, <1>3 DEF DeleteChat, Inv
<1>4. ASSUME NEW a \in Fragile, AddMember(a) \/ RemoveMember(a) \/ BreakChain(a) PROVE Inv'
  <2>1. UNCHANGED <<exists, rows, usage, run>> BY <1>4 DEF AddMember, RemoveMember, BreakChain
  <2> QED BY <1>0, <2>1 DEF Inv
<1>5. ASSUME NEW a \in Fragile, DeleteAgent(a) PROVE Inv'
  <2>1. UNCHANGED <<exists, usage, run>> /\ Orphans(a, rows, rows')
    BY <1>1, <1>5, Orphaned DEF DeleteAgent
  <2>2. CASE exists
    <3>1. Ledger(rows, usage) BY <2>2 DEF Inv
    <3>2. Ledger(rows', usage) BY <1>1, <2>1, <3>1, LedgerOrphans
    <3>3. \A s : Same(s, rows, usage, rows', usage) BY <1>1, <2>1, OrphansSame
    <3>4. Posted(rows') BY <2>2, <3>3 DEF Inv, Posted, Same
    <3> QED BY <1>0, <1>1, <2>1, <2>2, <3>2, <3>3, <3>4, InvOthers
  <2>3. CASE ~exists
    <3>1. rows = <<>> BY <2>3 DEF Inv
    <3>2. rows' = <<>> BY <1>1, <2>1, <3>1 DEF Orphans
    <3> QED BY <1>0, <2>1, <2>3, <3>2 DEF Inv
  <2> QED BY <2>2, <2>3
<1>6. ASSUME NEW r \in Runs, Answering(r) PROVE Inv'
  <2>1. CASE exists BY <1>6, <2>1, InvAnswering
  <2>2. CASE ~exists
    <3>1. rows = <<>> BY <2>2 DEF Inv
    <3>2. rows' = <<>> /\ usage' = usage /\ UNCHANGED <<exists, roster>>
      BY <1>6, <2>2, <3>1, GoneQuiet
    <3> QED BY <1>0, <2>2, <3>2 DEF Inv
  <2> QED BY <2>1, <2>2
<1>7. CASE UNCHANGED vars BY <1>0, <1>7 DEF vars, Inv
<1> QED BY <1>2, <1>3, <1>4, <1>5, <1>6, <1>7 DEF Next

(* The inductive invariant holds of every behaviour. *)
LEMMA Invariant == Spec => [](TypeOK /\ Inv)
<1>1. Init => TypeOK /\ Inv BY TypeInit, InvInit
<1>2. TypeOK /\ Inv /\ [Next]_vars => (TypeOK /\ Inv)' BY TypeNext, InvNext DEF Inv
<1> QED BY <1>1, <1>2, PTL DEF Spec

-----------------------------------------------------------------------------
(* What follows. *)

(* The messages of a chat that is gone are gone. *)
LEMMA GoneEmpty ==
  ASSUME Inv, ~exists
  PROVE  \A r : TurnsOf(r) = {}
BY DEF Inv, TurnsOf

(* The in-flight messages are exactly the turns that streamed requests are *)
(* working on, and only a coordinator's delegate can be left behind        *)
(* (streamTeamChat, streamCoordinatorTeamChat).                            *)
THEOREM TurnsAreOwned == Spec => []TurnsOwned
<1>1. TypeOK /\ Inv => TurnsOwned
  <2> SUFFICES ASSUME TypeOK, Inv, exists
               PROVE  /\ \A n \in DOMAIN rows : rows[n].status \in InFlight =>
                           /\ rows[n].run # NoRun
                           /\ run[rows[n].run].row = n
                           /\ \/ Streaming(rows[n].run)
                              \/ /\ run[rows[n].run].end = "stranded"
                                 /\ run[rows[n].run].strategy = "coordinator"
                      /\ \A r \in Runs : Streaming(r) =>
                           /\ run[r].row \in TurnsOf(r) /\ LastOf(r, run[r].row)
                           /\ rows[run[r].row].status = (IF run[r].said THEN "streaming" ELSE "pending")
    BY DEF TurnsOwned
  <2>1. \A r : TurnsOf(r) = TurnsIn(r, rows) BY DEF TurnsOf, TurnsIn
  <2>2. \A r \in Runs : Own(r, run[r], rows, usage) BY DEF Inv
  <2>3. \A r : Streaming(r) <=> Works(run[r]) BY DEF Streaming, Works
  <2>4. ASSUME NEW n \in DOMAIN rows, rows[n].status \in InFlight
        PROVE  /\ rows[n].run # NoRun
               /\ run[rows[n].run].row = n
               /\ \/ Streaming(rows[n].run)
                  \/ /\ run[rows[n].run].end = "stranded"
                     /\ run[rows[n].run].strategy = "coordinator"
    <3>1. rows[n].run # NoRun BY <2>4 DEF Inv, Posted, TurnsIn, InFlight
    <3>2. rows[n].run \in Runs
      <4>1. rows[n] \in Row BY <2>4, ElementOfSeq DEF TypeOK
      <4> QED BY <3>1, <4>1 DEF Row
    <3>3. n \in TurnsIn(rows[n].run, rows) BY DEF TurnsIn
    <3> QED BY <2>2, <2>3, <2>4, <3>1, <3>2, <3>3 DEF Own
  <2>5. ASSUME NEW r \in Runs, Streaming(r)
        PROVE  /\ run[r].row \in TurnsOf(r) /\ LastOf(r, run[r].row)
               /\ rows[run[r].row].status = (IF run[r].said THEN "streaming" ELSE "pending")
    BY <2>1, <2>2, <2>3, <2>5 DEF Own, LastIn, LastOf
  <2> QED BY <2>4, <2>5
<1> QED BY <1>1, Invariant, PTL

(* The turns of one prompt follow its strategy and the roster it read, and *)
(* never exceed its limit (runTeamStrategy, getNextSpeaker).               *)
THEOREM TurnsAreInOrder == Spec => []TurnsFollowStrategy
<1>1. TypeOK /\ Inv => TurnsFollowStrategy
  <2> SUFFICES ASSUME TypeOK, Inv, NEW r \in Runs
               PROVE  LET u == run[r] IN
                      /\ Cardinality(TurnsOf(r)) <= (IF u.strategy = "coordinator" THEN 2 ELSE u.limit)
                      /\ \A n \in TurnsOf(r) :
                           /\ u.strategy \in {"sequential", "broadcast"} =>
                                rows[n].agent \in {u.members[TurnIn(r, n)], NoAgent}
                           /\ \A m \in TurnsOf(r) : TurnIn(r, n) = TurnIn(r, m) + 1 =>
                                rows[n].agent # rows[m].agent \/ rows[n].agent = NoAgent
    BY DEF TurnsFollowStrategy
  <2>1. run[r] \in Run /\ rows \in Seq(Row) BY DEF TypeOK
  <2>2. run[r].turn \in Nat /\ run[r].limit \in 1..10 BY <2>1, TeamAssumption DEF Run
  <2>3. CASE exists
    <3>1. Order(r, run[r], rows) BY <2>3 DEF Inv
    <3>2. TurnsOf(r) = TurnsIn(r, rows) /\ \A n : TurnIn(r, n) = Place(r, rows, n)
      BY DEF TurnsOf, TurnsIn, TurnIn, Place
    <3>3. Cardinality(TurnsIn(r, rows)) \in Nat BY <2>1, TurnsFinite
    <3>4. Cardinality(TurnsIn(r, rows)) <= Bound(run[r])
      BY <2>2, <3>1, <3>3 DEF Order, Bound
    <3> QED BY <3>1, <3>2, <3>4 DEF Order, Spoken, Bound, ByRoster
  <2>4. CASE ~exists
    <3>1. TurnsOf(r) = {} BY <2>4, GoneEmpty
    <3>2. Cardinality(TurnsOf(r)) = 0 BY <3>1, FS_EmptySet
    <3> QED BY <2>2, <3>1, <3>2
  <2> QED BY <2>3, <2>4
<1> QED BY <1>1, Invariant, PTL

(* Members of a broadcast answer independently; under every other strategy *)
(* a turn sees what was said before it (buildContext, maxSequence).        *)
THEOREM TurnsSeeWhatTheyShould == Spec => []TurnsSee
<1>1. TypeOK /\ Inv => TurnsSee
  <2> SUFFICES ASSUME TypeOK, Inv, NEW r \in Runs, NEW n \in TurnsOf(r), NEW m \in TurnsOf(r)
               PROVE  IF run[r].strategy = "broadcast" THEN m \notin rows[n].saw
                      ELSE m < n /\ rows[m].said => m \in rows[n].saw
    BY DEF TurnsSee
  <2>1. exists BY GoneEmpty
  <2>2. Sees(r, run[r], rows) BY <2>1 DEF Inv
  <2>3. n \in TurnsIn(r, rows) /\ m \in TurnsIn(r, rows) BY DEF TurnsOf, TurnsIn
  <2>4. CASE run[r].strategy = "broadcast"
    <3>1. m > run[r].upto /\ \A k \in rows[n].saw : k <= run[r].upto BY <2>2, <2>3, <2>4 DEF Sees
    <3>2. run[r].upto \in Nat /\ m \in Nat BY <2>3 DEF TypeOK, Run, TurnsIn
    <3> QED BY <2>4, <3>1, <3>2
  <2>5. CASE run[r].strategy # "broadcast" BY <2>2, <2>3, <2>5 DEF Sees
  <2> QED BY <2>4, <2>5
<1> QED BY <1>1, Invariant, PTL

(* A message charged at most once is charged or not. *)
LEMMA ChargesCounted ==
  ASSUME NEW us \in Seq(Nat), NEW n, \A i, j \in DOMAIN us : us[i] = us[j] => i = j
  PROVE  LET charges == Cardinality({i \in DOMAIN us : us[i] = n}) IN
         charges = IF Charged(us, n) THEN 1 ELSE 0
<1>1. CASE Charged(us, n)
  <2>1. PICK i \in DOMAIN us : us[i] = n BY <1>1 DEF Charged
  <2>2. {j \in DOMAIN us : us[j] = n} = {i} BY <2>1
  <2>3. Cardinality({i}) = 1 BY FS_Singleton
  <2> QED BY <1>1, <2>2, <2>3
<1>2. CASE ~Charged(us, n)
  <2>1. {j \in DOMAIN us : us[j] = n} = {} BY <1>2 DEF Charged
  <2> QED BY <1>2, <2>1, FS_EmptySet
<1> QED BY <1>1, <1>2

(* Every turn but the last of a prompt is complete and charged once, the   *)
(* last exactly when it is complete and was neither cut nor dropped        *)
(* (persistResponse, finalizeStreamingMessage).                            *)
THEOREM TurnsAreKept == Spec => []TurnsKept
<1>1. TypeOK /\ Inv => TurnsKept
  <2> SUFFICES ASSUME TypeOK, Inv, exists, NEW r \in Runs, NEW n \in TurnsOf(r)
               PROVE  LET charges == Cardinality({i \in DOMAIN usage : usage[i] = n})
                          ended   == LastOf(r, n) /\ (Streaming(r)
                                       \/ run[r].end \in {"failed", "cut", "dropped", "stranded"})
                      IN  /\ charges <= 1
                          /\ charges = 1 => rows[n].status = "complete"
                          /\ ~ended => rows[n].status = "complete" /\ charges = 1
    BY DEF TurnsKept
  <2> DEFINE charges == Cardinality({i \in DOMAIN usage : usage[i] = n})
  <2>1. charges = IF Charged(usage, n) THEN 1 ELSE 0 BY ChargesCounted DEF TypeOK, Inv
  <2>2. Own(r, run[r], rows, usage) /\ Ledger(rows, usage) BY DEF Inv
  <2>3. TurnsOf(r) = TurnsIn(r, rows) BY DEF TurnsOf, TurnsIn
  <2>4. Charged(usage, n) => rows[n].status = "complete" BY <2>2 DEF Ledger, Charged
  <2>5. LastOf(r, n) <=> LastIn(r, rows, n) BY <2>3 DEF LastOf, LastIn
  <2>6. Broken(run[r]) <=> Streaming(r) \/ run[r].end \in {"failed", "cut", "dropped", "stranded"}
    BY DEF Broken, Works, Streaming
  <2>7. ~(LastOf(r, n) /\ Broken(run[r])) => rows[n].status = "complete" /\ Charged(usage, n)
    BY <2>2, <2>3, <2>5 DEF Own
  <2> HIDE DEF charges
  <2>8. /\ charges <= 1
        /\ charges = 1 => rows[n].status = "complete"
        /\ ~(LastOf(r, n) /\ Broken(run[r])) => rows[n].status = "complete" /\ charges = 1
    BY <2>1, <2>4, <2>7
  <2> QED BY <2>6, <2>8 DEF charges
<1> QED BY <1>1, Invariant, PTL
=============================================================================
