--------------------------- MODULE StreamsProofs ----------------------------
(***************************************************************************)
(* What holds of a streamed request for any number of frames, whatever is  *)
(* in them, and however their text is cut into reads: the events are those *)
(* of the frames that arrived, and a failure is told as what it was.       *)
(***************************************************************************)
EXTENDS Streams, SequenceTheorems, FiniteSetTheorems, WellFoundedInduction, TLAPS

-----------------------------------------------------------------------------
(* Induction: a set of numbers in place of a predicate. *)

(* Some number is the least of a set. *)
LEMMA Least ==
  ASSUME NEW T, T \subseteq Nat, T # {}
  PROVE  \E x \in T : \A y \in T : x <= y
<1> DEFINE R == {p \in Nat \X Nat : p[1] < p[2]}
<1>1. IsWellFoundedOn(R, Nat)
  <2>1. R = OpToRel(<, Nat) BY DEF OpToRel
  <2> QED BY <2>1, NatLessThanWellFounded
<1>2. PICK x \in T : \A y \in T : ~ (<<y, x>> \in R) BY <1>1, WFMin
<1>3. ASSUME NEW y \in T, ~(x <= y) PROVE FALSE
  <2>1. <<y, x>> \in R BY <1>3
  <2> QED BY <1>2, <2>1
<1> QED BY <1>3

(* What has 0, and of every number the next, has them all. *)
LEMMA Upward ==
  ASSUME NEW P, NEW n \in Nat, 0 \in P, \A k \in 0..n : k \in P /\ k < n => k + 1 \in P
  PROVE  \A k \in 0..n : k \in P
<1> DEFINE T == {k \in 0..n : k \notin P}
<1>1. SUFFICES ASSUME T # {} PROVE FALSE OBVIOUS
<1>2. T \subseteq Nat OBVIOUS
<1>3. PICK k \in T : \A j \in T : k <= j
  <2> HIDE DEF T
  <2> QED BY <1>1, <1>2, Least
<1>4. k # 0 /\ k \in 0..n BY <1>3
<1>5. k - 1 \in 0..n /\ k - 1 < n /\ k - 1 \notin T
  <2>1. ~(k <= k - 1) BY <1>4
  <2> HIDE DEF T
  <2> QED BY <1>3, <1>4, <2>1
<1>6. k - 1 \in P BY <1>5
<1> QED BY <1>3, <1>4, <1>5, <1>6

(* What the first has, and with one the next, all values have. *)
LEMMA StaysIn ==
  ASSUME NEW S, NEW n \in Nat, NEW F, F[0] \in S, \A k \in 1..n : F[k - 1] \in S => F[k] \in S
  PROVE  \A k \in 0..n : F[k] \in S
<1> DEFINE P == {k \in 0..n : F[k] \in S}
<1>1. 0 \in P OBVIOUS
<1>2. ASSUME NEW k \in 0..n, k \in P, k < n PROVE k + 1 \in P
  <2>1. k + 1 \in 1..n /\ F[(k + 1) - 1] = F[k] BY <1>2
  <2> QED BY <1>2, <2>1
<1> HIDE DEF P
<1>3. \A k \in 0..n : k \in P BY <1>1, <1>2, Upward
<1> QED BY <1>3 DEF P

(* A function is determined by its first value and what follows a value. *)
Steps(f, n, base, g) == f = [k \in 0..n |-> IF k = 0 THEN base ELSE g[<<f[k - 1], k>>]]

LEMMA Recursion ==
  ASSUME NEW S, NEW n \in Nat, NEW base \in S, NEW g \in [S \X (1..n) -> S]
  PROVE  \E f \in [0..n -> S] : Steps(f, n, base, g)
<1> DEFINE P == {k \in 0..n : \E f \in [0..k -> S] : Steps(f, k, base, g)}
<1>1. 0 \in P
  <2>1. [k \in 0..0 |-> base] \in [0..0 -> S] /\ Steps([k \in 0..0 |-> base], 0, base, g) BY DEF Steps
  <2> QED BY <2>1
<1>2. ASSUME NEW k \in 0..n, k \in P, k < n PROVE k + 1 \in P
  <2>1. PICK f \in [0..k -> S] : Steps(f, k, base, g) BY <1>2
  <2> DEFINE h == [i \in 0..(k + 1) |-> IF i = k + 1 THEN g[<<f[k], k + 1>>] ELSE f[i]]
  <2>2. g[<<f[k], k + 1>>] \in S
    <3>1. <<f[k], k + 1>> \in S \X (1..n) BY <1>2
    <3> QED BY <3>1
  <2>3. h \in [0..(k + 1) -> S] BY <2>2
  <2>4. h[k + 1] = g[<<f[k], k + 1>>] /\ \A i \in 0..k : h[i] = f[i] OBVIOUS
  <2>5. ASSUME NEW i \in 0..(k + 1) PROVE h[i] = IF i = 0 THEN base ELSE g[<<h[i - 1], i>>]
    <3> HIDE DEF h
    <3>1. CASE i = k + 1
      <4>1. i # 0 /\ i - 1 = k /\ k \in 0..k BY <3>1
      <4>2. h[i - 1] = f[k] BY <2>4, <4>1
      <4> QED BY <2>4, <3>1, <4>1, <4>2
    <3>2. CASE i # k + 1
      <4>1. i \in 0..k /\ (i # 0 => i - 1 \in 0..k) BY <3>2
      <4>2. f[i] = IF i = 0 THEN base ELSE g[<<f[i - 1], i>>] BY <2>1, <4>1 DEF Steps
      <4>3. h[i] = f[i] /\ (i # 0 => h[i - 1] = f[i - 1]) BY <2>4, <4>1
      <4> QED BY <4>2, <4>3
    <3> QED BY <3>1, <3>2
  <2>6. Steps(h, k + 1, base, g)
    <3> HIDE DEF h
    <3>1. h = [i \in 0..(k + 1) |-> h[i]] BY <2>3
    <3> QED BY <2>5, <3>1 DEF Steps
  <2>7. k + 1 \in 0..n BY <1>2
  <2> HIDE DEF h
  <2> QED BY <2>3, <2>6, <2>7
<1> HIDE DEF P
<1>3. n \in P BY <1>1, <1>2, Upward
<1> QED BY <1>3 DEF P

-----------------------------------------------------------------------------
(* The first rule that applies. *)

LEMMA FirstAny ==
  ASSUME NEW rules, NEW n \in Nat, DOMAIN rules = 1..n, NEW j \in 1..n, rules[j][1]
  PROVE  \E k \in 1..n : /\ FirstMatch(rules) = rules[k][2] /\ rules[k][1]
                         /\ \A i \in 1..(k - 1) : ~rules[i][1]
<1> DEFINE T == {k \in 1..n : rules[k][1]}
           First(k) == k \in DOMAIN rules /\ rules[k][1] /\ \A i \in 1..(k - 1) : ~rules[i][1]
<1>1. T \subseteq Nat /\ T # {} OBVIOUS
<1>2. PICK k \in T : \A i \in T : k <= i
  <2> HIDE DEF T
  <2> QED BY <1>1, Least
<1>3. First(k)
  <2>1. ASSUME NEW i \in 1..(k - 1) PROVE ~rules[i][1]
    <3>1. i \in 1..n /\ ~(k <= i) BY <1>2
    <3> QED BY <1>2, <3>1
  <2> QED BY <1>2, <2>1
<1> DEFINE c == CHOOSE i \in DOMAIN rules : rules[i][1] /\ \A h \in 1..(i - 1) : ~rules[h][1]
<1>4. First(c) BY <1>3, Zenon
<1>5. FirstMatch(rules) = rules[c][2] BY DEF FirstMatch
<1> HIDE DEF c
<1> QED BY <1>4, <1>5

LEMMA FirstMatched ==
  ASSUME NEW rules, NEW n \in Nat \ {0}, DOMAIN rules = 1..n, rules[n][1]
  PROVE  \E k \in 1..n : /\ FirstMatch(rules) = rules[k][2] /\ rules[k][1]
                         /\ \A i \in 1..(k - 1) : ~rules[i][1]
<1>1. n \in Nat /\ n \in 1..n OBVIOUS
<1> QED BY <1>1, FirstAny

LEMMA FirstIs ==
  ASSUME NEW rules, NEW n \in Nat, DOMAIN rules = 1..n, NEW k \in 1..n, rules[k][1],
         \A j \in 1..(k - 1) : ~rules[j][1]
  PROVE  FirstMatch(rules) = rules[k][2]
<1> DEFINE First(i) == i \in DOMAIN rules /\ rules[i][1] /\ \A j \in 1..(i - 1) : ~rules[j][1]
           c == CHOOSE i : First(i)
<1>1. First(k) OBVIOUS
<1>2. First(c) BY <1>1
<1>3. c = k
  <2>1. ~(c < k)
    <3>1. SUFFICES ASSUME c < k PROVE FALSE OBVIOUS
    <3>2. c \in 1..(k - 1) /\ rules[c][1] BY <1>2, <3>1
    <3> QED BY <3>2
  <2>2. ~(k < c)
    <3>1. SUFFICES ASSUME k < c PROVE FALSE OBVIOUS
    <3>2. k \in 1..(c - 1) /\ \A j \in 1..(c - 1) : ~rules[j][1] BY <1>2, <3>1
    <3> QED BY <3>2
  <2>3. c \in 1..n BY <1>2
  <2> QED BY <2>1, <2>2, <2>3
<1>4. FirstMatch(rules) = rules[c][2] BY Zenon DEF FirstMatch
<1> QED BY <1>3, <1>4

LEMMA FirstOne ==
  ASSUME NEW rules, NEW n \in Nat \ {0}, DOMAIN rules = 1..n, rules[1][1]
  PROVE  FirstMatch(rules) = rules[1][2]
<1> DEFINE k == 1
<1>1. n \in Nat /\ k \in 1..n /\ rules[k][1] /\ \A j \in 1..(k - 1) : ~rules[j][1] OBVIOUS
<1> HIDE DEF k
<1>2. FirstMatch(rules) = rules[k][2] BY <1>1, FirstIs
<1> QED BY <1>2 DEF k

LEMMA FirstOfFive ==
  ASSUME NEW rules, DOMAIN rules = 1..5, rules[5][1]
  PROVE  FirstMatch(rules) = IF rules[1][1] THEN rules[1][2] ELSE IF rules[2][1] THEN rules[2][2]
                             ELSE IF rules[3][1] THEN rules[3][2] ELSE IF rules[4][1] THEN rules[4][2]
                             ELSE rules[5][2]
<1> DEFINE n == 5
<1>1. n \in Nat \ {0} /\ DOMAIN rules = 1..n /\ rules[n][1] OBVIOUS
<1> HIDE DEF n
<1>2. PICK k \in 1..n : /\ FirstMatch(rules) = rules[k][2] /\ rules[k][1]
                        /\ \A i \in 1..(k - 1) : ~rules[i][1]
  BY <1>1, FirstMatched
<1>3. k = 1 \/ k = 2 \/ k = 3 \/ k = 4 \/ k = 5 BY DEF n
<1>4. CASE k = 1 BY <1>2, <1>4
<1>5. CASE k = 2
  <2>1. 1 \in 1..(k - 1) BY <1>5
  <2> QED BY <1>2, <1>5, <2>1
<1>6. CASE k = 3
  <2>1. 1 \in 1..(k - 1) /\ 2 \in 1..(k - 1) BY <1>6
  <2> QED BY <1>2, <1>6, <2>1
<1>7. CASE k = 4
  <2>1. 1 \in 1..(k - 1) /\ 2 \in 1..(k - 1) /\ 3 \in 1..(k - 1) BY <1>7
  <2> QED BY <1>2, <1>7, <2>1
<1>8. CASE k = 5
  <2>1. 1 \in 1..(k - 1) /\ 2 \in 1..(k - 1) /\ 3 \in 1..(k - 1) /\ 4 \in 1..(k - 1) BY <1>8
  <2> QED BY <1>2, <1>8, <2>1
<1> QED BY <1>3, <1>4, <1>5, <1>6, <1>7, <1>8

-----------------------------------------------------------------------------
(* What has been said only grows. *)

LEMMA PrefixSame ==
  ASSUME NEW S, NEW s \in Seq(S) PROVE IsPrefix(s, s)
BY DEF IsPrefix

LEMMA PrefixThen ==
  ASSUME NEW S, NEW s \in Seq(S), NEW t \in Seq(S) PROVE s \o t \in Seq(S) /\ IsPrefix(s, s \o t)
<1>1. s \o t \in Seq(S) /\ Len(s \o t) = Len(s) + Len(t) /\ Len(s) \in Nat /\ Len(t) \in Nat OBVIOUS
<1>2. SubSeq(s, 1, Len(s)) = SubSeq(s \o t, 1, Len(s)) OBVIOUS
<1> QED BY <1>1, <1>2 DEF IsPrefix

LEMMA PrefixElements ==
  ASSUME NEW S, NEW s \in Seq(S), NEW t \in Seq(S)
  PROVE  IsPrefix(s, t) <=> Len(s) <= Len(t) /\ \A k \in 1..Len(s) : s[k] = t[k]
<1>1. ASSUME IsPrefix(s, t), NEW k \in 1..Len(s) PROVE s[k] = t[k]
  <2>1. Len(s) <= Len(t) /\ SubSeq(s, 1, Len(s)) = SubSeq(t, 1, Len(s)) BY <1>1 DEF IsPrefix
  <2>2. SubSeq(s, 1, Len(s))[k] = s[k] OBVIOUS
  <2>3. SubSeq(t, 1, Len(s))[k] = t[k] BY <2>1
  <2> QED BY <2>1, <2>2, <2>3
<1>2. ASSUME Len(s) <= Len(t), \A k \in 1..Len(s) : s[k] = t[k] PROVE IsPrefix(s, t)
  <2>1. SubSeq(s, 1, Len(s)) = SubSeq(t, 1, Len(s)) BY <1>2
  <2> QED BY <1>2, <2>1 DEF IsPrefix
<1>3. IsPrefix(s, t) => Len(s) <= Len(t) BY DEF IsPrefix
<1> QED BY <1>1, <1>2, <1>3

LEMMA PrefixOn ==
  ASSUME NEW S, NEW s \in Seq(S), NEW t \in Seq(S), NEW u \in Seq(S), IsPrefix(s, t), IsPrefix(t, u)
  PROVE  IsPrefix(s, u)
<1>1. Len(s) <= Len(t) /\ \A k \in 1..Len(s) : s[k] = t[k] BY PrefixElements
<1>2. Len(t) <= Len(u) /\ \A k \in 1..Len(t) : t[k] = u[k] BY PrefixElements
<1>3. Len(s) <= Len(u) /\ \A k \in 1..Len(s) : s[k] = u[k] BY <1>1, <1>2
<1> QED BY <1>3, PrefixElements

-----------------------------------------------------------------------------
(* Frames, events and what a stream has said: their types. *)

Counts == Nat \cup {None}
SomeFrame ==
  [n : 0..MaxFrames, model : BOOLEAN, thought : BOOLEAN, text : BOOLEAN, finish : WireReasons \cup {None},
   tin : Counts, tout : Counts, flag : Flags, hint : Hints]
Types == {"thought", "text", "usage", "error", "complete"}
Endings == Reasons \cup Codes \cup {None}
SomeEvent == [type : Types, of : 0..MaxFrames, finish : Endings, tin : Counts, tout : Counts]
Told ==
  [model : 0..MaxFrames, finish : Reasons, tin : Counts, tout : Counts, completed : BOOLEAN, out : Seq(SomeEvent)]

LEMMA NoiseType == Noise \in SomeFrame
BY StreamsAssumption DEF Noise, SomeFrame, Counts, Flags, Hints

LEMMA FreshType == \A ad : Fresh(ad) \in Told /\ Fresh(ad).out = <<>>
BY StreamsAssumption DEF Fresh, Told, Counts, Reasons

(* The stream goes on from one state to the next. *)
Goes(old, new) == new \in Told /\ IsPrefix(old.out, new.out)

LEMMA GoesOn ==
  ASSUME NEW a \in Told, NEW b, NEW c, Goes(a, b), Goes(b, c) PROVE Goes(a, c)
<1>1. a.out \in Seq(SomeEvent) /\ b.out \in Seq(SomeEvent) /\ c.out \in Seq(SomeEvent) BY DEF Goes, Told
<1>2. IsPrefix(a.out, c.out) BY <1>1, PrefixOn DEF Goes
<1> QED BY <1>2 DEF Goes

LEMMA GoesNowhere == ASSUME NEW a \in Told PROVE Goes(a, a)
<1>1. a.out \in Seq(SomeEvent) BY DEF Told
<1>2. IsPrefix(a.out, a.out) BY <1>1, PrefixSame
<1> QED BY <1>2 DEF Goes

(* A change of anything but the events. *)
LEMMA GoesSilent ==
  ASSUME NEW a \in Told, NEW b \in Told, b.out = a.out PROVE Goes(a, b)
BY GoesNowhere DEF Goes

LEMMA GoesSay ==
  ASSUME NEW a \in Told, NEW events \in Seq(SomeEvent)
  PROVE  Goes(a, Say(a, events))
<1>1. a.out \in Seq(SomeEvent) BY DEF Told
<1>2. a.out \o events \in Seq(SomeEvent) /\ IsPrefix(a.out, a.out \o events) BY <1>1, PrefixThen
<1>3. Say(a, events) \in Told /\ Say(a, events).out = a.out \o events BY <1>2 DEF Say, Told
<1> QED BY <1>2, <1>3 DEF Goes

LEMMA OneOf == ASSUME NEW S, NEW e \in S PROVE <<e>> \in Seq(S)
OBVIOUS

LEMMA EventsType ==
  ASSUME NEW a \in Told, NEW fr \in SomeFrame, NEW code \in Codes
  PROVE  /\ Thought(fr) \in Seq(SomeEvent) /\ Text(fr) \in Seq(SomeEvent) /\ Failed(code) \in Seq(SomeEvent)
         /\ Usage(a) \in Seq(SomeEvent) /\ Complete(a) \in Seq(SomeEvent)
<1>1. ASSUME NEW type \in Types, NEW of \in 0..MaxFrames, NEW finish \in Endings,
             NEW tin \in Counts, NEW tout \in Counts
      PROVE  <<Event(type, of, finish, tin, tout)>> \in Seq(SomeEvent)
  <2>1. Event(type, of, finish, tin, tout) \in SomeEvent BY DEF Event, SomeEvent
  <2> QED BY <2>1, OneOf
<1>2. /\ fr.n \in 0..MaxFrames /\ 0 \in 0..MaxFrames /\ None \in Counts /\ <<>> \in Seq(SomeEvent)
      /\ None \in Endings /\ code \in Endings
  BY StreamsAssumption DEF SomeFrame, Counts, Endings
<1>3. a.model \in 0..MaxFrames /\ a.finish \in Endings /\ a.tin \in Counts /\ a.tout \in Counts
  BY DEF Told, Endings
<1>4. Types = {"thought", "text", "usage", "error", "complete"} BY DEF Types
<1>5. Thought(fr) \in Seq(SomeEvent)
  <2>1. <<Event("thought", fr.n, None, None, None)>> \in Seq(SomeEvent) BY <1>1, <1>2, <1>4
  <2> QED BY <1>2, <2>1 DEF Thought
<1>6. Text(fr) \in Seq(SomeEvent)
  <2>1. <<Event("text", fr.n, None, None, None)>> \in Seq(SomeEvent) BY <1>1, <1>2, <1>4
  <2> QED BY <1>2, <2>1 DEF Text
<1>7. Failed(code) \in Seq(SomeEvent) BY <1>1, <1>2, <1>4 DEF Failed
<1>8. Usage(a) \in Seq(SomeEvent) BY <1>1, <1>2, <1>3, <1>4 DEF Usage
<1>9. Complete(a) \in Seq(SomeEvent) BY <1>1, <1>2, <1>3, <1>4 DEF Complete
<1> QED BY <1>5, <1>6, <1>7, <1>8, <1>9

LEMMA GoesFinish ==
  ASSUME NEW a \in Told PROVE Goes(a, Finish(a))
<1>1. Complete(a) \in Seq(SomeEvent)
  <2>1. "INVALID_REQUEST" \in Codes BY DEF Codes
  <2> QED BY <2>1, EventsType, NoiseType
<1>2. Say(a, Complete(a)) \in Told /\ IsPrefix(a.out, Say(a, Complete(a)).out) BY <1>1, GoesSay DEF Goes
<1>3. Finish(a) = [Say(a, Complete(a)) EXCEPT !.completed = TRUE] BY DEF Finish, Say, Told
<1>4. Finish(a) \in Told /\ Finish(a).out = Say(a, Complete(a)).out BY <1>2, <1>3 DEF Told
<1> QED BY <1>2, <1>4 DEF Goes

LEMMA GoesNamed ==
  ASSUME NEW a \in Told, NEW fr \in SomeFrame PROVE Goes(a, Named(a, fr))
<1>1. [a EXCEPT !.model = fr.n] \in Told /\ [a EXCEPT !.model = fr.n].out = a.out BY DEF Told, SomeFrame
<1>2. Goes(a, [a EXCEPT !.model = fr.n]) BY <1>1, GoesSilent
<1> QED BY <1>2, GoesNowhere DEF Named

LEMMA GoesReason ==
  ASSUME NEW a \in Told, NEW reason \in Reasons PROVE Goes(a, [a EXCEPT !.finish = reason])
<1>1. [a EXCEPT !.finish = reason] \in Told /\ [a EXCEPT !.finish = reason].out = a.out BY DEF Told
<1> QED BY <1>1, GoesSilent

LEMMA GoesCounts ==
  ASSUME NEW a \in Told, NEW tin \in Counts, NEW tout \in Counts
  PROVE  Goes(a, [a EXCEPT !.tin = tin, !.tout = tout]) /\ Goes(a, [a EXCEPT !.tout = tout])
<1>1. /\ [a EXCEPT !.tin = tin, !.tout = tout] \in Told /\ [a EXCEPT !.tin = tin, !.tout = tout].out = a.out
      /\ [a EXCEPT !.tout = tout] \in Told /\ [a EXCEPT !.tout = tout].out = a.out
  BY DEF Told
<1> QED BY <1>1, GoesSilent

LEMMA CountsOr0 == \A count \in Counts : Or0(count) \in Counts
BY DEF Counts, Or0

LEMMA GoesReplaced ==
  ASSUME NEW a \in Told, NEW fr \in SomeFrame PROVE Goes(a, Replaced(a, fr))
<1>1. Or0(fr.tin) \in Counts /\ Or0(fr.tout) \in Counts BY CountsOr0 DEF SomeFrame
<1>2. Goes(a, [a EXCEPT !.tin = Or0(fr.tin), !.tout = Or0(fr.tout)]) BY <1>1, GoesCounts
<1> QED BY <1>2, GoesNowhere DEF Replaced

LEMMA GoesMerged ==
  ASSUME NEW a \in Told, NEW fr \in SomeFrame PROVE Goes(a, Merged(a, fr))
<1> DEFINE tin == IF fr.tin # None THEN fr.tin ELSE a.tin
           tout == IF fr.tout # None THEN fr.tout ELSE a.tout
<1>1. tin \in Counts /\ tout \in Counts BY DEF SomeFrame, Told
<1>2. Merged(a, fr) = [a EXCEPT !.tin = tin, !.tout = tout] BY DEF Merged, Told
<1> HIDE DEF tin, tout
<1> QED BY <1>1, <1>2, GoesCounts

(* Every way to say why a reply finished is one the adapters report. *)
LEMMA ReasonsType ==
  ASSUME NEW reason
  PROVE  /\ openaiReason(reason) \in Reasons /\ anthropicReason(reason) \in Reasons
         /\ googleReason(reason) \in Reasons /\ ollamaReason(reason) \in Reasons
<1>1. openaiReason(reason) \in Reasons
  <2> DEFINE rules == << <<reason = "end", "stop">>, <<reason = "limit", "length">>, <<reason = "tools", "tool_calls">>,
                         <<reason = "filter", "content_filter">>, <<TRUE, "other">> >>
             n == 5
  <2>1. openaiReason(reason) = FirstMatch(rules) BY DEF openaiReason
  <2>2. n \in Nat \ {0} /\ DOMAIN rules = 1..n /\ rules[n][1] OBVIOUS
  <2>3. \A k \in 1..n : rules[k][2] \in Reasons BY DEF Reasons
  <2> HIDE DEF rules, n
  <2> QED BY <2>1, <2>2, <2>3, FirstMatched
<1>2. anthropicReason(reason) \in Reasons
  <2> DEFINE rules == << <<reason = "end", "stop">>, <<reason = "limit", "length">>,
                         <<reason = "tools", "tool_calls">>, <<TRUE, "other">> >>
             n == 4
  <2>1. anthropicReason(reason) = FirstMatch(rules) BY DEF anthropicReason
  <2>2. n \in Nat \ {0} /\ DOMAIN rules = 1..n /\ rules[n][1] OBVIOUS
  <2>3. \A k \in 1..n : rules[k][2] \in Reasons BY DEF Reasons
  <2> HIDE DEF rules, n
  <2> QED BY <2>1, <2>2, <2>3, FirstMatched
<1>3. googleReason(reason) \in Reasons
  <2> DEFINE rules == << <<reason = "end", "stop">>, <<reason = "limit", "length">>,
                         <<reason = "filter", "content_filter">>, <<TRUE, "other">> >>
             n == 4
  <2>1. googleReason(reason) = FirstMatch(rules) BY DEF googleReason
  <2>2. n \in Nat \ {0} /\ DOMAIN rules = 1..n /\ rules[n][1] OBVIOUS
  <2>3. \A k \in 1..n : rules[k][2] \in Reasons BY DEF Reasons
  <2> HIDE DEF rules, n
  <2> QED BY <2>1, <2>2, <2>3, FirstMatched
<1>4. ollamaReason(reason) \in Reasons BY DEF ollamaReason, Reasons
<1> QED BY <1>1, <1>2, <1>3, <1>4

(* Every way to tell of a failure is a code, and none says that the caller *)
(* stopped.                                                                *)
LEMMA ErrorsTyped ==
  ASSUME NEW status, NEW hint
  PROVE  /\ openaiError(status, hint) \in Codes \ {"REQUEST_ABORTED"}
         /\ anthropicError(status, hint) \in Codes \ {"REQUEST_ABORTED"}
         /\ googleError(status, hint) \in Codes \ {"REQUEST_ABORTED"}
         /\ ollamaError(status, hint) \in Codes \ {"REQUEST_ABORTED"}
<1> DEFINE Thrown == Codes \ {"REQUEST_ABORTED"}
<1>1. openaiError(status, hint) \in Thrown
  <2> DEFINE rules == << <<status \in {401, 403} \/ hint = "auth", "AUTHENTICATION_FAILED">>,
                         <<status = 404 \/ hint = "missing", "MODEL_NOT_FOUND">>,
                         <<status = 429 \/ hint = "limit", "RATE_LIMIT_EXCEEDED">>,
                         <<hint = "context", "CONTEXT_LENGTH_EXCEEDED">>,
                         <<status = 400 \/ hint = "invalid", "INVALID_REQUEST">>,
                         <<status \in {405, 501}, "UNSUPPORTED_CAPABILITY">>,
                         <<TRUE, "PROVIDER_UNAVAILABLE">> >>
             n == 7
  <2>1. openaiError(status, hint) = FirstMatch(rules) BY DEF openaiError
  <2>2. n \in Nat \ {0} /\ DOMAIN rules = 1..n /\ rules[n][1] OBVIOUS
  <2>3. \A k \in 1..n : rules[k][2] \in Thrown BY DEF Codes
  <2> HIDE DEF rules, n, Thrown
  <2> QED BY <2>1, <2>2, <2>3, FirstMatched
<1>2. anthropicError(status, hint) \in Thrown /\ googleError(status, hint) \in Thrown
  <2> DEFINE rules == << <<status \in {401, 403} \/ hint = "auth", "AUTHENTICATION_FAILED">>,
                         <<status = 404 \/ hint = "missing", "MODEL_NOT_FOUND">>,
                         <<status = 429 \/ hint = "limit", "RATE_LIMIT_EXCEEDED">>,
                         <<hint = "context", "CONTEXT_LENGTH_EXCEEDED">>,
                         <<status = 400 \/ hint = "invalid", "INVALID_REQUEST">>,
                         <<TRUE, "PROVIDER_UNAVAILABLE">> >>
             n == 6
  <2>1. anthropicError(status, hint) = FirstMatch(rules) BY DEF anthropicError
  <2>2. googleError(status, hint) = FirstMatch(rules) BY DEF googleError
  <2>3. n \in Nat \ {0} /\ DOMAIN rules = 1..n /\ rules[n][1] OBVIOUS
  <2>4. \A k \in 1..n : rules[k][2] \in Thrown BY DEF Codes
  <2> HIDE DEF rules, n, Thrown
  <2>5. FirstMatch(rules) \in Thrown BY <2>3, <2>4, FirstMatched
  <2> QED BY <2>1, <2>2, <2>5
<1>3. ollamaError(status, hint) \in Thrown
  <2> DEFINE rules == << <<status = 404 \/ hint = "missing", "MODEL_NOT_FOUND">>,
                         <<hint = "loading", "PROVIDER_UNAVAILABLE">>,
                         <<hint = "context", "CONTEXT_LENGTH_EXCEEDED">>,
                         <<status = 429, "RATE_LIMIT_EXCEEDED">>,
                         <<status = 400, "INVALID_REQUEST">>,
                         <<TRUE, "PROVIDER_UNAVAILABLE">> >>
             n == 6
  <2>1. ollamaError(status, hint) = FirstMatch(rules) BY DEF ollamaError
  <2>2. n \in Nat \ {0} /\ DOMAIN rules = 1..n /\ rules[n][1] OBVIOUS
  <2>3. \A k \in 1..n : rules[k][2] \in Thrown BY DEF Codes
  <2> HIDE DEF rules, n, Thrown
  <2> QED BY <2>1, <2>2, <2>3, FirstMatched
<1> QED BY <1>1, <1>2, <1>3

LEMMA GoesFailed ==
  ASSUME NEW a \in Told, NEW code \in Codes PROVE Goes(a, Say(a, Failed(code)))
BY EventsType, NoiseType, GoesSay

LEMMA GoesUsage ==
  ASSUME NEW a \in Told PROVE Goes(a, Say(a, Usage(a)))
<1>1. "INVALID_REQUEST" \in Codes BY DEF Codes
<1>2. Usage(a) \in Seq(SomeEvent) BY <1>1, EventsType, NoiseType
<1> QED BY <1>2, GoesSay

(* Thought and text, in either order. *)
LEMMA GoesTold ==
  ASSUME NEW a \in Told, NEW fr \in SomeFrame
  PROVE  /\ Goes(a, Say(a, Text(fr))) /\ Goes(a, Say(a, Thought(fr)))
         /\ Goes(a, Say(a, Thought(fr) \o Text(fr)))
         /\ \A c \in BOOLEAN : Goes(a, Say(a, (IF c THEN Usage(a) ELSE <<>>) \o Text(fr) \o Thought(fr)))
<1>1. "INVALID_REQUEST" \in Codes BY DEF Codes
<1>2. Thought(fr) \in Seq(SomeEvent) /\ Text(fr) \in Seq(SomeEvent) /\ Usage(a) \in Seq(SomeEvent)
  BY <1>1, EventsType
<1>3. Thought(fr) \o Text(fr) \in Seq(SomeEvent) BY <1>2
<1>4. \A c \in BOOLEAN : (IF c THEN Usage(a) ELSE <<>>) \o Text(fr) \o Thought(fr) \in Seq(SomeEvent)
  <2>1. ASSUME NEW c \in BOOLEAN PROVE (IF c THEN Usage(a) ELSE <<>>) \in Seq(SomeEvent) BY <1>2
  <2>2. \A u \in Seq(SomeEvent) : u \o Text(fr) \o Thought(fr) \in Seq(SomeEvent) BY <1>2
  <2> QED BY <2>1, <2>2
<1> QED BY <1>2, <1>3, <1>4, GoesSay

LEMMA openaiGoes ==
  ASSUME NEW a \in Told, NEW fr \in SomeFrame
  PROVE  Goes(a, openaiFrame(a, fr)) /\ (fr.flag = "junk" => openaiFrame(a, fr) = a)
<1> DEFINE counted == Replaced(Named(a, fr), fr)
           said == Say(counted, (IF Counted(fr) THEN Usage(counted) ELSE <<>>) \o Text(fr) \o Thought(fr))
           error == Say(a, Failed(openaiError(500, fr.hint)))
           told == Reasoned(said, fr, openaiReason)
           rules == << <<fr.flag = "junk", a>>, <<fr.flag = "done", Finish(a)>>,
                       <<fr.flag \in {"error", "blocked"}, error>>, <<TRUE, told>> >>
           n == 4
<1>1. openaiFrame(a, fr) = FirstMatch(rules) BY DEF openaiFrame
<1>2. Goes(a, counted)
  <2>1. Goes(a, Named(a, fr)) BY GoesNamed
  <2>2. Named(a, fr) \in Told BY <2>1 DEF Goes
  <2>3. Goes(Named(a, fr), counted) BY <2>2, GoesReplaced
  <2> QED BY <2>1, <2>3, GoesOn
<1> HIDE DEF counted
<1>3. Goes(a, said)
  <2>1. counted \in Told BY <1>2 DEF Goes
  <2>2. Counted(fr) \in BOOLEAN BY DEF Counted
  <2>3. Goes(counted, said) BY <2>1, <2>2, GoesTold
  <2> HIDE DEF said
  <2> QED BY <1>2, <2>3, GoesOn
<1> HIDE DEF said
<1>4. Goes(a, told)
  <2>1. said \in Told BY <1>3 DEF Goes
  <2>2. Goes(said, [said EXCEPT !.finish = openaiReason(fr.finish)]) BY <2>1, ReasonsType, GoesReason
  <2>3. Goes(said, told) BY <2>1, <2>2, GoesNowhere DEF Reasoned
  <2> HIDE DEF told
  <2> QED BY <1>3, <2>3, GoesOn
<1>5. Goes(a, error) BY ErrorsTyped, GoesFailed
<1>6. Goes(a, Finish(a)) /\ Goes(a, a) BY GoesFinish, GoesNowhere
<1> HIDE DEF error, told
<1>7. n \in Nat \ {0} /\ DOMAIN rules = 1..n /\ rules[n][1] OBVIOUS
<1>8. \A k \in 1..n : Goes(a, rules[k][2]) BY <1>4, <1>5, <1>6
<1>9. fr.flag = "junk" => rules[1][1] /\ rules[1][2] = a OBVIOUS
<1> HIDE DEF rules, n
<1> QED BY <1>1, <1>7, <1>8, <1>9, FirstMatched, FirstOne

LEMMA anthropicGoes ==
  ASSUME NEW a \in Told, NEW fr \in SomeFrame
  PROVE  Goes(a, anthropicFrame(a, fr)) /\ (fr.flag = "junk" => anthropicFrame(a, fr) = a)
<1> DEFINE error == Say(a, Failed(anthropicError(500, fr.hint)))
           rules == << <<fr.flag = "junk", a>>, <<fr.flag = "done", Finish(a)>>,
                       <<fr.flag \in {"error", "blocked"}, error>>, <<fr.model, messageStart(a, fr)>>,
                       <<fr.text, Say(a, Text(fr))>>, <<fr.thought, Say(a, Thought(fr))>>,
                       <<TRUE, messageDelta(a, fr)>> >>
           n == 7
<1>1. anthropicFrame(a, fr) = FirstMatch(rules) BY DEF anthropicFrame
<1>2. Goes(a, messageStart(a, fr))
  <2> DEFINE counted == [Named(a, fr) EXCEPT !.tin = Or0(fr.tin), !.tout = Or0(fr.tout)]
  <2>1. Goes(a, Named(a, fr)) BY GoesNamed
  <2>2. Named(a, fr) \in Told BY <2>1 DEF Goes
  <2>3. Or0(fr.tin) \in Counts /\ Or0(fr.tout) \in Counts BY CountsOr0 DEF SomeFrame
  <2>4. Goes(Named(a, fr), counted) BY <2>2, <2>3, GoesCounts
  <2> HIDE DEF counted
  <2>5. Goes(a, counted) /\ counted \in Told BY <2>1, <2>4, GoesOn DEF Goes
  <2>6. Goes(counted, Say(counted, Usage(counted))) BY <2>5, GoesUsage
  <2>7. Goes(a, Say(counted, Usage(counted))) BY <2>5, <2>6, GoesOn
  <2>8. messageStart(a, fr) \in {Say(counted, Usage(counted)), Named(a, fr)} BY DEF messageStart, counted
  <2> QED BY <2>1, <2>7, <2>8
<1>3. Goes(a, messageDelta(a, fr))
  <2> DEFINE reasoned == Reasoned(a, fr, anthropicReason)
             counted == [reasoned EXCEPT !.tout = fr.tout]
  <2>1. Goes(a, [a EXCEPT !.finish = anthropicReason(fr.finish)]) BY ReasonsType, GoesReason
  <2>2. Goes(a, reasoned) BY <2>1, GoesNowhere DEF Reasoned
  <2>3. messageDelta(a, fr) \in {Say(counted, Usage(counted)), reasoned} BY DEF messageDelta
  <2> HIDE DEF reasoned
  <2>4. reasoned \in Told /\ fr.tout \in Counts BY <2>2 DEF Goes, SomeFrame
  <2>5. Goes(reasoned, counted) BY <2>4, GoesCounts
  <2> HIDE DEF counted
  <2>6. Goes(a, counted) /\ counted \in Told BY <2>2, <2>5, GoesOn DEF Goes
  <2>7. Goes(counted, Say(counted, Usage(counted))) BY <2>6, GoesUsage
  <2>8. Goes(a, Say(counted, Usage(counted))) BY <2>6, <2>7, GoesOn
  <2> QED BY <2>2, <2>3, <2>8
<1>4. Goes(a, error) BY ErrorsTyped, GoesFailed
<1>5. Goes(a, Finish(a)) /\ Goes(a, a) BY GoesFinish, GoesNowhere
<1>6. Goes(a, Say(a, Text(fr))) /\ Goes(a, Say(a, Thought(fr))) BY GoesTold
<1> HIDE DEF error
<1>7. n \in Nat \ {0} /\ DOMAIN rules = 1..n /\ rules[n][1] OBVIOUS
<1>8. \A k \in 1..n : Goes(a, rules[k][2]) BY <1>2, <1>3, <1>4, <1>5, <1>6
<1>9. fr.flag = "junk" => rules[1][1] /\ rules[1][2] = a OBVIOUS
<1> HIDE DEF rules, n
<1> QED BY <1>1, <1>7, <1>8, <1>9, FirstMatched, FirstOne

LEMMA googleGoes ==
  ASSUME NEW a \in Told, NEW fr \in SomeFrame
  PROVE  Goes(a, googleFrame(a, fr)) /\ (fr.flag = "junk" => googleFrame(a, fr) = a)
<1> DEFINE named == Named(a, fr)
           said == Say(named, Thought(fr) \o Text(fr))
           reasoned == Reasoned(said, fr, googleReason)
           counted == Merged(reasoned, fr)
           told == IF Counted(fr) THEN Say(counted, Usage(counted)) ELSE counted
           error == Say(a, Failed(googleError(500, fr.hint)))
           block == Say(named, Failed("INVALID_REQUEST"))
           rules == << <<fr.flag = "junk", a>>, <<fr.flag = "done", Finish(a)>>, <<fr.flag = "error", error>>,
                       <<fr.flag = "blocked", block>>, <<TRUE, told>> >>
           n == 5
<1>1. googleFrame(a, fr) = FirstMatch(rules) BY DEF googleFrame
<1>2. Goes(a, named) /\ named \in Told BY GoesNamed DEF Goes
<1> HIDE DEF named
<1>3. Goes(a, said) /\ said \in Told
  <2>1. Goes(named, said) BY <1>2, GoesTold
  <2> HIDE DEF said
  <2> QED BY <1>2, <2>1, GoesOn DEF Goes
<1> HIDE DEF said
<1>4. Goes(a, reasoned) /\ reasoned \in Told
  <2>1. Goes(said, [said EXCEPT !.finish = googleReason(fr.finish)]) BY <1>3, ReasonsType, GoesReason
  <2>2. Goes(said, reasoned) BY <1>3, <2>1, GoesNowhere DEF Reasoned
  <2> HIDE DEF reasoned
  <2> QED BY <1>3, <2>2, GoesOn DEF Goes
<1> HIDE DEF reasoned
<1>5. Goes(a, counted) /\ counted \in Told
  <2>1. Goes(reasoned, counted) BY <1>4, GoesMerged
  <2> HIDE DEF counted
  <2> QED BY <1>4, <2>1, GoesOn DEF Goes
<1> HIDE DEF counted
<1>6. Goes(a, told)
  <2>1. Goes(counted, Say(counted, Usage(counted))) BY <1>5, GoesUsage
  <2>2. Goes(a, Say(counted, Usage(counted))) BY <1>5, <2>1, GoesOn
  <2> QED BY <1>5, <2>2
<1>7. Goes(a, error) BY ErrorsTyped, GoesFailed
<1>8. Goes(a, block)
  <2>1. "INVALID_REQUEST" \in Codes BY DEF Codes
  <2>2. Goes(named, block) BY <1>2, <2>1, GoesFailed
  <2> HIDE DEF block
  <2> QED BY <1>2, <2>2, GoesOn
<1>9. Goes(a, Finish(a)) /\ Goes(a, a) BY GoesFinish, GoesNowhere
<1> HIDE DEF error, block, told
<1>10. n \in Nat \ {0} /\ DOMAIN rules = 1..n /\ rules[n][1] OBVIOUS
<1>11. \A k \in 1..n : Goes(a, rules[k][2]) BY <1>6, <1>7, <1>8, <1>9
<1>12. fr.flag = "junk" => rules[1][1] /\ rules[1][2] = a OBVIOUS
<1> HIDE DEF rules, n
<1> QED BY <1>1, <1>10, <1>11, <1>12, FirstMatched, FirstOne

LEMMA ollamaGoes ==
  ASSUME NEW a \in Told, NEW fr \in SomeFrame
  PROVE  Goes(a, ollamaFrame(a, fr)) /\ (fr.flag = "junk" => ollamaFrame(a, fr) = a)
<1> DEFINE named == Named(a, fr)
           spoke == Say(named, Thought(fr) \o Text(fr))
           reasoned == Reasoned(spoke, fr, ollamaReason)
           said == Replaced(reasoned, fr)
           counted == IF Counted(fr) THEN Say(said, Usage(said)) ELSE said
           error == Say(a, Failed(ollamaError(200, fr.hint)))
           rules == << <<fr.flag = "junk", a>>, <<fr.flag \in {"error", "blocked"}, error>>,
                       <<fr.flag = "done", Finish(counted)>>, <<TRUE, counted>> >>
           n == 4
<1>1. ollamaFrame(a, fr) = FirstMatch(rules) BY DEF ollamaFrame
<1>2. Goes(a, named) /\ named \in Told BY GoesNamed DEF Goes
<1> HIDE DEF named
<1>3. Goes(a, spoke) /\ spoke \in Told
  <2>1. Goes(named, spoke) BY <1>2, GoesTold
  <2> HIDE DEF spoke
  <2> QED BY <1>2, <2>1, GoesOn DEF Goes
<1> HIDE DEF spoke
<1>4. Goes(a, reasoned) /\ reasoned \in Told
  <2>1. Goes(spoke, [spoke EXCEPT !.finish = ollamaReason(fr.finish)]) BY <1>3, ReasonsType, GoesReason
  <2>2. Goes(spoke, reasoned) BY <1>3, <2>1, GoesNowhere DEF Reasoned
  <2> HIDE DEF reasoned
  <2> QED BY <1>3, <2>2, GoesOn DEF Goes
<1> HIDE DEF reasoned
<1>5. Goes(a, said) /\ said \in Told
  <2>1. Goes(reasoned, said) BY <1>4, GoesReplaced
  <2> HIDE DEF said
  <2> QED BY <1>4, <2>1, GoesOn DEF Goes
<1> HIDE DEF said
<1>6. Goes(a, counted) /\ counted \in Told
  <2>1. Goes(said, Say(said, Usage(said))) BY <1>5, GoesUsage
  <2>2. Goes(a, Say(said, Usage(said))) BY <1>5, <2>1, GoesOn
  <2>3. Goes(a, counted) BY <1>5, <2>2
  <2> HIDE DEF counted
  <2> QED BY <2>3 DEF Goes
<1> HIDE DEF counted
<1>7. Goes(a, Finish(counted)) BY <1>6, GoesFinish, GoesOn
<1>8. Goes(a, error) /\ Goes(a, a) BY ErrorsTyped, GoesFailed, GoesNowhere
<1> HIDE DEF error
<1>9. n \in Nat \ {0} /\ DOMAIN rules = 1..n /\ rules[n][1] OBVIOUS
<1>10. \A k \in 1..n : Goes(a, rules[k][2]) BY <1>6, <1>7, <1>8
<1>11. fr.flag = "junk" => rules[1][1] /\ rules[1][2] = a OBVIOUS
<1> HIDE DEF rules, n
<1> QED BY <1>1, <1>9, <1>10, <1>11, FirstMatched, FirstOne

LEMMA TailGoes ==
  ASSUME NEW a \in Told, NEW fr \in SomeFrame PROVE Goes(a, ollamaTail(a, fr))
<1> DEFINE spoke == Say(a, Text(fr))
           said == Replaced(spoke, fr)
           counted == IF Counted(fr) THEN Say(said, Usage(said)) ELSE said
           named == Named(counted, fr)
           reasoned == [named EXCEPT !.finish = ollamaReason(fr.finish)]
<1>1. ollamaTail(a, fr) \in {a, Finish(reasoned), counted} BY DEF ollamaTail
<1>2. Goes(a, spoke) /\ spoke \in Told BY GoesTold DEF Goes
<1> HIDE DEF spoke
<1>3. Goes(a, said) /\ said \in Told
  <2>1. Goes(spoke, said) BY <1>2, GoesReplaced
  <2> HIDE DEF said
  <2> QED BY <1>2, <2>1, GoesOn DEF Goes
<1> HIDE DEF said
<1>4. Goes(a, counted) /\ counted \in Told
  <2>1. Goes(said, Say(said, Usage(said))) BY <1>3, GoesUsage
  <2>2. Goes(a, Say(said, Usage(said))) BY <1>3, <2>1, GoesOn
  <2>3. Goes(a, counted) BY <1>3, <2>2
  <2> HIDE DEF counted
  <2> QED BY <2>3 DEF Goes
<1> HIDE DEF counted
<1>5. Goes(a, named) /\ named \in Told
  <2>1. Goes(counted, named) BY <1>4, GoesNamed
  <2> HIDE DEF named
  <2> QED BY <1>4, <2>1, GoesOn DEF Goes
<1> HIDE DEF named
<1>6. Goes(a, reasoned) /\ reasoned \in Told
  <2>1. Goes(named, reasoned) BY <1>5, ReasonsType, GoesReason
  <2> HIDE DEF reasoned
  <2> QED BY <1>5, <2>1, GoesOn DEF Goes
<1> HIDE DEF reasoned
<1>7. Goes(a, Finish(reasoned)) BY <1>6, GoesFinish, GoesOn
<1>8. Goes(a, a) BY GoesNowhere
<1> QED BY <1>1, <1>4, <1>7, <1>8

(* Whatever a frame says, what was said before it stays. *)
LEMMA FrameGoes ==
  ASSUME NEW ad, NEW a \in Told, NEW fr \in SomeFrame
  PROVE  Goes(a, FrameOf(ad, a, fr)) /\ Goes(a, TakeFrame(ad, a, fr))
<1> DEFINE rules == << <<ad = "openai", openaiFrame(a, fr)>>, <<ad = "anthropic", anthropicFrame(a, fr)>>,
                       <<ad = "google", googleFrame(a, fr)>>, <<TRUE, ollamaFrame(a, fr)>> >>
           n == 4
<1>1. FrameOf(ad, a, fr) = FirstMatch(rules) BY DEF FrameOf
<1>2. n \in Nat \ {0} /\ DOMAIN rules = 1..n /\ rules[n][1] OBVIOUS
<1>3. \A k \in 1..n : Goes(a, rules[k][2]) BY openaiGoes, anthropicGoes, googleGoes, ollamaGoes
<1> HIDE DEF rules, n
<1>4. Goes(a, FrameOf(ad, a, fr)) BY <1>1, <1>2, <1>3, FirstMatched
<1> QED BY <1>4, GoesNowhere DEF TakeFrame

(* Noise says nothing. *)
LEMMA NoiseSilent ==
  ASSUME NEW ad, NEW a \in Told PROVE FrameOf(ad, a, Noise) = a /\ ollamaTail(a, Noise) = a
<1> DEFINE rules == << <<ad = "openai", openaiFrame(a, Noise)>>, <<ad = "anthropic", anthropicFrame(a, Noise)>>,
                       <<ad = "google", googleFrame(a, Noise)>>, <<TRUE, ollamaFrame(a, Noise)>> >>
           n == 4
<1>1. FrameOf(ad, a, Noise) = FirstMatch(rules) BY DEF FrameOf
<1>2. n \in Nat \ {0} /\ DOMAIN rules = 1..n /\ rules[n][1] OBVIOUS
<1>3. Noise.flag = "junk" BY DEF Noise
<1>4. \A k \in 1..n : rules[k][2] = a
  BY <1>3, NoiseType, openaiGoes, anthropicGoes, googleGoes, ollamaGoes
<1> HIDE DEF rules, n
<1>5. FrameOf(ad, a, Noise) = a BY <1>1, <1>2, <1>4, FirstMatched
<1> QED BY <1>3, <1>5 DEF ollamaTail

-----------------------------------------------------------------------------
(* The text of a frame, piece by piece. *)

LineOf == [field : {"object", "comment", "event", "data", "blank"}, load : SomeFrame]
SomePiece == [line : LineOf, half : 0..2]

LEMMA FramesType ==
  ASSUME NEW ad, NEW frs \in Bodies(ad) PROVE frs \in Seq(SomeFrame)
<1>1. PICK n \in 0..MaxFrames : \E g \in [1..n -> {fr \in Sample : fr.flag = "blocked" => ad = "google"}] :
                                  frs = [k \in 1..n |-> [g[k] EXCEPT !.n = k]]
  BY DEF Bodies
<1>2. PICK g \in [1..n -> {fr \in Sample : fr.flag = "blocked" => ad = "google"}] :
             frs = [k \in 1..n |-> [g[k] EXCEPT !.n = k]]
  BY <1>1
<1>3. ASSUME NEW k \in 1..n PROVE [g[k] EXCEPT !.n = k] \in SomeFrame
  <2>1. g[k] \in Frame BY StreamsAssumption
  <2>2. k \in 0..MaxFrames BY StreamsAssumption
  <2> QED BY <2>1, <2>2 DEF Frame, SomeFrame, Counts
<1>4. frs \in [1..n -> SomeFrame] BY <1>2, <1>3
<1> QED BY <1>4

(* The three shapes. *)
LEMMA Shapes ==
  ASSUME NEW ad, NEW fr \in SomeFrame
  PROVE  \/ ad = "ollama" /\ PiecesOf(ad, fr) = Object(fr)
         \/ ad # "ollama" /\ PiecesOf(ad, fr) = Plain(fr)
         \/ ad # "ollama" /\ \E field \in {"comment", "event"} : PiecesOf(ad, fr) = Led(Line(field, Noise), fr)
<1> DEFINE rules == << <<ad = "ollama", Object(fr)>>, <<fr.flag = "junk", Led(Line("comment", Noise), fr)>>,
                       <<ad = "anthropic", Led(Line("event", Noise), fr)>>, <<TRUE, Plain(fr)>> >>
           n == 4
<1>1. PiecesOf(ad, fr) = FirstMatch(rules) BY DEF PiecesOf
<1>2. n \in Nat \ {0} /\ DOMAIN rules = 1..n /\ rules[n][1] OBVIOUS
<1>3. /\ rules[1][2] = Object(fr) /\ rules[2][2] = Led(Line("comment", Noise), fr)
      /\ rules[3][2] = Led(Line("event", Noise), fr) /\ rules[4][2] = Plain(fr)
  OBVIOUS
<1>4. rules[1][1] <=> ad = "ollama" OBVIOUS
<1> HIDE DEF rules, n
<1>5. PICK k \in 1..n : /\ FirstMatch(rules) = rules[k][2] /\ rules[k][1]
                        /\ \A i \in 1..(k - 1) : ~rules[i][1]
  BY <1>2, FirstMatched
<1>6. k > 1 => ad # "ollama"
  <2>1. SUFFICES ASSUME k > 1 PROVE ad # "ollama" OBVIOUS
  <2>2. 1 \in 1..(k - 1) BY <2>1
  <2> QED BY <1>4, <1>5, <2>2
<1>7. k = 1 \/ k = 2 \/ k = 3 \/ k = 4 BY DEF n
<1>8. k = 1 => ad = "ollama" BY <1>4, <1>5
<1>9. \/ k = 1 /\ PiecesOf(ad, fr) = Object(fr)
      \/ k > 1 /\ PiecesOf(ad, fr) = Led(Line("comment", Noise), fr)
      \/ k > 1 /\ PiecesOf(ad, fr) = Led(Line("event", Noise), fr)
      \/ k > 1 /\ PiecesOf(ad, fr) = Plain(fr)
  BY <1>1, <1>3, <1>5, <1>7
<1> QED BY <1>6, <1>8, <1>9

LEMMA PiecesType ==
  ASSUME NEW ad, NEW fr \in SomeFrame PROVE PiecesOf(ad, fr) \in Seq(SomePiece)
<1>1. ASSUME NEW line \in LineOf, NEW k \in 0..2 PROVE Half(line, k) \in SomePiece BY DEF Half, SomePiece
<1>2. ASSUME NEW field \in {"object", "comment", "event", "data", "blank"}, NEW load \in SomeFrame
      PROVE  Line(field, load) \in LineOf
  BY DEF Line, LineOf
<1>3. NewLine \in SomePiece BY <1>1, <1>2, NoiseType DEF NewLine, BlankLine
<1>4. ASSUME NEW line \in LineOf PROVE Half(line, 1) \in SomePiece /\ Half(line, 2) \in SomePiece BY <1>1
<1>5. Line("data", fr) \in LineOf /\ Line("object", fr) \in LineOf BY <1>2
<1>6. \A field \in {"comment", "event"} : Line(field, Noise) \in LineOf BY <1>2, NoiseType
<1>7. Object(fr) \in Seq(SomePiece) BY <1>3, <1>4, <1>5 DEF Object
<1>8. Plain(fr) \in Seq(SomePiece) BY <1>3, <1>4, <1>5 DEF Plain
<1>9. ASSUME NEW line \in LineOf PROVE Led(line, fr) \in Seq(SomePiece) BY <1>3, <1>4, <1>5 DEF Led
<1> QED BY <1>6, <1>7, <1>8, <1>9, Shapes

LEMMA SaidInstead ==
  ASSUME NEW b, NEW d, NEW a, NEW x
  PROVE  [[buffer |-> b, data |-> d, st |-> a] EXCEPT !.st = x] = [buffer |-> b, data |-> d, st |-> x]
OBVIOUS

(* One line of a reader that is a record. *)
LEMMA LineRead ==
  ASSUME NEW ad, NEW b, NEW d, NEW a, NEW line
  PROVE  ReadLine(ad, [buffer |-> b, data |-> d, st |-> a], line) =
           IF Ended(ad, a) THEN [buffer |-> b, data |-> d, st |-> a]
           ELSE IF ad = "ollama" THEN [buffer |-> b, data |-> d, st |-> FrameOf(ad, a, line.load)]
           ELSE IF line.field = "data" THEN [buffer |-> b, data |-> Append(d, line.load), st |-> a]
           ELSE IF line.field = "blank" /\ d # <<>>
                THEN [buffer |-> b, data |-> <<>>, st |-> FrameOf(ad, a, Join(d))]
           ELSE [buffer |-> b, data |-> d, st |-> a]
<1> DEFINE reader == [buffer |-> b, data |-> d, st |-> a]
           one == [reader EXCEPT !.st = FrameOf(ad, @, line.load)]
           two == [reader EXCEPT !.data = Append(@, line.load)]
           three == [reader EXCEPT !.data = <<>>, !.st = FrameOf(ad, @, Join(reader.data))]
           ended == Ended(ad, a)
           object == ad = "ollama"
           text == line.field = "data"
           flush == line.field = "blank" /\ d # <<>>
           rules == << <<ended, reader>>, <<object, one>>, <<text, two>>, <<flush, three>>, <<TRUE, reader>> >>
<1>1. ReadLine(ad, reader, line) = FirstMatch(rules) BY DEF ReadLine
<1>2. /\ one = [buffer |-> b, data |-> d, st |-> FrameOf(ad, a, line.load)]
      /\ two = [buffer |-> b, data |-> Append(d, line.load), st |-> a]
      /\ three = [buffer |-> b, data |-> <<>>, st |-> FrameOf(ad, a, Join(d))]
  <2>1. reader.st = a /\ reader.data = d OBVIOUS
  <2>2. ASSUME NEW x, NEW y
        PROVE  /\ [reader EXCEPT !.st = x] = [buffer |-> b, data |-> d, st |-> x]
               /\ [reader EXCEPT !.data = x] = [buffer |-> b, data |-> x, st |-> a]
               /\ [reader EXCEPT !.data = x, !.st = y] = [buffer |-> b, data |-> x, st |-> y]
    <3>1. [reader EXCEPT !.st = x] = [buffer |-> b, data |-> d, st |-> x] BY SaidInstead
    <3>2. [reader EXCEPT !.data = x] = [buffer |-> b, data |-> x, st |-> a] OBVIOUS
    <3>3. [reader EXCEPT !.data = x, !.st = y] = [buffer |-> b, data |-> x, st |-> y]
      <4>1. [[reader EXCEPT !.data = x] EXCEPT !.st = y] = [buffer |-> b, data |-> x, st |-> y]
        <5> DEFINE r == [reader EXCEPT !.data = x]
        <5>1. r = [buffer |-> b, data |-> x, st |-> a] BY <3>2
        <5>2. [[buffer |-> b, data |-> x, st |-> a] EXCEPT !.st = y] = [buffer |-> b, data |-> x, st |-> y]
          BY SaidInstead
        <5> HIDE DEF r
        <5>3. [r EXCEPT !.st = y] = [buffer |-> b, data |-> x, st |-> y] BY <5>1, <5>2
        <5> QED BY <5>3 DEF r
      <4>2. [reader EXCEPT !.data = x, !.st = y] = [[reader EXCEPT !.data = x] EXCEPT !.st = y] OBVIOUS
      <4> QED BY <4>1, <4>2
    <3> QED BY <3>1, <3>2, <3>3
  <2> HIDE DEF reader
  <2>3. one = [buffer |-> b, data |-> d, st |-> FrameOf(ad, a, line.load)] BY <2>1, <2>2
  <2>4. two = [buffer |-> b, data |-> Append(d, line.load), st |-> a] BY <2>1, <2>2
  <2>5. three = [buffer |-> b, data |-> <<>>, st |-> FrameOf(ad, a, Join(d))] BY <2>1, <2>2
  <2> QED BY <2>3, <2>4, <2>5
<1>3. ended \in BOOLEAN /\ object \in BOOLEAN /\ text \in BOOLEAN /\ flush \in BOOLEAN BY DEF Ended
<1> HIDE DEF one, two, three, ended, object, text, flush
<1>4. DOMAIN rules = 1..5 /\ rules[5][1] OBVIOUS
<1>5. /\ (rules[1][1] <=> ended) /\ (rules[2][1] <=> object) /\ (rules[3][1] <=> text) /\ (rules[4][1] <=> flush)
      /\ rules[1][2] = reader /\ rules[2][2] = one /\ rules[3][2] = two /\ rules[4][2] = three
      /\ rules[5][2] = reader
  BY <1>3
<1> HIDE DEF rules
<1>6. FirstMatch(rules) = IF ended THEN reader ELSE IF object THEN one ELSE IF text THEN two
                          ELSE IF flush THEN three ELSE reader
  BY <1>4, <1>5, FirstOfFive
<1>7. ReadLine(ad, reader, line) = IF ended THEN reader ELSE IF object THEN one ELSE IF text THEN two
                                   ELSE IF flush THEN three ELSE reader
  BY <1>1, <1>6
<1> QED BY <1>2, <1>7 DEF ended, object, text, flush

(* What the buffer holds after some pieces of a frame. *)
Held(p, i) ==
  IF i = 0 \/ p[i].half = 0 THEN <<>> ELSE IF p[i].half = 1 THEN <<p[i]>> ELSE <<p[i - 1], p[i]>>

(* So many pieces end its text. *)
TextEnd(ad, p) == Len(p) - (IF ad = "ollama" THEN 1 ELSE 2)

LEMMA WholeIs ==
  ASSUME NEW line
  PROVE  /\ Whole(<<>>) = BlankLine
         /\ Whole(<<Half(line, 1)>>) = Line(line.field, Noise)
         /\ Whole(<<Half(line, 1), Half(line, 2)>>) = line
<1>1. Whole(<<>>) = BlankLine BY DEF Whole
<1>2. Whole(<<Half(line, 1)>>) = Line(line.field, Noise) BY DEF Whole, Half
<1>3. Whole(<<Half(line, 1), Half(line, 2)>>) = line BY DEF Whole, Half
<1> QED BY <1>1, <1>2, <1>3

LEMMA HalfIs ==
  ASSUME NEW line, NEW k PROVE Half(line, k).half = k /\ Half(line, k).line = line
BY DEF Half

IsObject(fr, p) ==
  /\ Len(p) = 3 /\ p[1] = Half(Line("object", fr), 1) /\ p[2] = Half(Line("object", fr), 2) /\ p[3] = NewLine
  /\ Held(p, 0) = <<>> /\ Held(p, 1) = <<p[1]>> /\ Held(p, 2) = <<p[1], p[2]>> /\ Held(p, 3) = <<>>

LEMMA ObjectHeld == ASSUME NEW fr PROVE IsObject(fr, Object(fr))
<1> DEFINE p == Object(fr)
<1>1. Len(p) = 3 /\ p[1] = Half(Line("object", fr), 1) /\ p[2] = Half(Line("object", fr), 2) /\ p[3] = NewLine
  BY DEF Object
<1> QED BY <1>1, HalfIs DEF Held, NewLine, IsObject

IsPlain(fr, p) ==
  /\ Len(p) = 4 /\ p[1] = Half(Line("data", fr), 1) /\ p[2] = Half(Line("data", fr), 2)
  /\ p[3] = NewLine /\ p[4] = NewLine
  /\ Held(p, 0) = <<>> /\ Held(p, 1) = <<p[1]>> /\ Held(p, 2) = <<p[1], p[2]>> /\ Held(p, 3) = <<>>
  /\ Held(p, 4) = <<>>

LEMMA PlainHeld == ASSUME NEW fr PROVE IsPlain(fr, Plain(fr))
<1> DEFINE p == Plain(fr)
<1>1. /\ Len(p) = 4 /\ p[1] = Half(Line("data", fr), 1) /\ p[2] = Half(Line("data", fr), 2)
      /\ p[3] = NewLine /\ p[4] = NewLine
  BY DEF Plain
<1> QED BY <1>1, HalfIs DEF Held, NewLine, IsPlain

IsLed(line, fr, p) ==
  /\ Len(p) = 7 /\ p[1] = Half(line, 1) /\ p[2] = Half(line, 2) /\ p[3] = NewLine
  /\ p[4] = Half(Line("data", fr), 1) /\ p[5] = Half(Line("data", fr), 2)
  /\ p[6] = NewLine /\ p[7] = NewLine
  /\ Held(p, 0) = <<>> /\ Held(p, 1) = <<p[1]>> /\ Held(p, 2) = <<p[1], p[2]>> /\ Held(p, 3) = <<>>
  /\ Held(p, 4) = <<p[4]>> /\ Held(p, 5) = <<p[4], p[5]>> /\ Held(p, 6) = <<>> /\ Held(p, 7) = <<>>

LEMMA LedHeld == ASSUME NEW line, NEW fr PROVE IsLed(line, fr, Led(line, fr))
<1> DEFINE p == Led(line, fr)
<1>1. /\ Len(p) = 7 /\ p[1] = Half(line, 1) /\ p[2] = Half(line, 2) /\ p[3] = NewLine
      /\ p[4] = Half(Line("data", fr), 1) /\ p[5] = Half(Line("data", fr), 2)
      /\ p[6] = NewLine /\ p[7] = NewLine
  BY DEF Led
<1> QED BY <1>1, HalfIs DEF Held, NewLine, IsLed

(* What comes after i pieces of a frame, and what it makes of the buffer.  *)
Next1(ad, fr, p, i) ==
  /\ p[i + 1].half # 0 =>
       /\ Held(p, i + 1) = Append(Held(p, i), p[i + 1]) /\ i + 1 < Len(p) /\ i + 1 <= TextEnd(ad, p)
       /\ p[i + 1].half = 2 <=> Len(Held(p, i + 1)) = 2
  /\ p[i + 1].half = 0 =>
       /\ Held(p, i + 1) = <<>>
       /\ \/ ad = "ollama" /\ i + 1 = Len(p) /\ Whole(Held(p, i)) = Line("object", fr)
          \/ ad # "ollama" /\ i + 1 = Len(p) /\ Whole(Held(p, i)) = BlankLine
          \/ ad # "ollama" /\ i + 1 = Len(p) - 1 /\ Whole(Held(p, i)) = Line("data", fr)
          \/ /\ ad # "ollama" /\ i + 1 < Len(p) - 1
             /\ \E field \in {"comment", "event"} : Whole(Held(p, i)) = Line(field, Noise)
  /\ (p[i + 1].half = 2 /\ p[i + 1].line.field \in {"data", "object"}) <=> i + 1 = TextEnd(ad, p)

LEMMA Grown ==
  ASSUME NEW x, NEW y
  PROVE  Append(<<>>, x) = <<x>> /\ Append(<<x>>, y) = <<x, y>> /\ Len(<<x>>) = 1 /\ Len(<<x, y>>) = 2
<1>1. Append(<<>>, x) = <<x>> OBVIOUS
<1>2. Append(<<x>>, y) = <<x, y>>
  <2>1. <<x>> \in Seq({x, y}) /\ <<x, y>> \in Seq({x, y}) OBVIOUS
  <2>2. /\ Append(<<x>>, y) \in Seq({x, y}) /\ Len(Append(<<x>>, y)) = 2
        /\ Append(<<x>>, y)[1] = x /\ Append(<<x>>, y)[2] = y
    BY <2>1, AppendProperties
  <2>3. \A k \in 1..2 : Append(<<x>>, y)[k] = <<x, y>>[k] BY <2>2
  <2> QED BY <2>1, <2>2, <2>3, SeqEqual
<1> QED BY <1>1, <1>2

LEMMA LayoutObject ==
  ASSUME NEW ad, NEW fr, NEW p, IsObject(fr, p), ad = "ollama", NEW i \in 0..2
  PROVE  Next1(ad, fr, p, i)
<1>1. Len(p) = 3 /\ TextEnd(ad, p) = 2 BY DEF TextEnd, IsObject
<1>2. p[1].half = 1 /\ p[2].half = 2 /\ p[3].half = 0 BY HalfIs DEF NewLine, IsObject
<1>3. p[1].line.field = "object" /\ p[2].line.field = "object"
  <2>1. \A field1, load : Line(field1, load).field = field1 BY DEF Line
  <2>2. p[1].line = Line("object", fr) BY HalfIs DEF IsObject
  <2>3. p[2].line = Line("object", fr) BY HalfIs DEF IsObject
  <2> QED BY <2>1, <2>2, <2>3
<1>4. \A x, y : Append(<<>>, x) = <<x>> /\ Append(<<x>>, y) = <<x, y>> /\ Len(<<x>>) = 1 /\ Len(<<x, y>>) = 2
  BY Grown
<1>5. Next1(ad, fr, p, 0)
  <2>1. 0 + 1 = 1 OBVIOUS
  <2>2. Held(p, 1) = Append(Held(p, 0), p[1]) /\ Len(Held(p, 1)) = 1 BY <1>4 DEF IsObject
  <2> QED BY <1>1, <1>2, <1>3, <2>1, <2>2 DEF Next1
<1>6. Next1(ad, fr, p, 1)
  <2>1. 1 + 1 = 2 OBVIOUS
  <2>2. Held(p, 2) = Append(Held(p, 1), p[2]) /\ Len(Held(p, 2)) = 2 BY <1>4 DEF IsObject
  <2> QED BY <1>1, <1>2, <1>3, <2>1, <2>2 DEF Next1
<1>7. Next1(ad, fr, p, 2)
  <2>1. 2 + 1 = 3 OBVIOUS
  <2>2. Held(p, 3) = <<>> /\ Whole(Held(p, 2)) = Line("object", fr) BY WholeIs DEF IsObject
  <2> QED BY <1>1, <1>2, <2>1, <2>2 DEF Next1
<1>8. i = 0 \/ i = 1 \/ i = 2 OBVIOUS
<1> QED BY <1>5, <1>6, <1>7, <1>8

LEMMA LayoutPlain ==
  ASSUME NEW ad, NEW fr, NEW p, IsPlain(fr, p), ad # "ollama", NEW i \in 0..3
  PROVE  Next1(ad, fr, p, i)
<1>1. Len(p) = 4 /\ TextEnd(ad, p) = 2 BY DEF TextEnd, IsPlain
<1>2. p[1].half = 1 /\ p[2].half = 2 /\ p[3].half = 0 /\ p[4].half = 0 BY HalfIs DEF NewLine, IsPlain
<1>3. p[1].line.field = "data" /\ p[2].line.field = "data"
  <2>1. \A field1, load : Line(field1, load).field = field1 BY DEF Line
  <2>2. p[1].line = Line("data", fr) BY HalfIs DEF IsPlain
  <2>3. p[2].line = Line("data", fr) BY HalfIs DEF IsPlain
  <2> QED BY <2>1, <2>2, <2>3
<1>4. \A x, y : Append(<<>>, x) = <<x>> /\ Append(<<x>>, y) = <<x, y>> /\ Len(<<x>>) = 1 /\ Len(<<x, y>>) = 2
  BY Grown
<1>5. Next1(ad, fr, p, 0)
  <2>1. 0 + 1 = 1 OBVIOUS
  <2>2. Held(p, 1) = Append(Held(p, 0), p[1]) /\ Len(Held(p, 1)) = 1 BY <1>4 DEF IsPlain
  <2> QED BY <1>1, <1>2, <1>3, <2>1, <2>2 DEF Next1
<1>6. Next1(ad, fr, p, 1)
  <2>1. 1 + 1 = 2 OBVIOUS
  <2>2. Held(p, 2) = Append(Held(p, 1), p[2]) /\ Len(Held(p, 2)) = 2 BY <1>4 DEF IsPlain
  <2> QED BY <1>1, <1>2, <1>3, <2>1, <2>2 DEF Next1
<1>7. Next1(ad, fr, p, 2)
  <2>1. 2 + 1 = 3 OBVIOUS
  <2>2. Held(p, 3) = <<>> /\ Whole(Held(p, 2)) = Line("data", fr) BY WholeIs DEF IsPlain
  <2> QED BY <1>1, <1>2, <2>1, <2>2 DEF Next1
<1>8. Next1(ad, fr, p, 3)
  <2>1. 3 + 1 = 4 OBVIOUS
  <2>2. Held(p, 4) = <<>> /\ Whole(Held(p, 3)) = BlankLine BY WholeIs DEF IsPlain
  <2> QED BY <1>1, <1>2, <2>1, <2>2 DEF Next1
<1>9. i = 0 \/ i = 1 \/ i = 2 \/ i = 3 OBVIOUS
<1> QED BY <1>5, <1>6, <1>7, <1>8, <1>9

LEMMA LayoutLed ==
  ASSUME NEW ad, NEW fr, NEW field \in {"comment", "event"}, NEW p, IsLed(Line(field, Noise), fr, p), ad # "ollama", NEW i \in 0..6
  PROVE  Next1(ad, fr, p, i)
<1>1. Len(p) = 7 /\ TextEnd(ad, p) = 5 BY DEF TextEnd, IsLed
<1>2. p[1].half = 1 /\ p[2].half = 2 /\ p[3].half = 0 /\ p[4].half = 1 /\ p[5].half = 2 /\ p[6].half = 0 /\ p[7].half = 0
  BY HalfIs DEF NewLine, IsLed
<1>3. p[1].line.field = field /\ p[2].line.field = field /\ p[4].line.field = "data" /\ p[5].line.field = "data"
  <2>1. \A field1, load : Line(field1, load).field = field1 BY DEF Line
  <2>2. p[1].line = Line(field, Noise) BY HalfIs DEF IsLed
  <2>3. p[2].line = Line(field, Noise) BY HalfIs DEF IsLed
  <2>4. p[4].line = Line("data", fr) BY HalfIs DEF IsLed
  <2>5. p[5].line = Line("data", fr) BY HalfIs DEF IsLed
  <2> QED BY <2>1, <2>2, <2>3, <2>4, <2>5
<1>4. \A x, y : Append(<<>>, x) = <<x>> /\ Append(<<x>>, y) = <<x, y>> /\ Len(<<x>>) = 1 /\ Len(<<x, y>>) = 2
  BY Grown
<1>5. Next1(ad, fr, p, 0)
  <2>1. 0 + 1 = 1 OBVIOUS
  <2>2. Held(p, 1) = Append(Held(p, 0), p[1]) /\ Len(Held(p, 1)) = 1 BY <1>4 DEF IsLed
  <2>3. ~(p[1].half = 2) /\ ~(1 = TextEnd(ad, p)) /\ p[1].half # 0 /\ 1 < Len(p) /\ 1 <= TextEnd(ad, p)
    BY <1>1, <1>2
  <2>4. Len(Held(p, 1)) # 2 BY <2>2
  <2> QED BY <2>1, <2>2, <2>3, <2>4 DEF Next1
<1>6. Next1(ad, fr, p, 1)
  <2>1. 1 + 1 = 2 OBVIOUS
  <2>2. Held(p, 2) = Append(Held(p, 1), p[2]) /\ Len(Held(p, 2)) = 2 BY <1>4 DEF IsLed
  <2>3. p[2].half = 2 /\ p[2].line.field \notin {"data", "object"} /\ ~(2 = TextEnd(ad, p))
    BY <1>1, <1>2, <1>3
  <2>4. p[2].half # 0 /\ 2 < Len(p) /\ 2 <= TextEnd(ad, p) BY <1>1, <1>2
  <2> QED BY <2>1, <2>2, <2>3, <2>4 DEF Next1
<1>7. Next1(ad, fr, p, 2)
  <2>1. 2 + 1 = 3 OBVIOUS
  <2>2. Held(p, 3) = <<>> /\ Whole(Held(p, 2)) = Line(field, Noise) BY WholeIs DEF IsLed
  <2> QED BY <1>1, <1>2, <2>1, <2>2 DEF Next1
<1>8. Next1(ad, fr, p, 3)
  <2>1. 3 + 1 = 4 OBVIOUS
  <2>2. Held(p, 4) = Append(Held(p, 3), p[4]) /\ Len(Held(p, 4)) = 1 BY <1>4 DEF IsLed
  <2>3. ~(p[4].half = 2) /\ ~(4 = TextEnd(ad, p)) /\ p[4].half # 0 /\ 4 < Len(p) /\ 4 <= TextEnd(ad, p)
    BY <1>1, <1>2
  <2>4. Len(Held(p, 4)) # 2 BY <2>2
  <2> QED BY <2>1, <2>2, <2>3, <2>4 DEF Next1
<1>9. Next1(ad, fr, p, 4)
  <2>1. 4 + 1 = 5 OBVIOUS
  <2>2. Held(p, 5) = Append(Held(p, 4), p[5]) /\ Len(Held(p, 5)) = 2 BY <1>4 DEF IsLed
  <2>3. p[5].half = 2 /\ p[5].line.field \in {"data", "object"} /\ 5 = TextEnd(ad, p)
    BY <1>1, <1>2, <1>3
  <2>4. p[5].half # 0 /\ 5 < Len(p) /\ 5 <= TextEnd(ad, p) BY <1>1, <1>2
  <2> QED BY <2>1, <2>2, <2>3, <2>4 DEF Next1
<1>10. Next1(ad, fr, p, 5)
  <2>1. 5 + 1 = 6 OBVIOUS
  <2>2. Held(p, 6) = <<>> /\ Whole(Held(p, 5)) = Line("data", fr) BY WholeIs DEF IsLed
  <2> QED BY <1>1, <1>2, <2>1, <2>2 DEF Next1
<1>11. Next1(ad, fr, p, 6)
  <2>1. 6 + 1 = 7 OBVIOUS
  <2>2. Held(p, 7) = <<>> /\ Whole(Held(p, 6)) = BlankLine BY WholeIs DEF IsLed
  <2> QED BY <1>1, <1>2, <2>1, <2>2 DEF Next1
<1>12. i = 0 \/ i = 1 \/ i = 2 \/ i = 3 \/ i = 4 \/ i = 5 \/ i = 6 OBVIOUS
<1> QED BY <1>5, <1>6, <1>7, <1>8, <1>9, <1>10, <1>11, <1>12

LEMMA Layout ==
  ASSUME NEW ad, NEW fr \in SomeFrame, NEW i \in 0..(Len(PiecesOf(ad, fr)) - 1)
  PROVE  Next1(ad, fr, PiecesOf(ad, fr), i)
<1> DEFINE p == PiecesOf(ad, fr)
<1>1. i \in 0..(Len(p) - 1) OBVIOUS
<1>2. \/ ad = "ollama" /\ IsObject(fr, p)
      \/ ad # "ollama" /\ IsPlain(fr, p)
      \/ ad # "ollama" /\ \E field \in {"comment", "event"} : IsLed(Line(field, Noise), fr, p)
  <2>1. \A x, line : IsObject(x, Object(x)) /\ IsPlain(x, Plain(x)) /\ IsLed(line, x, Led(line, x))
    BY ObjectHeld, PlainHeld, LedHeld
  <2> QED BY <2>1, Shapes
<1> HIDE DEF p
<1>3. ASSUME ad = "ollama", IsObject(fr, p) PROVE Next1(ad, fr, p, i)
  <2>1. i \in 0..2 BY <1>1, <1>3 DEF IsObject
  <2> QED BY <1>3, <2>1, LayoutObject
<1>4. ASSUME ad # "ollama", IsPlain(fr, p) PROVE Next1(ad, fr, p, i)
  <2>1. i \in 0..3 BY <1>1, <1>4 DEF IsPlain
  <2> QED BY <1>4, <2>1, LayoutPlain
<1>5. ASSUME ad # "ollama", NEW field \in {"comment", "event"}, IsLed(Line(field, Noise), fr, p)
      PROVE  Next1(ad, fr, p, i)
  <2>1. i \in 0..6 BY <1>1, <1>5 DEF IsLed
  <2> QED BY <1>5, <2>1, LayoutLed
<1>6. Next1(ad, fr, p, i) BY <1>2, <1>3, <1>4, <1>5
<1> QED BY <1>6 DEF p

(* A reader that has some pieces of a frame. *)
Mid(ad, a, fr, i) ==
  [buffer |-> Held(PiecesOf(ad, fr), i),
   data |-> IF ad # "ollama" /\ i = Len(PiecesOf(ad, fr)) - 1 /\ ~Ended(ad, a) THEN <<fr>> ELSE <<>>,
   st |-> IF i = Len(PiecesOf(ad, fr)) THEN TakeFrame(ad, a, fr) ELSE a]

(* A full line of ollama ends its text. *)
Halves(ad, fr) ==
  \A i \in 1..Len(PiecesOf(ad, fr)) :
    ad = "ollama" => (PiecesOf(ad, fr)[i].half = 2 <=> i = TextEnd(ad, PiecesOf(ad, fr)))

LEMMA PiecesMany ==
  ASSUME NEW ad, NEW fr \in SomeFrame
  PROVE  /\ Len(PiecesOf(ad, fr)) \in {3, 4, 7}
         /\ Held(PiecesOf(ad, fr), 0) = <<>> /\ Held(PiecesOf(ad, fr), Len(PiecesOf(ad, fr))) = <<>>
         /\ TextEnd(ad, PiecesOf(ad, fr)) \in 1..(Len(PiecesOf(ad, fr)) - 1)
         /\ Halves(ad, fr)
<1> DEFINE p == PiecesOf(ad, fr)
<1>1. \/ ad = "ollama" /\ IsObject(fr, p)
      \/ ad # "ollama" /\ IsPlain(fr, p)
      \/ ad # "ollama" /\ \E field \in {"comment", "event"} : IsLed(Line(field, Noise), fr, p)
  <2>1. \A x, line : IsObject(x, Object(x)) /\ IsPlain(x, Plain(x)) /\ IsLed(line, x, Led(line, x))
    BY ObjectHeld, PlainHeld, LedHeld
  <2> QED BY <2>1, Shapes
<1> HIDE DEF p
<1>2. Len(p) \in {3, 4, 7} BY <1>1 DEF IsObject, IsPlain, IsLed
<1>3. Held(p, 0) = <<>> BY <1>1 DEF IsObject, IsPlain, IsLed
<1>4. Held(p, Len(p)) = <<>>
  <2>1. CASE Len(p) = 3 BY <1>1, <2>1 DEF IsObject, IsPlain, IsLed
  <2>2. CASE Len(p) = 4 BY <1>1, <2>2 DEF IsObject, IsPlain, IsLed
  <2>3. CASE Len(p) = 7 BY <1>1, <2>3 DEF IsObject, IsPlain, IsLed
  <2> QED BY <1>2, <2>1, <2>2, <2>3
<1>5. TextEnd(ad, p) \in 1..(Len(p) - 1)
  <2>1. CASE ad = "ollama" BY <1>2, <2>1 DEF TextEnd
  <2>2. CASE ad # "ollama" BY <1>2, <2>2 DEF TextEnd
  <2> QED BY <2>1, <2>2
<1>6. ASSUME ad = "ollama", NEW i \in 1..Len(p) PROVE p[i].half = 2 <=> i = TextEnd(ad, p)
  <2>1. IsObject(fr, p) BY <1>1, <1>6
  <2>2. Len(p) = 3 /\ p[1].half = 1 /\ p[2].half = 2 /\ p[3].half = 0
    BY <2>1, HalfIs DEF NewLine, IsObject
  <2>3. TextEnd(ad, p) = 2 BY <1>6, <2>2 DEF TextEnd
  <2>4. i = 1 \/ i = 2 \/ i = 3 BY <2>2
  <2> QED BY <2>2, <2>3, <2>4
<1> QED BY <1>2, <1>3, <1>4, <1>5, <1>6 DEF p, Halves

LEMMA BufferGrows ==
  ASSUME NEW b, NEW d, NEW a, NEW x
  PROVE  [[buffer |-> b, data |-> d, st |-> a] EXCEPT !.buffer = Append(@, x)] =
           [buffer |-> Append(b, x), data |-> d, st |-> a]
OBVIOUS

(* One more piece. *)
LEMMA PieceRead ==
  ASSUME NEW ad, NEW a \in Told, NEW fr \in SomeFrame, NEW i \in 0..(Len(PiecesOf(ad, fr)) - 1)
  PROVE  ReadPiece(ad, Mid(ad, a, fr, i), PiecesOf(ad, fr)[i + 1]) = Mid(ad, a, fr, i + 1)
<1> DEFINE p == PiecesOf(ad, fr)
           d == IF ad # "ollama" /\ i = Len(p) - 1 /\ ~Ended(ad, a) THEN <<fr>> ELSE <<>>
           reader == [buffer |-> Held(p, i), data |-> d, st |-> a]
<1>1. Next1(ad, fr, p, i) /\ i \in 0..(Len(p) - 1) BY Layout
<1>2. Len(p) \in {3, 4, 7} /\ Held(p, Len(p)) = <<>> /\ TextEnd(ad, p) = Len(p) - (IF ad = "ollama" THEN 1 ELSE 2)
  BY PiecesMany DEF TextEnd
<1>3. Mid(ad, a, fr, i) = reader
  <2>1. i # Len(p)
    <3> HIDE DEF p
    <3> QED BY <1>1, <1>2
  <2> QED BY <2>1 DEF Mid
<1>4. Mid(ad, a, fr, i + 1) =
        [buffer |-> Held(p, i + 1),
         data |-> IF ad # "ollama" /\ i + 1 = Len(p) - 1 /\ ~Ended(ad, a) THEN <<fr>> ELSE <<>>,
         st |-> IF i + 1 = Len(p) THEN TakeFrame(ad, a, fr) ELSE a]
  BY DEF Mid
<1> HIDE DEF p, d
<1>5. ASSUME p[i + 1].half # 0 PROVE ReadPiece(ad, reader, p[i + 1]) = Mid(ad, a, fr, i + 1)
  <2>1. Held(p, i + 1) = Append(Held(p, i), p[i + 1]) /\ i + 1 < Len(p) /\ i + 1 <= TextEnd(ad, p)
    BY <1>1, <1>5 DEF Next1
  <2>2. d = <<>> BY <1>1, <1>2, <2>1 DEF d
  <2>3. ad # "ollama" => i + 1 < Len(p) - 1 BY <1>1, <1>2, <2>1
  <2>4. Mid(ad, a, fr, i + 1) = [buffer |-> Append(Held(p, i), p[i + 1]), data |-> <<>>, st |-> a]
    <3>1. i + 1 # Len(p) /\ ~(ad # "ollama" /\ i + 1 = Len(p) - 1)
      BY <1>1, <1>2, <2>1, <2>3
    <3>2. (IF ad # "ollama" /\ i + 1 = Len(p) - 1 /\ ~Ended(ad, a) THEN <<fr>> ELSE <<>>) = <<>> BY <3>1
    <3>3. (IF i + 1 = Len(p) THEN TakeFrame(ad, a, fr) ELSE a) = a BY <3>1
    <3> QED BY <1>4, <2>1, <3>2, <3>3, Zenon
  <2>5. ReadPiece(ad, reader, p[i + 1]) = [reader EXCEPT !.buffer = Append(@, p[i + 1])]
    BY <1>5 DEF ReadPiece
  <2>6. [reader EXCEPT !.buffer = Append(@, p[i + 1])] =
          [buffer |-> Append(Held(p, i), p[i + 1]), data |-> d, st |-> a]
    BY BufferGrows
  <2> HIDE DEF reader
  <2> QED BY <2>2, <2>4, <2>5, <2>6
<1>6. ASSUME p[i + 1].half = 0 PROVE ReadPiece(ad, reader, p[i + 1]) = Mid(ad, a, fr, i + 1)
  <2> DEFINE line == Whole(Held(p, i))
             read == ReadLine(ad, reader, line)
  <2>1. Held(p, i + 1) = <<>> BY <1>1, <1>6 DEF Next1
  <2>2. ReadPiece(ad, reader, p[i + 1]) = [read EXCEPT !.buffer = <<>>] BY <1>6 DEF ReadPiece
  <2>3. read = IF Ended(ad, a) THEN reader
               ELSE IF ad = "ollama" THEN [buffer |-> Held(p, i), data |-> d, st |-> FrameOf(ad, a, line.load)]
               ELSE IF line.field = "data" THEN [buffer |-> Held(p, i), data |-> Append(d, line.load), st |-> a]
               ELSE IF line.field = "blank" /\ d # <<>>
                    THEN [buffer |-> Held(p, i), data |-> <<>>, st |-> FrameOf(ad, a, Join(d))]
               ELSE reader
    BY LineRead
  <2> HIDE DEF line, read
  <2>4. \/ ad = "ollama" /\ i + 1 = Len(p) /\ line = Line("object", fr)
        \/ ad # "ollama" /\ i + 1 = Len(p) /\ line = BlankLine
        \/ ad # "ollama" /\ i + 1 = Len(p) - 1 /\ line = Line("data", fr)
        \/ /\ ad # "ollama" /\ i + 1 < Len(p) - 1
           /\ \E field \in {"comment", "event"} : line = Line(field, Noise)
    BY <1>1, <1>6 DEF Next1, line
  <2>5. ASSUME NEW b, NEW x, NEW y, read = [buffer |-> b, data |-> x, st |-> y]
        PROVE  ReadPiece(ad, reader, p[i + 1]) = [buffer |-> <<>>, data |-> x, st |-> y]
    <3>1. [[buffer |-> b, data |-> x, st |-> y] EXCEPT !.buffer = <<>>] = [buffer |-> <<>>, data |-> x, st |-> y]
      OBVIOUS
    <3> QED BY <2>2, <2>5, <3>1
  <2>6. CASE Ended(ad, a)
    <3>1. read = [buffer |-> Held(p, i), data |-> <<>>, st |-> a] BY <2>3, <2>6 DEF d
    <3>2. ReadPiece(ad, reader, p[i + 1]) = [buffer |-> <<>>, data |-> <<>>, st |-> a] BY <2>5, <3>1
    <3>3. TakeFrame(ad, a, fr) = a BY <2>6 DEF TakeFrame
    <3> QED BY <1>4, <2>1, <2>6, <3>2, <3>3
  <2>7. ASSUME ~Ended(ad, a), ad = "ollama", i + 1 = Len(p), line = Line("object", fr)
        PROVE  ReadPiece(ad, reader, p[i + 1]) = Mid(ad, a, fr, i + 1)
    <3>1. line.load = fr BY <2>7 DEF Line
    <3>2. read = [buffer |-> Held(p, i), data |-> <<>>, st |-> FrameOf(ad, a, fr)]
      BY <2>3, <2>7, <3>1 DEF d
    <3>3. ReadPiece(ad, reader, p[i + 1]) = [buffer |-> <<>>, data |-> <<>>, st |-> FrameOf(ad, a, fr)]
      BY <2>5, <3>2
    <3>4. TakeFrame(ad, a, fr) = FrameOf(ad, a, fr) BY <2>7 DEF TakeFrame
    <3> QED BY <1>4, <2>1, <2>7, <3>3, <3>4
  <2>8. ASSUME ~Ended(ad, a), ad # "ollama", i + 1 = Len(p), line = BlankLine
        PROVE  ReadPiece(ad, reader, p[i + 1]) = Mid(ad, a, fr, i + 1)
    <3>1. line.field = "blank" BY <2>8 DEF BlankLine, Line
    <3>2. d = <<fr>> BY <1>1, <1>2, <2>8 DEF d
    <3>3. d # <<>> /\ Join(d) = fr BY <3>2 DEF Join
    <3>4. read = [buffer |-> Held(p, i), data |-> <<>>, st |-> FrameOf(ad, a, fr)]
      BY <2>3, <2>8, <3>1, <3>3
    <3>5. ReadPiece(ad, reader, p[i + 1]) = [buffer |-> <<>>, data |-> <<>>, st |-> FrameOf(ad, a, fr)]
      BY <2>5, <3>4
    <3>6. TakeFrame(ad, a, fr) = FrameOf(ad, a, fr) BY <2>8 DEF TakeFrame
    <3>7. i + 1 # Len(p) - 1 BY <1>1, <1>2, <2>8
    <3> QED BY <1>4, <2>1, <2>8, <3>5, <3>6, <3>7
  <2>9. ASSUME ~Ended(ad, a), ad # "ollama", i + 1 = Len(p) - 1, line = Line("data", fr)
        PROVE  ReadPiece(ad, reader, p[i + 1]) = Mid(ad, a, fr, i + 1)
    <3>1. line.field = "data" /\ line.load = fr BY <2>9 DEF Line
    <3>2. d = <<>> BY <1>1, <1>2, <2>9 DEF d
    <3>3. read = [buffer |-> Held(p, i), data |-> <<fr>>, st |-> a] BY <2>3, <2>9, <3>1, <3>2, Grown
    <3>4. ReadPiece(ad, reader, p[i + 1]) = [buffer |-> <<>>, data |-> <<fr>>, st |-> a] BY <2>5, <3>3
    <3>5. i + 1 # Len(p) BY <1>1, <1>2, <2>9
    <3> QED BY <1>4, <2>1, <2>9, <3>4, <3>5
  <2>10. ASSUME ~Ended(ad, a), ad # "ollama", i + 1 < Len(p) - 1, NEW field \in {"comment", "event"},
                line = Line(field, Noise)
         PROVE  ReadPiece(ad, reader, p[i + 1]) = Mid(ad, a, fr, i + 1)
    <3>1. line.field # "data" /\ line.field # "blank" BY <2>10 DEF Line
    <3>2. i + 1 # Len(p) - 1 /\ i + 1 # Len(p) /\ i # Len(p) - 1 BY <1>1, <1>2, <2>10
    <3>3. d = <<>> BY <3>2 DEF d
    <3>4. read = [buffer |-> Held(p, i), data |-> <<>>, st |-> a] BY <2>3, <2>10, <3>1, <3>3
    <3>5. ReadPiece(ad, reader, p[i + 1]) = [buffer |-> <<>>, data |-> <<>>, st |-> a] BY <2>5, <3>4
    <3> QED BY <1>4, <2>1, <3>2, <3>5
  <2> QED BY <2>4, <2>6, <2>7, <2>8, <2>9, <2>10
<1>7. ReadPiece(ad, reader, p[i + 1]) = Mid(ad, a, fr, i + 1) BY <1>5, <1>6
<1> QED BY <1>3, <1>7 DEF p, d

(* The line that the buffer would make, were there no more of it. *)
LEMMA WholeAt ==
  ASSUME NEW ad, NEW fr \in SomeFrame, NEW i \in 0..(Len(PiecesOf(ad, fr)) - 1)
  PROVE  LET p == PiecesOf(ad, fr)
             line == Whole(Held(p, i))
         IN  /\ i < TextEnd(ad, p) => (ad = "ollama" \/ line.field \in {"data", "object"} => line.load = Noise)
             /\ i = TextEnd(ad, p) => line = Line(IF ad = "ollama" THEN "object" ELSE "data", fr)
             /\ i > TextEnd(ad, p) => ad # "ollama" /\ i = Len(p) - 1 /\ line = BlankLine
             /\ ad # "ollama" /\ i < Len(p) - 1 => i <= TextEnd(ad, p)
<1> DEFINE p == PiecesOf(ad, fr)
           line == Whole(Held(p, i))
<1>1. /\ i \in 0..(Len(p) - 1)
      /\ \/ ad = "ollama" /\ IsObject(fr, p)
         \/ ad # "ollama" /\ IsPlain(fr, p)
         \/ ad # "ollama" /\ \E field \in {"comment", "event"} : IsLed(Line(field, Noise), fr, p)
  <2>1. \A x, l : IsObject(x, Object(x)) /\ IsPlain(x, Plain(x)) /\ IsLed(l, x, Led(l, x))
    BY ObjectHeld, PlainHeld, LedHeld
  <2> QED BY <2>1, Shapes
<1>2. \A field, load : Line(field, load).field = field /\ Line(field, load).load = load BY DEF Line
<1>3. BlankLine.field = "blank" /\ BlankLine.load = Noise BY <1>2 DEF BlankLine
<1> HIDE DEF p
<1> DEFINE Goal == /\ i < TextEnd(ad, p) => (ad = "ollama" \/ line.field \in {"data", "object"} => line.load = Noise)
                   /\ i = TextEnd(ad, p) => line = Line(IF ad = "ollama" THEN "object" ELSE "data", fr)
                   /\ i > TextEnd(ad, p) => ad # "ollama" /\ i = Len(p) - 1 /\ line = BlankLine
                   /\ ad # "ollama" /\ i < Len(p) - 1 => i <= TextEnd(ad, p)
<1>4. ASSUME ad = "ollama", IsObject(fr, p) PROVE Goal
  <2>1. Len(p) = 3 /\ TextEnd(ad, p) = 2 BY <1>4 DEF IsObject, TextEnd
  <2>2. i = 0 \/ i = 1 \/ i = 2 BY <1>1, <2>1
  <2>3. i = 0 => line = BlankLine BY <1>4, WholeIs DEF IsObject
  <2>4. i = 1 => line = Line("object", Noise) BY <1>4, <1>2, WholeIs DEF IsObject
  <2>5. i = 2 => line = Line("object", fr) BY <1>4, WholeIs DEF IsObject
  <2> HIDE DEF line
  <2> QED BY <1>2, <1>3, <1>4, <2>1, <2>2, <2>3, <2>4, <2>5
<1>5. ASSUME ad # "ollama", IsPlain(fr, p) PROVE Goal
  <2>1. Len(p) = 4 /\ TextEnd(ad, p) = 2 BY <1>5 DEF IsPlain, TextEnd
  <2>2. i = 0 \/ i = 1 \/ i = 2 \/ i = 3 BY <1>1, <2>1
  <2>3. i = 0 => line = BlankLine BY <1>5, WholeIs DEF IsPlain
  <2>4. i = 1 => line = Line("data", Noise) BY <1>5, <1>2, WholeIs DEF IsPlain
  <2>5. i = 2 => line = Line("data", fr) BY <1>5, WholeIs DEF IsPlain
  <2>6. i = 3 => line = BlankLine BY <1>5, WholeIs DEF IsPlain
  <2> HIDE DEF line
  <2> QED BY <1>2, <1>3, <1>5, <2>1, <2>2, <2>3, <2>4, <2>5, <2>6
<1>6. ASSUME ad # "ollama", NEW field \in {"comment", "event"}, IsLed(Line(field, Noise), fr, p) PROVE Goal
  <2>1. Len(p) = 7 /\ TextEnd(ad, p) = 5 BY <1>6 DEF IsLed, TextEnd
  <2>2. i = 0 \/ i = 1 \/ i = 2 \/ i = 3 \/ i = 4 \/ i = 5 \/ i = 6 BY <1>1, <2>1
  <2>3. i = 0 \/ i = 3 \/ i = 6 => line = BlankLine BY <1>6, WholeIs DEF IsLed
  <2>4. i = 1 \/ i = 2 => line = Line(field, Noise) BY <1>6, <1>2, WholeIs DEF IsLed
  <2>5. i = 4 => line = Line("data", Noise) BY <1>6, <1>2, WholeIs DEF IsLed
  <2>6. i = 5 => line = Line("data", fr) BY <1>6, WholeIs DEF IsLed
  <2> HIDE DEF line
  <2> QED BY <1>2, <1>3, <1>6, <2>1, <2>2, <2>3, <2>4, <2>5, <2>6
<1> HIDE DEF Goal
<1>7. Goal BY <1>1, <1>4, <1>5, <1>6
<1> QED BY <1>7 DEF Goal, p

LEMMA Beside ==
  ASSUME NEW x
  PROVE  /\ <<>> \o <<>> = <<>> /\ <<>> \o <<x>> = <<x>> /\ <<x>> \o <<>> = <<x>>
         /\ <<x>> # <<>>
<1>1. <<>> \in Seq({x}) /\ <<x>> \in Seq({x}) OBVIOUS
<1>2. \A s \in Seq({x}) : <<>> \o s = s /\ s \o <<>> = s BY ConcatEmptySeq
<1>3. <<x>> # <<>> OBVIOUS
<1> QED BY <1>1, <1>2, <1>3

(* The text of a line, if it has one. *)
TextOf(line) == IF line.field \in {"data", "object"} THEN <<line.load>> ELSE <<>>

LEMMA TrailingIs ==
  ASSUME NEW ad, NEW b, NEW d, NEW a
  PROVE  Trailing(ad, [buffer |-> b, data |-> d, st |-> a]) =
           IF ad = "ollama" THEN ollamaTail(a, Whole(b).load)
           ELSE IF d \o TextOf(Whole(b)) # <<>> THEN FrameOf(ad, a, Join(d \o TextOf(Whole(b)))) ELSE a
<1> DEFINE reader == [buffer |-> b, data |-> d, st |-> a]
           lines == d \o TextOf(Whole(b))
           one == ollamaTail(a, Whole(b).load)
           two == FrameOf(ad, a, Join(lines))
           object == ad = "ollama"
           some == lines # <<>>
           rules == << <<object, one>>, <<some, two>>, <<TRUE, a>> >>
           n == 3
<1>1. Trailing(ad, reader) = FirstMatch(rules) BY DEF Trailing, TextOf
<1>2. object \in BOOLEAN /\ some \in BOOLEAN OBVIOUS
<1> HIDE DEF object, some, one, two
<1>3. n \in Nat \ {0} /\ DOMAIN rules = 1..n /\ rules[n][1] OBVIOUS
<1>4. /\ (rules[1][1] <=> object) /\ (rules[2][1] <=> some)
      /\ rules[1][2] = one /\ rules[2][2] = two /\ rules[3][2] = a
  BY <1>2
<1>5. n = 3 OBVIOUS
<1> HIDE DEF rules, n
<1>6. PICK k \in 1..n : FirstMatch(rules) = rules[k][2] /\ rules[k][1] /\ \A j \in 1..(k - 1) : ~rules[j][1]
  BY <1>3, FirstMatched
<1>7. k = 1 \/ k = 2 \/ k = 3 BY <1>5
<1>8. k > 1 => 1 \in 1..(k - 1) OBVIOUS
<1>9. k > 2 => 2 \in 1..(k - 1) OBVIOUS
<1>10. FirstMatch(rules) = IF object THEN one ELSE IF some THEN two ELSE a
  BY <1>4, <1>6, <1>7, <1>8, <1>9
<1> QED BY <1>1, <1>10 DEF object, some, one, two

LEMMA TrailingNone ==
  ASSUME NEW ad, NEW a \in Told PROVE Trailing(ad, [buffer |-> <<>>, data |-> <<>>, st |-> a]) = a
<1>1. Whole(<<>>) = BlankLine /\ BlankLine.field = "blank" /\ BlankLine.load = Noise
  BY WholeIs DEF BlankLine, Line
<1>2. TextOf(Whole(<<>>)) = <<>> /\ Whole(<<>>).load = Noise BY <1>1 DEF TextOf
<1>3. <<>> \o TextOf(Whole(<<>>)) = <<>> BY <1>2, Beside
<1> QED BY <1>2, <1>3, TrailingIs, NoiseSilent

(* The end of the body after i pieces of a frame. *)
LEMMA TrailingRead ==
  ASSUME NEW ad, NEW a \in Told, NEW fr \in SomeFrame, NEW i \in 0..(Len(PiecesOf(ad, fr)) - 1), ~Ended(ad, a)
  PROVE  Trailing(ad, Mid(ad, a, fr, i)) =
           IF i < TextEnd(ad, PiecesOf(ad, fr)) THEN a
           ELSE IF ad = "ollama" THEN ollamaTail(a, fr) ELSE TakeFrame(ad, a, fr)
<1> DEFINE p == PiecesOf(ad, fr)
           d == IF ad # "ollama" /\ i = Len(p) - 1 THEN <<fr>> ELSE <<>>
           line == Whole(Held(p, i))
           e == TextOf(line)
           lines == d \o e
           reader == [buffer |-> Held(p, i), data |-> d, st |-> a]
<1>1. i \in 0..(Len(p) - 1) /\ Len(p) \in {3, 4, 7} /\ TextEnd(ad, p) \in 1..(Len(p) - 1) BY PiecesMany
<1>2. Mid(ad, a, fr, i) = reader
  <2>1. i # Len(p)
    <3> HIDE DEF p
    <3> QED BY <1>1
  <2> QED BY <2>1 DEF Mid
<1>4. /\ i < TextEnd(ad, p) => (ad = "ollama" \/ line.field \in {"data", "object"} => line.load = Noise)
      /\ i = TextEnd(ad, p) => line = Line(IF ad = "ollama" THEN "object" ELSE "data", fr)
      /\ i > TextEnd(ad, p) => ad # "ollama" /\ i = Len(p) - 1 /\ line = BlankLine
      /\ ad # "ollama" /\ i < Len(p) - 1 => i <= TextEnd(ad, p)
  BY WholeAt
<1>5. \A field, load : Line(field, load).field = field /\ Line(field, load).load = load BY DEF Line
<1> HIDE DEF p, d
<1>6. Trailing(ad, reader) = IF ad = "ollama" THEN ollamaTail(a, line.load)
                             ELSE IF lines # <<>> THEN FrameOf(ad, a, Join(lines)) ELSE a
  BY TrailingIs
<1> HIDE DEF line, reader, e
<1>8. CASE ad = "ollama"
  <2>1. Trailing(ad, reader) = ollamaTail(a, line.load) BY <1>6, <1>8
  <2>2. i < TextEnd(ad, p) => line.load = Noise BY <1>4, <1>8
  <2>3. ~(i < TextEnd(ad, p)) => line.load = fr BY <1>1, <1>4, <1>5, <1>8
  <2>4. ollamaTail(a, Noise) = a BY NoiseSilent
  <2> QED BY <1>2, <1>8, <2>1, <2>2, <2>3, <2>4 DEF p
<1>9. CASE ad # "ollama"
  <2>1. Trailing(ad, reader) = IF lines # <<>> THEN FrameOf(ad, a, Join(lines)) ELSE a BY <1>6, <1>9
  <2>2. ASSUME i < TextEnd(ad, p) PROVE Trailing(ad, reader) = a
    <3>1. d = <<>> BY <1>1, <1>9, <2>2 DEF d, TextEnd
    <3>2. e = <<>> \/ e = <<Noise>> BY <1>4, <1>9, <2>2 DEF e, TextOf
    <3>3. lines = <<>> \/ lines = <<Noise>> BY <3>1, <3>2, Beside
    <3>4. Join(<<Noise>>) = Noise BY DEF Join
    <3> HIDE DEF lines
    <3> QED BY <2>1, <3>3, <3>4, NoiseSilent
  <2>3. ASSUME ~(i < TextEnd(ad, p)) PROVE Trailing(ad, reader) = TakeFrame(ad, a, fr)
    <3>1. lines = <<fr>>
      <4>1. CASE i = TextEnd(ad, p)
        <5>1. line = Line("data", fr) BY <1>4, <1>9, <4>1
        <5>2. i # Len(p) - 1 BY <1>1, <1>9, <4>1 DEF TextEnd
        <5>3. d = <<>> BY <5>2 DEF d
        <5>4. e = <<fr>> BY <1>5, <5>1 DEF e, TextOf
        <5> QED BY <5>3, <5>4, Beside
      <4>2. CASE i > TextEnd(ad, p)
        <5>1. line.field = "blank" /\ i = Len(p) - 1 BY <1>4, <1>5, <4>2 DEF BlankLine
        <5>2. d = <<fr>> BY <1>9, <5>1 DEF d
        <5>3. e = <<>> BY <5>1 DEF e, TextOf
        <5> QED BY <5>2, <5>3, Beside
      <4> QED BY <1>1, <2>3, <4>1, <4>2
    <3> HIDE DEF lines
    <3>2. lines # <<>> BY <3>1, Beside
    <3>3. Join(lines) = fr BY <3>1 DEF Join
    <3> QED BY <2>1, <3>2, <3>3 DEF TakeFrame
  <2> QED BY <1>2, <1>9, <2>2, <2>3 DEF p
<1> QED BY <1>8, <1>9

-----------------------------------------------------------------------------
(* The text of the first frames, and what they say. *)

Sent(ad, frs) ==
  LET sent[k \in 0..Len(frs)] == IF k = 0 THEN <<>> ELSE sent[k - 1] \o PiecesOf(ad, frs[k])
  IN  sent

LEMMA SentIs ==
  ASSUME NEW ad, NEW frs \in Seq(SomeFrame)
  PROVE  /\ Body(ad, frs) = Sent(ad, frs)[Len(frs)]
         /\ Sent(ad, frs) \in [0..Len(frs) -> Seq(SomePiece)]
         /\ Sent(ad, frs)[0] = <<>>
         /\ \A k \in 1..Len(frs) : Sent(ad, frs)[k] = Sent(ad, frs)[k - 1] \o PiecesOf(ad, frs[k])
<1> DEFINE n == Len(frs)
           S == Seq(SomePiece)
           g == [x \in S \X (1..n) |-> x[1] \o PiecesOf(ad, frs[x[2]])]
           Is(f) == f = [k \in 0..n |-> IF k = 0 THEN <<>> ELSE f[k - 1] \o PiecesOf(ad, frs[k])]
           sent == CHOOSE f : Is(f)
<1>1. n \in Nat /\ \A k \in 1..n : frs[k] \in SomeFrame OBVIOUS
<1>2. \A k \in 1..n : PiecesOf(ad, frs[k]) \in S BY <1>1, PiecesType
<1>3. Sent(ad, frs) = sent BY Zenon DEF Sent
<1>4. Body(ad, frs) = sent[n] BY Zenon DEF Body
<1> HIDE DEF n
<1>5. g \in [S \X (1..n) -> S]
  <2>1. ASSUME NEW x \in S \X (1..n) PROVE x[1] \o PiecesOf(ad, frs[x[2]]) \in S
    <3>1. x[1] \in S /\ PiecesOf(ad, frs[x[2]]) \in S BY <1>2
    <3> QED BY <3>1
  <2> QED BY <2>1
<1>6. \A x \in S, k \in 1..n : g[<<x, k>>] = x \o PiecesOf(ad, frs[k]) OBVIOUS
<1> HIDE DEF g
<1>7. <<>> \in S OBVIOUS
<1>8. PICK f \in [0..n -> S] : Steps(f, n, <<>>, g)
  <2> HIDE DEF S
  <2> QED BY <1>1, <1>5, <1>7, Recursion
<1>9. Is(f)
  <2>1. ASSUME NEW k \in 0..n
        PROVE  f[k] = IF k = 0 THEN <<>> ELSE f[k - 1] \o PiecesOf(ad, frs[k])
    <3>1. f[k] = IF k = 0 THEN <<>> ELSE g[<<f[k - 1], k>>] BY <1>8 DEF Steps
    <3>2. k # 0 => k \in 1..n /\ f[k - 1] \in S BY <1>1
    <3> QED BY <1>6, <3>1, <3>2
  <2>2. f = [k \in 0..n |-> f[k]] OBVIOUS
  <2> QED BY <2>1, <2>2
<1>10. Is(sent)
  <2> HIDE DEF Is
  <2> QED BY <1>9
<1>11. sent = [k \in 0..n |-> IF k = 0 THEN <<>> ELSE sent[k - 1] \o PiecesOf(ad, frs[k])] BY <1>10
<1> HIDE DEF sent
<1>12. sent[0] = <<>> /\ \A k \in 1..n : sent[k] = sent[k - 1] \o PiecesOf(ad, frs[k])
  <2>1. 0 \in 0..n BY <1>1
  <2>2. sent[0] = <<>> BY <1>11, <2>1
  <2>3. ASSUME NEW k \in 1..n PROVE sent[k] = sent[k - 1] \o PiecesOf(ad, frs[k])
    <3>1. k \in 0..n /\ k # 0 BY <1>1
    <3> QED BY <1>11, <3>1
  <2> QED BY <2>2, <2>3
<1>13. \A k \in 0..n : sent[k] \in S
  <2>1. sent[0] \in S BY <1>12
  <2>2. ASSUME NEW k \in 1..n, sent[k - 1] \in S PROVE sent[k] \in S
    <3>1. sent[k] = sent[k - 1] \o PiecesOf(ad, frs[k]) /\ PiecesOf(ad, frs[k]) \in S BY <1>2, <1>12
    <3> QED BY <2>2, <3>1
  <2> HIDE DEF S
  <2> QED BY <1>1, <2>1, <2>2, StaysIn
<1>14. sent \in [0..n -> S]
  <2>1. sent = [k \in 0..n |-> sent[k]] BY <1>11
  <2> QED BY <1>13, <2>1
<1> QED BY <1>3, <1>4, <1>12, <1>14 DEF n

LEMMA SentTyped ==
  ASSUME NEW ad, NEW frs \in Seq(SomeFrame)
  PROVE  Body(ad, frs) \in Seq(SomePiece) /\ \A k \in 0..Len(frs) : Len(Sent(ad, frs)[k]) \in Nat
<1>1. Body(ad, frs) = Sent(ad, frs)[Len(frs)] BY SentIs
<1>2. \A k \in 0..Len(frs) : Sent(ad, frs)[k] \in Seq(SomePiece) BY SentIs
<1>3. Len(frs) \in 0..Len(frs) OBVIOUS
<1> QED BY <1>1, <1>2, <1>3

LEMMA TakenIs ==
  ASSUME NEW ad, NEW frs \in Seq(SomeFrame)
  PROVE  /\ Taken(ad, frs) \in [0..Len(frs) -> Told]
         /\ Taken(ad, frs)[0] = Fresh(ad)
         /\ \A k \in 1..Len(frs) : Taken(ad, frs)[k] = TakeFrame(ad, Taken(ad, frs)[k - 1], frs[k])
<1> DEFINE n == Len(frs)
           g == [x \in Told \X (1..n) |-> TakeFrame(ad, x[1], frs[x[2]])]
           Is(f) == f = [k \in 0..n |-> IF k = 0 THEN Fresh(ad) ELSE TakeFrame(ad, f[k - 1], frs[k])]
           taken == CHOOSE f : Is(f)
<1>1. n \in Nat /\ \A k \in 1..n : frs[k] \in SomeFrame OBVIOUS
<1>2. \A a \in Told, k \in 1..n : TakeFrame(ad, a, frs[k]) \in Told BY <1>1, FrameGoes DEF Goes
<1>3. Taken(ad, frs) = taken BY Zenon DEF Taken
<1> HIDE DEF n
<1>5. g \in [Told \X (1..n) -> Told]
  <2>1. ASSUME NEW x \in Told \X (1..n) PROVE TakeFrame(ad, x[1], frs[x[2]]) \in Told BY <1>2
  <2> QED BY <2>1
<1>6. \A x \in Told, k \in 1..n : g[<<x, k>>] = TakeFrame(ad, x, frs[k]) OBVIOUS
<1> HIDE DEF g
<1>7. Fresh(ad) \in Told BY FreshType
<1>8. PICK f \in [0..n -> Told] : Steps(f, n, Fresh(ad), g) BY <1>1, <1>5, <1>7, Recursion
<1>9. Is(f)
  <2>1. ASSUME NEW k \in 0..n
        PROVE  f[k] = IF k = 0 THEN Fresh(ad) ELSE TakeFrame(ad, f[k - 1], frs[k])
    <3>1. f[k] = IF k = 0 THEN Fresh(ad) ELSE g[<<f[k - 1], k>>] BY <1>8 DEF Steps
    <3>2. k # 0 => k \in 1..n /\ f[k - 1] \in Told BY <1>1
    <3> QED BY <1>6, <3>1, <3>2
  <2>2. f = [k \in 0..n |-> f[k]] OBVIOUS
  <2> QED BY <2>1, <2>2
<1>10. Is(taken)
  <2> HIDE DEF Is
  <2> QED BY <1>9
<1>11. taken = [k \in 0..n |-> IF k = 0 THEN Fresh(ad) ELSE TakeFrame(ad, taken[k - 1], frs[k])] BY <1>10
<1> HIDE DEF taken
<1>12. taken[0] = Fresh(ad) /\ \A k \in 1..n : taken[k] = TakeFrame(ad, taken[k - 1], frs[k])
  BY <1>1, <1>11
<1>13. \A k \in 0..n : taken[k] \in Told
  <2>1. taken[0] \in Told BY <1>7, <1>12
  <2>2. ASSUME NEW k \in 1..n, taken[k - 1] \in Told PROVE taken[k] \in Told BY <1>2, <1>12, <2>2
  <2> QED BY <1>1, <2>1, <2>2, StaysIn
<1>14. taken \in [0..n -> Told]
  <2>1. taken = [k \in 0..n |-> taken[k]] BY <1>11
  <2> QED BY <1>13, <2>1
<1> QED BY <1>3, <1>12, <1>14 DEF n

(* Where the pieces of a frame are in the body. *)
Lies(ad, frs, k) ==
  \A i \in 1..Len(PiecesOf(ad, frs[k])) :
    Body(ad, frs)[Len(Sent(ad, frs)[k - 1]) + i] = PiecesOf(ad, frs[k])[i]

LEMMA BodyAt ==
  ASSUME NEW ad, NEW frs \in Seq(SomeFrame), NEW k \in 1..Len(frs)
  PROVE  /\ Body(ad, frs) \in Seq(SomePiece)
         /\ Len(Sent(ad, frs)[k]) = Len(Sent(ad, frs)[k - 1]) + Len(PiecesOf(ad, frs[k]))
         /\ Len(Sent(ad, frs)[k]) <= Len(Body(ad, frs))
         /\ Lies(ad, frs, k)
<1> DEFINE n == Len(frs)
           sent == Sent(ad, frs)
           pieces == PiecesOf(ad, frs[k])
           P == {m \in 0..n : k <= m => IsPrefix(sent[k], sent[m])}
<1>1. n \in Nat /\ \A m \in 1..n : frs[m] \in SomeFrame OBVIOUS
<1>2. \A m \in 1..n : PiecesOf(ad, frs[m]) \in Seq(SomePiece) BY <1>1, PiecesType
<1>3. /\ Body(ad, frs) = sent[n] /\ \A m \in 0..n : sent[m] \in Seq(SomePiece)
      /\ \A m \in 1..n : sent[m] = sent[m - 1] \o PiecesOf(ad, frs[m])
  BY SentIs
<1> HIDE DEF n, sent
<1>4. k \in 1..n /\ k \in 0..n /\ k - 1 \in 0..n /\ n \in 0..n BY <1>1 DEF n
<1>5. sent[k] \in Seq(SomePiece) /\ sent[k - 1] \in Seq(SomePiece) /\ sent[n] \in Seq(SomePiece)
  BY <1>3, <1>4
<1>6. \A m \in 0..n : m \in P
  <2>1. 0 \in P BY <1>1, <1>4
  <2>2. ASSUME NEW m \in 0..n, m \in P, m < n PROVE m + 1 \in P
    <3>1. m + 1 \in 1..n /\ m + 1 \in 0..n /\ (m + 1) - 1 = m BY <1>1, <2>2
    <3>2. sent[m + 1] = sent[m] \o PiecesOf(ad, frs[m + 1]) BY <1>3, <3>1
    <3>3. sent[m] \in Seq(SomePiece) /\ PiecesOf(ad, frs[m + 1]) \in Seq(SomePiece) BY <1>2, <1>3, <3>1
    <3>4. IsPrefix(sent[m], sent[m + 1]) /\ sent[m + 1] \in Seq(SomePiece) BY <3>2, <3>3, PrefixThen
    <3>5. CASE k <= m
      <4>1. IsPrefix(sent[k], sent[m]) BY <2>2, <3>5
      <4>2. IsPrefix(sent[k], sent[m + 1]) BY <1>5, <3>3, <3>4, <4>1, PrefixOn
      <4> QED BY <3>1, <4>2
    <3>6. CASE k = m + 1
      <4>1. IsPrefix(sent[k], sent[m + 1]) BY <1>5, <3>6, PrefixSame
      <4> QED BY <3>1, <4>1
    <3>7. CASE k > m + 1 BY <3>1, <3>7
    <3> QED BY <1>4, <2>2, <3>5, <3>6, <3>7
  <2> HIDE DEF P
  <2> QED BY <1>1, <2>1, <2>2, Upward
<1>7. IsPrefix(sent[k], sent[n])
  <2>1. n \in P BY <1>4, <1>6
  <2> QED BY <1>4, <2>1
<1>8. pieces \in Seq(SomePiece) /\ sent[k] = sent[k - 1] \o pieces BY <1>2, <1>3, <1>4
<1> HIDE DEF pieces
<1>9. /\ Len(sent[k]) = Len(sent[k - 1]) + Len(pieces)
      /\ \A i \in 1..Len(pieces) : sent[k][Len(sent[k - 1]) + i] = pieces[i]
  <2>1. Len(sent[k]) = Len(sent[k - 1]) + Len(pieces) /\ Len(pieces) \in Nat /\ Len(sent[k - 1]) \in Nat
    BY <1>5, <1>8
  <2>2. ASSUME NEW i \in 1..Len(pieces) PROVE sent[k][Len(sent[k - 1]) + i] = pieces[i]
    <3>1. Len(sent[k - 1]) + i \in 1..(Len(sent[k - 1]) + Len(pieces)) /\ ~(Len(sent[k - 1]) + i <= Len(sent[k - 1]))
          /\ (Len(sent[k - 1]) + i) - Len(sent[k - 1]) = i
      BY <2>1
    <3> QED BY <1>5, <1>8, <3>1, ConcatProperties
  <2> QED BY <2>1, <2>2
<1>10. Len(sent[k]) <= Len(sent[n]) /\ \A i \in 1..Len(sent[k]) : sent[k][i] = sent[n][i]
  BY <1>5, <1>7, PrefixElements
<1>11. \A i \in 1..Len(pieces) : sent[n][Len(sent[k - 1]) + i] = pieces[i]
  <2>1. ASSUME NEW i \in 1..Len(pieces) PROVE sent[n][Len(sent[k - 1]) + i] = pieces[i]
    <3>1. Len(sent[k - 1]) + i \in 1..Len(sent[k]) BY <1>5, <1>8, <1>9
    <3> QED BY <1>9, <1>10, <3>1
  <2> QED BY <2>1
<1> QED BY <1>3, <1>5, <1>9, <1>10, <1>11 DEF sent, pieces, Lies

-----------------------------------------------------------------------------
(* What a reader is like after so many pieces of the body. *)

Part(ad, frs, n) == SubSeq(Body(ad, frs), 1, n)
EndsText(piece) == piece.half = 2 /\ piece.line.field \in {"data", "object"}
Heard(ad, frs, n) == Cardinality({k \in DOMAIN Part(ad, frs, n) : EndsText(Part(ad, frs, n)[k])})
OpenEnd(ad, frs, n) == ad = "ollama" /\ Part(ad, frs, n) # <<>> /\ Last(Part(ad, frs, n)).half = 2

LEMMA PartIs ==
  ASSUME NEW ad, NEW frs, Body(ad, frs) \in Seq(SomePiece), NEW n \in 0..Len(Body(ad, frs))
  PROVE  /\ Part(ad, frs, n) \in Seq(SomePiece) /\ Len(Part(ad, frs, n)) = n
         /\ \A k \in 1..n : Part(ad, frs, n)[k] = Body(ad, frs)[k]
         /\ n = 0 => ~OpenEnd(ad, frs, n)
         /\ n > 0 => (OpenEnd(ad, frs, n) <=> ad = "ollama" /\ Body(ad, frs)[n].half = 2)
<1> DEFINE b == Body(ad, frs)
           p == Part(ad, frs, n)
<1>1. b \in Seq(SomePiece) /\ n \in 0..Len(b) /\ p = SubSeq(b, 1, n) BY DEF Part
<1> HIDE DEF b, p
<1>2. p \in Seq(SomePiece) /\ Len(p) = n /\ \A k \in 1..n : p[k] = b[k]
  <2>1. \A k \in 1..n : k \in 1..Len(b) BY <1>1
  <2> QED BY <1>1, <2>1, SubSeqProperties
<1>3. n = 0 => p = <<>> BY <1>1, <1>2
<1>4. n > 0 => p # <<>> /\ Last(p) = b[n]
  <2>1. SUFFICES ASSUME n > 0 PROVE p # <<>> /\ Last(p) = b[n] OBVIOUS
  <2>2. n \in 1..n BY <1>1, <2>1
  <2>3. p # <<>> BY <1>1, <1>2, <2>1
  <2> QED BY <1>2, <2>2, <2>3 DEF Last
<1> QED BY <1>2, <1>3, <1>4 DEF b, p, OpenEnd

LEMMA HeardIs ==
  ASSUME NEW ad, NEW frs, Body(ad, frs) \in Seq(SomePiece)
  PROVE  /\ Heard(ad, frs, 0) = 0
         /\ \A n \in 0..(Len(Body(ad, frs)) - 1) :
              Heard(ad, frs, n) \in Nat =>
                Heard(ad, frs, n + 1) = Heard(ad, frs, n) + (IF EndsText(Body(ad, frs)[n + 1]) THEN 1 ELSE 0)
<1> DEFINE b == Body(ad, frs)
           T(n) == {k \in 1..n : EndsText(b[k])}
<1>1. b \in Seq(SomePiece) /\ Len(b) \in Nat OBVIOUS
<1>2. ASSUME NEW n \in 0..Len(b) PROVE Heard(ad, frs, n) = Cardinality(T(n))
  <2> DEFINE p == Part(ad, frs, n)
  <2>1. p \in Seq(SomePiece) /\ Len(p) = n /\ \A k \in 1..n : p[k] = b[k] BY PartIs
  <2>2. Heard(ad, frs, n) = Cardinality({k \in DOMAIN p : EndsText(p[k])}) BY DEF Heard
  <2> HIDE DEF p, b
  <2>3. DOMAIN p = 1..n BY <2>1
  <2>4. {k \in DOMAIN p : EndsText(p[k])} = T(n) BY <2>1, <2>3
  <2> QED BY <2>2, <2>4
<1> HIDE DEF b
<1>3. T(0) = {} OBVIOUS
<1>4. Heard(ad, frs, 0) = 0
  <2>1. 0 \in 0..Len(b) BY <1>1
  <2> QED BY <1>2, <1>3, <2>1, FS_EmptySet
<1>5. ASSUME NEW n \in 0..(Len(b) - 1), Heard(ad, frs, n) \in Nat
      PROVE  Heard(ad, frs, n + 1) = Heard(ad, frs, n) + (IF EndsText(b[n + 1]) THEN 1 ELSE 0)
  <2>1. n \in Nat /\ n \in 0..Len(b) /\ n + 1 \in 0..Len(b) BY <1>1
  <2>2. IsFiniteSet(T(n))
    <3>1. IsFiniteSet(1..n) BY <2>1, FS_Interval
    <3>2. T(n) \subseteq 1..n OBVIOUS
    <3> HIDE DEF T
    <3> QED BY <3>1, <3>2, FS_Subset
  <2>3. n + 1 \notin T(n) BY <2>1
  <2>4. T(n + 1) = IF EndsText(b[n + 1]) THEN T(n) \cup {n + 1} ELSE T(n) BY <2>1
  <2> HIDE DEF T
  <2>5. Cardinality(T(n) \cup {n + 1}) = Cardinality(T(n)) + 1 BY <2>2, <2>3, FS_AddElement
  <2> QED BY <1>2, <1>5, <2>1, <2>4, <2>5
<1> QED BY <1>4, <1>5 DEF b

Reader == [buffer : Seq(SomePiece), data : Seq(SomeFrame), st : Told]

LEMMA ReadTyped ==
  ASSUME NEW ad, NEW reader \in Reader, NEW piece \in SomePiece
  PROVE  ReadPiece(ad, reader, piece) \in Reader
<1> DEFINE b == reader.buffer
           d == reader.data
           a == reader.st
           line == Whole(b)
           read == ReadLine(ad, [buffer |-> b, data |-> d, st |-> a], line)
<1>1. b \in Seq(SomePiece) /\ d \in Seq(SomeFrame) /\ a \in Told /\ reader = [buffer |-> b, data |-> d, st |-> a]
  BY DEF Reader
<1> HIDE DEF b, d, a
<1>2. CASE piece.half # 0
  <2>1. Append(b, piece) \in Seq(SomePiece) BY <1>1
  <2>2. ReadPiece(ad, reader, piece) = [reader EXCEPT !.buffer = Append(b, piece)]
    BY <1>1, <1>2 DEF ReadPiece, b
  <2> QED BY <2>1, <2>2 DEF Reader
<1>3. CASE piece.half = 0
  <2>1. line \in LineOf
    <3>1. ASSUME NEW field \in {"object", "comment", "event", "data", "blank"}, NEW load \in SomeFrame
          PROVE  Line(field, load) \in LineOf
      BY DEF Line, LineOf
    <3>2. BlankLine \in LineOf /\ Line("object", Noise) \in LineOf BY <3>1, NoiseType DEF BlankLine
    <3>3. CASE b = <<>> BY <3>2, <3>3 DEF Whole
    <3>4. CASE b # <<>>
      <4>1. b[1] \in SomePiece BY <1>1, <3>4
      <4>2. b[1].line \in LineOf /\ b[1].line.field \in {"object", "comment", "event", "data", "blank"}
        BY <4>1 DEF SomePiece, LineOf
      <4>3. Line(b[1].line.field, Noise) \in LineOf BY <3>1, <4>2, NoiseType
      <4> QED BY <3>2, <3>4, <4>2, <4>3 DEF Whole
    <3> QED BY <3>3, <3>4
  <2>2. line.load \in SomeFrame BY <2>1 DEF LineOf
  <2>3. Join(d) \in SomeFrame
    <3>1. Len(d) = 1 => d[1] \in SomeFrame BY <1>1
    <3> QED BY <3>1, NoiseType DEF Join
  <2>4. FrameOf(ad, a, line.load) \in Told /\ FrameOf(ad, a, Join(d)) \in Told
    BY <1>1, <2>2, <2>3, FrameGoes DEF Goes
  <2>5. Append(d, line.load) \in Seq(SomeFrame) /\ <<>> \in Seq(SomeFrame) BY <1>1, <2>2
  <2>6. read \in [buffer : {b}, data : Seq(SomeFrame), st : Told]
    <3> HIDE DEF line
    <3> DEFINE R == [buffer : {b}, data : Seq(SomeFrame), st : Told]
    <3>1. \A x \in Seq(SomeFrame), y \in Told : [buffer |-> b, data |-> x, st |-> y] \in R OBVIOUS
    <3>2. read = IF Ended(ad, a) THEN [buffer |-> b, data |-> d, st |-> a]
                 ELSE IF ad = "ollama" THEN [buffer |-> b, data |-> d, st |-> FrameOf(ad, a, line.load)]
                 ELSE IF line.field = "data" THEN [buffer |-> b, data |-> Append(d, line.load), st |-> a]
                 ELSE IF line.field = "blank" /\ d # <<>>
                      THEN [buffer |-> b, data |-> <<>>, st |-> FrameOf(ad, a, Join(d))]
                 ELSE [buffer |-> b, data |-> d, st |-> a]
      BY LineRead
    <3> HIDE DEF R, read
    <3>3. read \in R BY <1>1, <2>4, <2>5, <3>1, <3>2
    <3> QED BY <3>3 DEF R
  <2>7. ReadPiece(ad, reader, piece) = [read EXCEPT !.buffer = <<>>] BY <1>1, <1>3 DEF ReadPiece, b
  <2> HIDE DEF read
  <2>8. <<>> \in Seq(SomePiece) OBVIOUS
  <2> QED BY <2>6, <2>7, <2>8 DEF Reader
<1> QED BY <1>2, <1>3

(* The buffer is the end of what was read. *)
Fits(ad, frs, n, b) ==
  /\ b \in Seq(SomePiece) /\ Len(b) <= n
  /\ \A j \in 1..Len(b) : b[j].half # 0 /\ b[j] = Body(ad, frs)[n - Len(b) + j]

Place(ad, frs, n, k, i, reader) ==
  /\ n = Len(Sent(ad, frs)[k - 1]) + i
  /\ reader = Mid(ad, Taken(ad, frs)[k - 1], frs[k], i)
  /\ Heard(ad, frs, n) = (k - 1) + (IF i >= TextEnd(ad, PiecesOf(ad, frs[k])) THEN 1 ELSE 0)

At(ad, frs, n, reader) ==
  /\ Fits(ad, frs, n, reader.buffer)
  /\ \/ n = 0 /\ reader = [buffer |-> <<>>, data |-> <<>>, st |-> Fresh(ad)]
     \/ \E k \in 1..Len(frs) : \E i \in 1..Len(PiecesOf(ad, frs[k])) : Place(ad, frs, n, k, i, reader)

LEMMA AtFirst ==
  ASSUME NEW ad, NEW frs
  PROVE  At(ad, frs, 0, [buffer |-> <<>>, data |-> <<>>, st |-> Fresh(ad)])
<1>1. <<>> \in Seq(SomePiece) /\ Len(<<>>) = 0 /\ \A j \in 1..0 : FALSE OBVIOUS
<1>2. Fits(ad, frs, 0, <<>>) BY <1>1 DEF Fits
<1> QED BY <1>2 DEF At

LEMMA MidTyped ==
  ASSUME NEW ad, NEW a \in Told, NEW fr \in SomeFrame, NEW i, NEW reader, reader = Mid(ad, a, fr, i),
         reader.buffer \in Seq(SomePiece)
  PROVE  reader \in Reader /\ Len(reader.data) <= 1
<1>1. TakeFrame(ad, a, fr) \in Told BY FrameGoes DEF Goes
<1>2. <<fr>> \in Seq(SomeFrame) /\ <<>> \in Seq(SomeFrame) /\ Len(<<fr>>) = 1 /\ Len(<<>>) = 0 OBVIOUS
<1>3. reader.data \in Seq(SomeFrame) /\ Len(reader.data) <= 1 BY <1>2 DEF Mid
<1>4. reader.st \in Told BY <1>1 DEF Mid
<1>5. reader = [buffer |-> reader.buffer, data |-> reader.data, st |-> reader.st] BY DEF Mid
<1> QED BY <1>3, <1>4, <1>5 DEF Reader

LEMMA AtTyped ==
  ASSUME NEW ad, NEW frs \in Seq(SomeFrame), NEW n, NEW reader, At(ad, frs, n, reader)
  PROVE  reader \in Reader /\ Len(reader.data) <= 1
<1>1. reader.buffer \in Seq(SomePiece) BY DEF At, Fits
<1>2. ASSUME reader = [buffer |-> <<>>, data |-> <<>>, st |-> Fresh(ad)]
      PROVE  reader \in Reader /\ Len(reader.data) <= 1
  <2>1. <<>> \in Seq(SomePiece) /\ <<>> \in Seq(SomeFrame) /\ Len(<<>>) = 0 OBVIOUS
  <2> QED BY <1>2, <2>1, FreshType DEF Reader
<1>3. ASSUME NEW k \in 1..Len(frs), NEW i, Place(ad, frs, n, k, i, reader)
      PROVE  reader \in Reader /\ Len(reader.data) <= 1
  <2>1. k - 1 \in 0..Len(frs) /\ frs[k] \in SomeFrame OBVIOUS
  <2>2. Taken(ad, frs)[k - 1] \in Told BY <2>1, TakenIs
  <2> QED BY <1>1, <1>3, <2>1, <2>2, MidTyped DEF Place
<1> QED BY <1>2, <1>3 DEF At

(* A place before the end of a frame: of the one begun, or of the next. *)
LEMMA Onward ==
  ASSUME NEW ad, NEW frs \in Seq(SomeFrame), NEW n \in 0..(Len(Body(ad, frs)) - 1), NEW reader,
         At(ad, frs, n, reader)
  PROVE  \E k \in 1..Len(frs) : \E i \in 0..(Len(PiecesOf(ad, frs[k])) - 1) : Place(ad, frs, n, k, i, reader)
<1> DEFINE m == Len(frs)
           L(k) == Len(PiecesOf(ad, frs[k]))
           sent == Sent(ad, frs)
           taken == Taken(ad, frs)
<1>1. m \in Nat /\ \A k \in 1..m : frs[k] \in SomeFrame OBVIOUS
<1>2. /\ Body(ad, frs) = sent[m] /\ sent[0] = <<>> /\ \A k \in 0..m : sent[k] \in Seq(SomePiece)
  BY SentIs
<1>3. taken[0] = Fresh(ad) /\ \A k \in 1..m : taken[k] = TakeFrame(ad, taken[k - 1], frs[k]) BY TakenIs
<1>4. ASSUME NEW k \in 1..m
      PROVE  /\ L(k) \in {3, 4, 7} /\ L(k) # L(k) - 1 /\ 0 # L(k) - 1 /\ 0 # L(k)
             /\ Held(PiecesOf(ad, frs[k]), 0) = <<>> /\ Held(PiecesOf(ad, frs[k]), L(k)) = <<>>
             /\ TextEnd(ad, PiecesOf(ad, frs[k])) \in 1..(L(k) - 1)
             /\ Len(sent[k]) = Len(sent[k - 1]) + L(k)
  <2>1. frs[k] \in SomeFrame OBVIOUS
  <2>2. /\ L(k) \in {3, 4, 7} /\ Held(PiecesOf(ad, frs[k]), 0) = <<>>
        /\ Held(PiecesOf(ad, frs[k]), L(k)) = <<>>
        /\ TextEnd(ad, PiecesOf(ad, frs[k])) \in 1..(L(k) - 1)
    BY <2>1, PiecesMany
  <2>3. Len(sent[k]) = Len(sent[k - 1]) + L(k) BY BodyAt
  <2> HIDE DEF L
  <2>4. L(k) # L(k) - 1 /\ 0 # L(k) - 1 /\ 0 # L(k) BY <2>2
  <2> QED BY <2>2, <2>3, <2>4
<1>5. ASSUME NEW k \in 1..m
      PROVE  Mid(ad, taken[k - 1], frs[k], 0) = [buffer |-> <<>>, data |-> <<>>, st |-> taken[k - 1]]
  <2>1. 0 # L(k) - 1 /\ 0 # L(k) /\ Held(PiecesOf(ad, frs[k]), 0) = <<>> BY <1>4
  <2> QED BY <2>1 DEF Mid
<1>6. ASSUME NEW k \in 1..m
      PROVE  Mid(ad, taken[k - 1], frs[k], L(k)) = [buffer |-> <<>>, data |-> <<>>, st |-> taken[k]]
  <2>1. L(k) # L(k) - 1 /\ Held(PiecesOf(ad, frs[k]), L(k)) = <<>> BY <1>4
  <2> QED BY <1>3, <2>1 DEF Mid
<1> DEFINE ends(k) == TextEnd(ad, PiecesOf(ad, frs[k]))
<1>7. \A k \in 1..m : L(k) \in {3, 4, 7} /\ ends(k) \in 1..(L(k) - 1) BY <1>4
<1>8. ASSUME NEW k \in 1..m, n = Len(sent[k - 1]), reader = [buffer |-> <<>>, data |-> <<>>, st |-> taken[k - 1]],
             Heard(ad, frs, n) = k - 1
      PROVE  \E q \in 1..m : \E i \in 0..(L(q) - 1) : Place(ad, frs, n, q, i, reader)
  <2>1. 0 \in 0..(L(k) - 1) /\ ~(0 >= ends(k))
    <3> HIDE DEF L, ends
    <3> QED BY <1>7
  <2>2. Len(sent[k - 1]) \in Nat /\ k - 1 \in Nat BY <1>1, <1>2
  <2>3. Place(ad, frs, n, k, 0, reader) BY <1>5, <1>8, <2>1, <2>2 DEF Place
  <2> QED BY <2>1, <2>3
<1>9. CASE n = 0 /\ reader = [buffer |-> <<>>, data |-> <<>>, st |-> Fresh(ad)]
  <2>1. m # 0
    <3>1. Len(<<>>) = 0 OBVIOUS
    <3> HIDE DEF m, sent
    <3> QED BY <1>2, <3>1
  <2>2. 1 \in 1..m /\ 1 - 1 = 0 BY <1>1, <2>1
  <2>3. Heard(ad, frs, 0) = 0 BY <1>1, <1>2, HeardIs
  <2>4. Len(sent[0]) = 0 BY <1>2
  <2>5. n = Len(sent[1 - 1]) /\ Heard(ad, frs, n) = 1 - 1 BY <1>9, <2>3, <2>4
  <2>6. reader = [buffer |-> <<>>, data |-> <<>>, st |-> taken[1 - 1]] BY <1>3, <1>9
  <2>7. \E q \in 1..m : \E i \in 0..(L(q) - 1) : Place(ad, frs, n, q, i, reader)
    <3> HIDE DEF m, sent, taken, L
    <3> QED BY <1>8, <2>2, <2>5, <2>6
  <2> QED BY <2>7
<1>10. ASSUME NEW k \in 1..m, NEW i \in 1..L(k), Place(ad, frs, n, k, i, reader)
      PROVE  \E q \in 1..m : \E j \in 0..(L(q) - 1) : Place(ad, frs, n, q, j, reader)
  <2>1. CASE i < L(k)
    <3>1. i \in 0..(L(k) - 1) BY <1>4, <2>1
    <3> QED BY <1>10, <3>1
  <2>2. CASE i = L(k)
    <3>1. n = Len(sent[k - 1]) + L(k) /\ reader = Mid(ad, taken[k - 1], frs[k], L(k))
      BY <1>10, <2>2 DEF Place
    <3>2. n = Len(sent[k]) /\ reader = [buffer |-> <<>>, data |-> <<>>, st |-> taken[k]]
      BY <1>4, <1>6, <3>1
    <3>3. k # m BY <1>2, <3>2
    <3>4. Heard(ad, frs, n) = k
      <4>1. i >= ends(k)
        <5> HIDE DEF L, ends
        <5> QED BY <1>7, <2>2
      <4>2. Heard(ad, frs, n) = (k - 1) + 1 BY <1>10, <4>1 DEF Place
      <4> QED BY <1>1, <4>2
    <3>5. k + 1 \in 1..m /\ (k + 1) - 1 = k BY <1>1, <3>3
    <3> HIDE DEF m, sent, taken, L
    <3> QED BY <1>8, <3>2, <3>4, <3>5
  <2> QED BY <1>4, <2>1, <2>2
<1> QED BY <1>9, <1>10 DEF At

LEMMA FitsNext ==
  ASSUME NEW ad, NEW frs, Body(ad, frs) \in Seq(SomePiece), NEW n \in 0..(Len(Body(ad, frs)) - 1), NEW b,
         Fits(ad, frs, n, b), Body(ad, frs)[n + 1].half # 0
  PROVE  Fits(ad, frs, n + 1, Append(b, Body(ad, frs)[n + 1]))
<1> DEFINE B == Body(ad, frs)
           piece == B[n + 1]
           c == Append(b, piece)
<1>1. B \in Seq(SomePiece) /\ n \in 0..(Len(B) - 1) /\ Len(B) \in Nat /\ piece.half # 0 OBVIOUS
<1>2. b \in Seq(SomePiece) /\ Len(b) <= n /\ \A j \in 1..Len(b) : b[j].half # 0 /\ b[j] = B[n - Len(b) + j]
  BY DEF Fits
<1> HIDE DEF B
<1>3. n + 1 \in 1..Len(B) BY <1>1
<1>4. piece \in SomePiece BY <1>1, <1>3
<1> HIDE DEF piece
<1>5. /\ c \in Seq(SomePiece) /\ Len(c) = Len(b) + 1 /\ c[Len(b) + 1] = piece
      /\ \A j \in 1..Len(b) : c[j] = b[j]
  BY <1>2, <1>4, AppendProperties
<1> HIDE DEF c
<1>6. Len(b) \in Nat BY <1>2
<1>7. ASSUME NEW j \in 1..Len(c) PROVE c[j].half # 0 /\ c[j] = B[(n + 1) - Len(c) + j]
  <2>1. (n + 1) - Len(c) + j = n - Len(b) + j BY <1>1, <1>5, <1>6
  <2>2. CASE j = Len(b) + 1
    <3>1. n - Len(b) + j = n + 1 BY <1>1, <1>6, <2>2
    <3> QED BY <1>1, <1>5, <2>1, <2>2, <3>1 DEF piece
  <2>3. CASE j # Len(b) + 1
    <3>1. j \in 1..Len(b) BY <1>5, <1>6, <2>3
    <3> QED BY <1>2, <1>5, <2>1, <3>1
  <2> QED BY <2>2, <2>3
<1>8. Len(c) <= n + 1 BY <1>1, <1>2, <1>5, <1>6
<1> QED BY <1>5, <1>7, <1>8 DEF Fits, B, c, piece

(* One more piece of the body. *)
LEMMA AtNext ==
  ASSUME NEW ad, NEW frs \in Seq(SomeFrame), NEW n \in 0..(Len(Body(ad, frs)) - 1), NEW reader,
         At(ad, frs, n, reader)
  PROVE  At(ad, frs, n + 1, ReadPiece(ad, reader, Body(ad, frs)[n + 1]))
<1> DEFINE B == Body(ad, frs)
           next == ReadPiece(ad, reader, B[n + 1])
<1>1. PICK k \in 1..Len(frs) : \E i \in 0..(Len(PiecesOf(ad, frs[k])) - 1) : Place(ad, frs, n, k, i, reader)
  BY Onward
<1>2. PICK i \in 0..(Len(PiecesOf(ad, frs[k])) - 1) : Place(ad, frs, n, k, i, reader) BY <1>1
<1> DEFINE fr == frs[k]
           p == PiecesOf(ad, fr)
           a == Taken(ad, frs)[k - 1]
           start == Len(Sent(ad, frs)[k - 1])
<1>3. fr \in SomeFrame /\ k \in Nat /\ k - 1 \in 0..Len(frs) OBVIOUS
<1>4. a \in Told BY <1>3, TakenIs
<1>5. start \in Nat
  <2>1. Sent(ad, frs)[k - 1] \in Seq(SomePiece) BY <1>3, SentIs
  <2> QED BY <2>1
<1>6. B \in Seq(SomePiece) BY BodyAt
<1>7. \A j \in 1..Len(p) : B[start + j] = p[j]
  <2>1. Lies(ad, frs, k) BY BodyAt
  <2> QED BY <2>1 DEF Lies
<1>8. Len(p) \in {3, 4, 7} /\ TextEnd(ad, p) \in 1..(Len(p) - 1) BY <1>3, PiecesMany
<1>9. Next1(ad, fr, p, i) BY <1>3, Layout
<1>10. n = start + i /\ reader = Mid(ad, a, fr, i)
       /\ Heard(ad, frs, n) = (k - 1) + (IF i >= TextEnd(ad, p) THEN 1 ELSE 0)
  BY <1>2 DEF Place
<1>11. ReadPiece(ad, Mid(ad, a, fr, i), p[i + 1]) = Mid(ad, a, fr, i + 1) BY <1>3, <1>4, PieceRead
<1>12. n \in 0..(Len(B) - 1) /\ i \in 0..(Len(p) - 1) /\ Fits(ad, frs, n, reader.buffer) BY DEF At
<1> HIDE DEF fr, p, a, start
<1>13. i + 1 \in 1..Len(p) /\ n + 1 = start + (i + 1) BY <1>5, <1>8, <1>10, <1>12
<1>14. B[n + 1] = p[i + 1] BY <1>7, <1>13
<1>15. next = Mid(ad, a, fr, i + 1) BY <1>10, <1>11, <1>14
<1>16. EndsText(B[n + 1]) <=> i + 1 = TextEnd(ad, p) BY <1>9, <1>14 DEF Next1, EndsText
<1>17. Heard(ad, frs, n + 1) = Heard(ad, frs, n) + (IF EndsText(B[n + 1]) THEN 1 ELSE 0)
  <2>1. Heard(ad, frs, n) \in Nat BY <1>3, <1>10
  <2> QED BY <1>6, <1>12, <2>1, HeardIs
<1>18. Heard(ad, frs, n + 1) = (k - 1) + (IF i + 1 >= TextEnd(ad, p) THEN 1 ELSE 0)
  <2> DEFINE e == TextEnd(ad, p)
  <2>1. e \in Nat /\ i \in Nat BY <1>8, <1>12
  <2> HIDE DEF e
  <2>2. CASE i + 1 = e
    <3>1. ~(i >= e) /\ i + 1 >= e BY <2>1, <2>2
    <3> QED BY <1>3, <1>10, <1>16, <1>17, <2>2, <3>1 DEF e
  <2>3. CASE i + 1 # e
    <3>1. i >= e <=> i + 1 >= e BY <2>1, <2>3
    <3> QED BY <1>3, <1>10, <1>16, <1>17, <2>3, <3>1 DEF e
  <2> QED BY <2>2, <2>3
<1>19. Place(ad, frs, n + 1, k, i + 1, next) BY <1>13, <1>15, <1>18 DEF Place, start, a, fr, p
<1>20. Fits(ad, frs, n + 1, next.buffer)
  <2>1. next.buffer = Held(p, i + 1) /\ reader.buffer = Held(p, i) BY <1>10, <1>15 DEF Mid, p
  <2>2. CASE p[i + 1].half = 0
    <3>1. next.buffer = <<>> BY <1>9, <2>1, <2>2 DEF Next1
    <3>2. <<>> \in Seq(SomePiece) /\ Len(<<>>) = 0 /\ n + 1 >= 0 /\ \A j \in 1..0 : FALSE BY <1>12
    <3> QED BY <3>1, <3>2 DEF Fits
  <2>3. CASE p[i + 1].half # 0
    <3>1. next.buffer = Append(reader.buffer, B[n + 1]) BY <1>9, <1>14, <2>1, <2>3 DEF Next1
    <3>2. B[n + 1].half # 0 BY <1>14, <2>3
    <3> QED BY <1>6, <1>12, <3>1, <3>2, FitsNext
  <2> QED BY <2>2, <2>3
<1>21. \E q \in 1..Len(frs) : \E j \in 1..Len(PiecesOf(ad, frs[q])) : Place(ad, frs, n + 1, q, j, next)
  BY <1>13, <1>19 DEF p, fr
<1> HIDE DEF next
<1>22. At(ad, frs, n + 1, next) BY <1>20, <1>21 DEF At
<1> QED BY <1>22 DEF next

-----------------------------------------------------------------------------
(* What is due once so many pieces have arrived. *)

All(ad, frs, n) ==
  IF OpenEnd(ad, frs, n) /\ ~Ended(ad, Taken(ad, frs)[Heard(ad, frs, n) - 1])
  THEN ollamaTail(Taken(ad, frs)[Heard(ad, frs, n) - 1], frs[Heard(ad, frs, n)])
  ELSE Taken(ad, frs)[Heard(ad, frs, n)]
DueOf(ad, all) == IF all.completed \/ Ended(ad, all) THEN all.out ELSE all.out \o Complete(all)
Due(ad, frs, n) == DueOf(ad, All(ad, frs, n))

LEMMA ReferenceIs ==
  ASSUME NEW n, Delivered = Part(adapter, frames, n) PROVE Reference = Due(adapter, frames, n)
<1>1. Arrived = Heard(adapter, frames, n) BY DEF Arrived, Heard, EndsText
<1>2. Unended <=> OpenEnd(adapter, frames, n) BY DEF Unended, OpenEnd
<1> QED BY <1>1, <1>2, Zenon DEF Reference, Due, DueOf, All

(* What the reader says is part of it, and is all of it where nothing more *)
(* is said, or where the body ends.                                        *)
LEMMA AtDue ==
  ASSUME NEW ad, NEW frs \in Seq(SomeFrame), NEW n \in 0..Len(Body(ad, frs)), NEW reader,
         At(ad, frs, n, reader)
  PROVE  /\ reader.st \in Told
         /\ Goes(reader.st, All(ad, frs, n))
         /\ Ended(ad, reader.st) => All(ad, frs, n) = reader.st
         /\ ~Ended(ad, reader.st) => Trailing(ad, reader) = All(ad, frs, n)
<1> DEFINE taken == Taken(ad, frs)
           h == Heard(ad, frs, n)
           open == OpenEnd(ad, frs, n)
           all == All(ad, frs, n)
           Holds == /\ reader.st \in Told
                    /\ Goes(reader.st, all)
                    /\ Ended(ad, reader.st) => all = reader.st
                    /\ ~Ended(ad, reader.st) => Trailing(ad, reader) = all
<1>1. /\ taken[0] = Fresh(ad) /\ \A k \in 0..Len(frs) : taken[k] \in Told
      /\ \A k \in 1..Len(frs) : taken[k] = TakeFrame(ad, taken[k - 1], frs[k])
  BY TakenIs
<1>2. all = IF open /\ ~Ended(ad, taken[h - 1]) THEN ollamaTail(taken[h - 1], frs[h]) ELSE taken[h]
  BY DEF All
<1>3. /\ Body(ad, frs) \in Seq(SomePiece) /\ Heard(ad, frs, 0) = 0
  <2>1. Body(ad, frs) \in Seq(SomePiece) BY SentTyped
  <2>2. Heard(ad, frs, 0) = 0 BY <2>1, HeardIs
  <2> QED BY <2>1, <2>2
<1>4. n = 0 => ~open BY <1>3, PartIs
<1>5. n > 0 => (open <=> ad = "ollama" /\ Body(ad, frs)[n].half = 2) BY <1>3, PartIs
<1> HIDE DEF taken, h, open, all
(* Nothing in the buffer, and nothing of the next frame. *)
<1>6. ASSUME NEW a \in Told, reader = [buffer |-> <<>>, data |-> <<>>, st |-> a], all = a PROVE Holds
  <2>1. Trailing(ad, reader) = a BY <1>6, TrailingNone
  <2>2. reader.st = a BY <1>6
  <2> QED BY <1>6, <2>1, <2>2, GoesNowhere
<1>7. ASSUME n = 0, reader = [buffer |-> <<>>, data |-> <<>>, st |-> Fresh(ad)] PROVE Holds
  <2>1. h = 0 BY <1>3, <1>7 DEF h
  <2>2. all = Fresh(ad) BY <1>1, <1>2, <1>4, <1>7, <2>1
  <2> HIDE DEF Holds
  <2> QED BY <1>6, <1>7, <2>2, FreshType
<1>8. ASSUME NEW k \in 1..Len(frs), NEW i \in 1..Len(PiecesOf(ad, frs[k])), Place(ad, frs, n, k, i, reader)
      PROVE  Holds
  <2> DEFINE fr == frs[k]
             p == PiecesOf(ad, fr)
             a == taken[k - 1]
             start == Len(Sent(ad, frs)[k - 1])
             e == TextEnd(ad, p)
  <2>1. fr \in SomeFrame /\ k \in Nat \ {0} /\ k - 1 \in 0..Len(frs) /\ k \in 0..Len(frs) OBVIOUS
  <2>2. a \in Told /\ taken[k] \in Told /\ taken[k] = TakeFrame(ad, a, fr) BY <1>1, <2>1
  <2>3. /\ Len(p) \in {3, 4, 7} /\ e \in 1..(Len(p) - 1)
        /\ Held(p, Len(p)) = <<>>
    BY <2>1, PiecesMany
  <2>4. n = start + i /\ reader = Mid(ad, a, fr, i) /\ h = (k - 1) + (IF i >= e THEN 1 ELSE 0)
    BY <1>8 DEF Place, taken, h
  <2>5. Body(ad, frs)[n] = p[i]
    <3>1. Lies(ad, frs, k) BY BodyAt
    <3>2. Body(ad, frs)[start + i] = p[i] BY <3>1 DEF Lies
    <3> QED BY <2>4, <3>2
  <2>6. start \in Nat BY <2>1, SentTyped
  <2>7. ad = "ollama" => (p[i].half = 2 <=> i = e)
    <3>1. Halves(ad, fr) BY <2>1, PiecesMany
    <3> QED BY <3>1 DEF Halves
  <2>8. i \in 1..Len(p) OBVIOUS
  <2> HIDE DEF fr, p, a, start, e
  <2>9. n > 0 BY <2>3, <2>4, <2>6, <2>8
  <2>10. open <=> ad = "ollama" /\ i = e BY <1>5, <2>5, <2>7, <2>9
  <2>11. ad = "ollama" => e = Len(p) - 1 BY DEF e, TextEnd
  <2>12. CASE i = Len(p)
    <3>1. h = k BY <2>1, <2>3, <2>4, <2>12
    <3>2. ~open BY <2>3, <2>10, <2>12
    <3>3. all = taken[k] BY <1>2, <3>1, <3>2
    <3>4. reader = [buffer |-> <<>>, data |-> <<>>, st |-> taken[k]]
      <4>1. Len(p) # Len(p) - 1 BY <2>3
      <4> QED BY <2>2, <2>3, <2>4, <2>12, <4>1 DEF Mid, p
    <3> HIDE DEF Holds
    <3> QED BY <1>6, <2>2, <3>3, <3>4
  <2>13. CASE i # Len(p)
    <3>1. i \in 0..(Len(p) - 1) BY <2>3, <2>8, <2>13
    <3>2. reader.st = a BY <2>4, <2>13 DEF Mid, p
    <3>3. CASE Ended(ad, a)
      <4>1. taken[k] = a BY <2>2, <3>3 DEF TakeFrame
      <4>2. open => h - 1 = k - 1 BY <2>1, <2>3, <2>4, <2>10
      <4>3. h = k - 1 \/ h = k BY <2>1, <2>4
      <4>4. taken[k - 1] = a BY DEF a
      <4>5. all = taken[h] BY <1>2, <3>3, <4>2, <4>4
      <4>6. all = a BY <4>1, <4>3, <4>4, <4>5
      <4> QED BY <2>2, <3>2, <3>3, <4>6, GoesNowhere
    <3>4. CASE ~Ended(ad, a)
      <4>1. Trailing(ad, reader) = IF i < e THEN a ELSE IF ad = "ollama" THEN ollamaTail(a, fr) ELSE TakeFrame(ad, a, fr)
        BY <2>1, <2>2, <2>4, <3>1, <3>4, TrailingRead DEF p, e
      <4>2. taken[k - 1] = a /\ frs[k] = fr BY DEF a, fr
      <4>3. CASE i < e
        <5>1. h = k - 1 BY <2>1, <2>3, <2>4, <2>8, <4>3
        <5>2. ~open BY <2>3, <2>8, <2>10, <4>3
        <5>3. all = a BY <1>2, <4>2, <5>1, <5>2
        <5> QED BY <2>2, <3>2, <3>4, <4>1, <4>3, <5>3, GoesNowhere
      <4>4. CASE ~(i < e)
        <5>1. h = k BY <2>1, <2>3, <2>4, <2>8, <4>4
        <5>2. CASE ad = "ollama"
          <6>1. i = e BY <2>3, <2>8, <2>11, <2>13, <4>4, <5>2
          <6>2. all = ollamaTail(a, fr)
            <7>1. open /\ h - 1 = k - 1 BY <2>10, <5>1, <5>2, <6>1
            <7> QED BY <1>2, <3>4, <4>2, <5>1, <7>1
          <6>3. Trailing(ad, reader) = all BY <4>1, <4>4, <5>2, <6>2
          <6>4. Goes(a, all) BY <2>1, <2>2, <6>2, TailGoes DEF fr
          <6> QED BY <2>2, <3>2, <3>4, <6>3, <6>4
        <5>3. CASE ad # "ollama"
          <6>1. ~open BY <2>10, <5>3
          <6>2. all = TakeFrame(ad, a, fr) BY <1>2, <2>2, <5>1, <6>1
          <6>3. Trailing(ad, reader) = all BY <4>1, <4>4, <5>3, <6>2
          <6>4. Goes(a, all) BY <2>1, <2>2, <6>2, FrameGoes DEF fr
          <6> QED BY <2>2, <3>2, <3>4, <6>3, <6>4
        <5> QED BY <5>2, <5>3
      <4> QED BY <4>3, <4>4
    <3> QED BY <3>3, <3>4
  <2> QED BY <2>12, <2>13
<1>9. Holds
  <2> HIDE DEF Holds
  <2> QED BY <1>7, <1>8 DEF At
<1> QED BY <1>9 DEF all

-----------------------------------------------------------------------------
(* Some pieces at a time. *)

LEMMA RestIs ==
  ASSUME NEW S, NEW b \in Seq(S), NEW n \in 0..Len(b), NEW more, more = SubSeq(b, n + 1, Len(b))
  PROVE  /\ more \in Seq(S) /\ Len(more) = Len(b) - n
         /\ \A j \in 1..(Len(b) - n) : more[j] = b[n + j]
<1>1. n + 1 \in 1..(Len(b) + 1) /\ Len(b) \in n..Len(b) /\ n \in Nat /\ Len(b) \in Nat OBVIOUS
<1>2. \A i \in (n + 1)..Len(b) : b[i] \in S OBVIOUS
<1>3. more \in Seq(S) /\ Len(more) = Len(b) - n BY <1>1
<1>4. ASSUME NEW j \in 1..(Len(b) - n) PROVE more[j] = b[n + j] BY <1>1
<1> QED BY <1>3, <1>4

LEMMA RestOn ==
  ASSUME NEW S, NEW b \in Seq(S), NEW n \in 0..Len(b), NEW more, more = SubSeq(b, n + 1, Len(b)),
         NEW m \in 0..Len(more)
  PROVE  n + m \in 0..Len(b) /\ SubSeq(more, m + 1, Len(more)) = SubSeq(b, (n + m) + 1, Len(b))
<1>1. more \in Seq(S) /\ Len(more) = Len(b) - n BY RestIs
<1>2. \A j \in 1..(Len(b) - n) : more[j] = b[n + j] BY RestIs
<1>3. n \in Nat /\ Len(b) \in Nat /\ n <= Len(b) /\ m \in 0..(Len(b) - n) BY <1>1
<1>4. n + m \in 0..Len(b) BY <1>3
<1> DEFINE one == SubSeq(more, m + 1, Len(more))
           two == SubSeq(b, (n + m) + 1, Len(b))
<1>5. one \in Seq(S) /\ Len(one) = Len(more) - m BY <1>1, RestIs
<1>6. \A j \in 1..(Len(more) - m) : one[j] = more[m + j] BY <1>1, RestIs
<1>7. two \in Seq(S) /\ Len(two) = Len(b) - (n + m) BY <1>4, RestIs
<1>8. \A j \in 1..(Len(b) - (n + m)) : two[j] = b[(n + m) + j] BY <1>4, RestIs
<1> HIDE DEF one, two
<1>9. ASSUME NEW j \in 1..Len(one) PROVE one[j] = two[j]
  <2>1. j \in 1..(Len(more) - m) /\ m + j \in 1..(Len(b) - n) /\ j \in 1..(Len(b) - (n + m))
        /\ n + (m + j) = (n + m) + j
    BY <1>1, <1>3, <1>5
  <2> QED BY <1>2, <1>6, <1>8, <2>1
<1>10. one = two
  <2>1. Len(one) = Len(two) BY <1>1, <1>3, <1>5, <1>7
  <2> QED BY <1>5, <1>7, <1>9, <2>1, SeqEqual
<1> QED BY <1>4, <1>10 DEF one, two

ReaderAfter(ad, first, more, m) ==
  LET reader[k \in 0..m] == IF k = 0 THEN first ELSE ReadPiece(ad, reader[k - 1], more[k])
  IN  reader

LEMMA ReadOn ==
  ASSUME NEW ad, NEW frs \in Seq(SomeFrame), NEW n \in 0..Len(Body(ad, frs)),
         NEW more, more = SubSeq(Body(ad, frs), n + 1, Len(Body(ad, frs))), NEW m \in 0..Len(more),
         NEW first, At(ad, frs, n, first)
  PROVE  At(ad, frs, n + m, ReaderAfter(ad, first, more, m)[m])
<1> DEFINE B == Body(ad, frs)
           reader == ReaderAfter(ad, first, more, m)
           Is(f) == f = [k \in 0..m |-> IF k = 0 THEN first ELSE ReadPiece(ad, f[k - 1], more[k])]
           g == [x \in Reader \X (1..m) |-> ReadPiece(ad, x[1], more[x[2]])]
<1>1. B \in Seq(SomePiece) BY SentTyped
<1>2. more = SubSeq(B, n + 1, Len(B)) /\ n \in 0..Len(B) /\ m \in 0..Len(more) OBVIOUS
<1> HIDE DEF B
<1>3. more \in Seq(SomePiece) /\ Len(more) = Len(B) - n BY <1>1, <1>2, RestIs
<1>4. \A j \in 1..(Len(B) - n) : more[j] = B[n + j] BY <1>1, <1>2, RestIs
<1>5. m \in Nat /\ n \in Nat /\ Len(B) \in Nat /\ m <= Len(B) - n BY <1>1, <1>2, <1>3
<1>6. \A k \in 1..m : more[k] \in SomePiece BY <1>3, <1>5
<1>7. first \in Reader BY AtTyped
<1>8. g \in [Reader \X (1..m) -> Reader]
  <2>1. ASSUME NEW x \in Reader \X (1..m) PROVE ReadPiece(ad, x[1], more[x[2]]) \in Reader
    <3>1. x[1] \in Reader /\ more[x[2]] \in SomePiece BY <1>6
    <3> QED BY <3>1, ReadTyped
  <2> QED BY <2>1
<1>9. \A x \in Reader, k \in 1..m : g[<<x, k>>] = ReadPiece(ad, x, more[k]) OBVIOUS
<1> HIDE DEF g
<1>10. PICK f \in [0..m -> Reader] : Steps(f, m, first, g) BY <1>5, <1>7, <1>8, Recursion
<1>11. Is(f)
  <2>1. ASSUME NEW k \in 0..m PROVE f[k] = IF k = 0 THEN first ELSE ReadPiece(ad, f[k - 1], more[k])
    <3>1. f[k] = IF k = 0 THEN first ELSE g[<<f[k - 1], k>>] BY <1>10 DEF Steps
    <3>2. k # 0 => k \in 1..m /\ f[k - 1] \in Reader BY <1>5
    <3> QED BY <1>9, <3>1, <3>2
  <2>2. f = [k \in 0..m |-> f[k]] OBVIOUS
  <2> QED BY <2>1, <2>2
<1>12. Is(reader)
  <2>1. reader = CHOOSE h : Is(h) BY Zenon DEF ReaderAfter
  <2> HIDE DEF Is, reader
  <2> QED BY <1>11, <2>1
<1> HIDE DEF reader
<1>13. reader[0] = first
  <2>1. 0 \in 0..m BY <1>5
  <2>2. \A k \in 0..m : reader[k] = IF k = 0 THEN first ELSE ReadPiece(ad, reader[k - 1], more[k])
    BY <1>12
  <2> HIDE DEF Is
  <2> QED BY <2>1, <2>2
<1>14. ASSUME NEW k \in 0..m, k < m PROVE reader[k + 1] = ReadPiece(ad, reader[k], B[(n + k) + 1])
  <2>1. k + 1 \in 0..m /\ k + 1 # 0 /\ (k + 1) - 1 = k BY <1>5, <1>14
  <2>2. reader[k + 1] = ReadPiece(ad, reader[k], more[k + 1]) BY <1>12, <2>1
  <2>3. k + 1 \in 1..(Len(B) - n) /\ n + (k + 1) = (n + k) + 1 BY <1>5, <1>14
  <2>4. more[k + 1] = B[(n + k) + 1] BY <1>4, <2>3
  <2> QED BY <2>2, <2>4
<1> HIDE DEF Is
<1> DEFINE P == {k \in 0..m : At(ad, frs, n + k, reader[k])}
<1>15. 0 \in P
  <2>1. n + 0 = n /\ 0 \in 0..m BY <1>5
  <2> QED BY <1>13, <2>1
<1>16. ASSUME NEW k \in 0..m, k \in P, k < m PROVE k + 1 \in P
  <2>1. n + k \in 0..(Len(B) - 1) /\ k + 1 \in 0..m /\ (n + k) + 1 = n + (k + 1) BY <1>5, <1>16
  <2>2. At(ad, frs, n + k, reader[k]) BY <1>16
  <2>3. At(ad, frs, (n + k) + 1, ReadPiece(ad, reader[k], B[(n + k) + 1])) BY <2>1, <2>2, AtNext DEF B
  <2>4. At(ad, frs, n + (k + 1), reader[k + 1]) BY <1>14, <1>16, <2>1, <2>3
  <2> QED BY <2>1, <2>4
<1>17. m \in P
  <2> HIDE DEF P
  <2>1. \A k \in 0..m : k \in P BY <1>5, <1>15, <1>16, Upward
  <2>2. m \in 0..m BY <1>5
  <2> QED BY <2>1, <2>2
<1> QED BY <1>17 DEF reader

-----------------------------------------------------------------------------
(* What the end of a sequence is. *)

LEMMA SuffixIs ==
  ASSUME NEW S, NEW s \in Seq(S), NEW t \in Seq(S), Len(s) <= Len(t),
         \A j \in 1..Len(s) : s[j] = t[Len(t) - Len(s) + j]
  PROVE  IsSuffix(s, t)
<1>1. Len(s) \in Nat /\ Len(t) \in Nat OBVIOUS
<1>2. ASSUME NEW u \in Seq(S)
      PROVE  Reverse(u) \in Seq(S) /\ Len(Reverse(u)) = Len(u) /\ \A i \in 1..Len(u) : Reverse(u)[i] = u[(Len(u) - i) + 1]
  <2>1. \A i \in 1..Len(u) : (Len(u) - i) + 1 \in 1..Len(u) OBVIOUS
  <2>2. Reverse(u) \in [1..Len(u) -> S] BY <2>1 DEF Reverse
  <2>3. Len(u) \in Nat OBVIOUS
  <2>4. Reverse(u) \in Seq(S) /\ Len(Reverse(u)) = Len(u) BY <2>2, <2>3
  <2> QED BY <2>4 DEF Reverse
<1>3. Reverse(s) \in Seq(S) /\ Len(Reverse(s)) = Len(s) /\ Reverse(t) \in Seq(S) /\ Len(Reverse(t)) = Len(t)
  BY <1>2
<1>4. ASSUME NEW i \in 1..Len(s) PROVE Reverse(s)[i] = Reverse(t)[i]
  <2>1. i \in 1..Len(t) /\ (Len(s) - i) + 1 \in 1..Len(s)
        /\ Len(t) - Len(s) + ((Len(s) - i) + 1) = (Len(t) - i) + 1
    BY <1>1
  <2>2. Reverse(s)[i] = s[(Len(s) - i) + 1] /\ Reverse(t)[i] = t[(Len(t) - i) + 1] BY <1>2, <2>1
  <2>3. s[(Len(s) - i) + 1] = t[Len(t) - Len(s) + ((Len(s) - i) + 1)] BY <2>1
  <2> QED BY <2>1, <2>2, <2>3
<1>5. IsPrefix(Reverse(s), Reverse(t)) BY <1>3, <1>4, PrefixElements
<1> QED BY <1>5 DEF IsSuffix

-----------------------------------------------------------------------------
(* The stream. *)

(* What was said and what is still to come. *)
Follows(n) ==
  /\ rest = SubSeq(Body(adapter, frames), n + 1, Len(Body(adapter, frames)))
  /\ outcome # "ok" => At(adapter, frames, n, Reading)
  /\ outcome = "ok" =>
       /\ st \in Told /\ st.out = Due(adapter, frames, n)
       /\ Fits(adapter, frames, n, buffer) /\ Len(data) <= 1

(* Why it ended. *)
Control ==
  /\ phase \in {"headers", "refused", "reading", "over"}
  /\ outcome \in Codes \cup {None, "ok"} /\ (outcome = None <=> phase # "over")
  /\ stopped \in BOOLEAN /\ late \in BOOLEAN
  /\ outcome = "REQUEST_ABORTED" => stopped
  /\ phase = "headers" => refusal[1] = 0 /\ ~stopped
  /\ phase = "refused" => refusal[1] # 0
  /\ stopped /\ phase = "over" /\ refusal[1] = 0 => outcome \in {"ok", "REQUEST_ABORTED"}
  /\ late => phase = "over" /\ (refusal[1] = 0 => outcome \in Retryable)

IInv ==
  /\ adapter \in Adapters /\ frames \in Bodies(adapter)
  /\ \E n \in 0..Len(Body(adapter, frames)) : Follows(n)
  /\ phase # "over" => ~Ended(adapter, st)
  /\ Control

(* None is nothing that an outcome can be. *)
LEMMA NoneApart == None # "ok" /\ None \notin Codes /\ "ok" \notin Codes /\ "REQUEST_ABORTED" \in Codes
BY StreamsAssumption DEF Codes

LEMMA Starts == Init => IInv
<1> SUFFICES ASSUME Init PROVE IInv OBVIOUS
<1>1. frames \in Seq(SomeFrame) BY FramesType DEF Init
<1>2. Body(adapter, frames) \in Seq(SomePiece) BY <1>1, SentTyped
<1>3. Follows(0)
  <2>1. rest = SubSeq(Body(adapter, frames), 0 + 1, Len(Body(adapter, frames)))
    <3>1. rest = Body(adapter, frames) BY DEF Init
    <3>2. SubSeq(Body(adapter, frames), 1, Len(Body(adapter, frames))) = Body(adapter, frames)
      BY <1>2, SubSeqFull
    <3> QED BY <3>1, <3>2
  <2>2. At(adapter, frames, 0, Reading) BY AtFirst DEF Init, Reading
  <2>3. outcome # "ok" BY StreamsAssumption DEF Init
  <2> QED BY <2>1, <2>2, <2>3 DEF Follows
<1>4. 0 \in 0..Len(Body(adapter, frames)) BY <1>2
<1>5. ~Ended(adapter, st) BY FreshType DEF Init, Ended
<1>6. Control BY NoneApart DEF Init, Control
<1> QED BY <1>3, <1>4, <1>5, <1>6 DEF IInv, Init

(* What does not read. *)
LEMMA NothingRead ==
  ASSUME IInv, phase # "over", UNCHANGED <<adapter, frames, body>>, outcome' # "ok", Control'
  PROVE  IInv'
<1>1. PICK n \in 0..Len(Body(adapter, frames)) : Follows(n) BY DEF IInv
<1>2. adapter' = adapter /\ frames' = frames /\ rest' = rest /\ buffer' = buffer /\ data' = data /\ st' = st
  BY DEF body
<1>3. outcome # "ok" BY NoneApart DEF IInv, Control
<1>4. At(adapter, frames, n, Reading) BY <1>1, <1>3 DEF Follows
<1>5. At(adapter', frames', n, Reading') BY <1>2, <1>4 DEF Reading
<1>6. Follows(n)' BY <1>1, <1>2, <1>5 DEF Follows
<1>7. n \in 0..Len(Body(adapter', frames')) BY <1>2
<1>8. ~Ended(adapter', st') BY <1>2 DEF IInv
<1>9. adapter' \in Adapters /\ frames' \in Bodies(adapter') BY <1>2 DEF IInv
<1> QED BY <1>6, <1>7, <1>8, <1>9 DEF IInv

LEMMA RefusalIs ==
  ASSUME NEW ad, NEW status, NEW hint PROVE mapError(ad, status, hint) \in Codes \ {"REQUEST_ABORTED"}
<1> DEFINE rules == << <<ad = "openai", openaiError(status, hint)>>, <<ad = "anthropic", anthropicError(status, hint)>>,
                       <<ad = "google", googleError(status, hint)>>, <<TRUE, ollamaError(status, hint)>> >>
           n == 4
           Thrown == Codes \ {"REQUEST_ABORTED"}
<1>1. mapError(ad, status, hint) = FirstMatch(rules) BY DEF mapError
<1>2. n \in Nat \ {0} /\ DOMAIN rules = 1..n /\ rules[n][1] OBVIOUS
<1>3. \A k \in 1..n : rules[k][2] \in Thrown BY ErrorsTyped
<1> HIDE DEF rules, n, Thrown
<1>4. mapError(ad, status, hint) \in Thrown BY <1>1, <1>2, <1>3, FirstMatched
<1> QED BY <1>4 DEF Thrown

(* The outcomes of a step that reads nothing. *)
LEMMA ReasonsStay ==
  ASSUME IInv, HeadersArrive \/ EmptyBody \/ RefusalRead \/ Deadline \/ NetworkFails \/ Stop
                 \/ \E status \in Statuses \ {200}, hint \in Hints : Refuse(status, hint)
  PROVE  Control' /\ phase # "over" /\ outcome' # "ok" /\ UNCHANGED <<adapter, frames, body>>
<1> USE NoneApart DEF IInv, Control, Over
<1>1. CASE HeadersArrive BY <1>1 DEF HeadersArrive
<1>2. CASE EmptyBody
  <2>1. "PROVIDER_UNAVAILABLE" \in Codes /\ "PROVIDER_UNAVAILABLE" \in Retryable BY DEF Codes, Retryable
  <2> QED BY <1>2, <2>1 DEF EmptyBody
<1> DEFINE lost(hint) == mapError(adapter, refusal[1], hint)
<1>3. \A hint : lost(hint) \in Codes /\ lost(hint) # "REQUEST_ABORTED" /\ lost(hint) # "ok" BY RefusalIs
<1> HIDE DEF lost
<1>4. CASE RefusalRead BY <1>3, <1>4 DEF RefusalRead, lost
<1>5. CASE Deadline
  <2>1. CASE phase = "refused" BY <1>3, <1>5, <2>1 DEF Deadline, RefusalLost, TimerRuns, lost
  <2>2. CASE phase # "refused"
    <3>1. phase = "headers" /\ phase' = "over" /\ outcome' = DeadlineCode(adapter) /\ late' = TRUE
          /\ UNCHANGED <<adapter, frames, body, refusal, stopped>>
      BY <1>5, <2>2 DEF Deadline, TimerRuns
    <3>2. DeadlineCode(adapter) \in Codes /\ DeadlineCode(adapter) \in Retryable
          /\ DeadlineCode(adapter) # "REQUEST_ABORTED"
      BY DEF DeadlineCode, Codes, Retryable
    <3> QED BY <3>1, <3>2
  <2> QED BY <2>1, <2>2
<1>6. CASE NetworkFails
  <2>1. CASE phase = "refused" BY <1>3, <1>6, <2>1 DEF NetworkFails, RefusalLost, lost
  <2>2. CASE phase # "refused"
    <3>1. "PROVIDER_UNAVAILABLE" \in Codes /\ "REQUEST_ABORTED" \in Codes BY DEF Codes
    <3>2. /\ phase # "over" /\ phase' = "over"
          /\ outcome' = IF stopped THEN "REQUEST_ABORTED" ELSE "PROVIDER_UNAVAILABLE"
          /\ UNCHANGED <<adapter, frames, body, refusal, stopped, late>>
      BY <1>6, <2>2 DEF NetworkFails
    <3>3. CASE stopped BY <3>1, <3>2, <3>3
    <3>4. CASE ~stopped BY <3>1, <3>2, <3>4
    <3> QED BY <3>3, <3>4
  <2> QED BY <2>1, <2>2
<1>7. CASE Stop
  <2>1. CASE phase = "refused" BY <1>3, <1>7, <2>1 DEF Stop, RefusalLost, lost
  <2>2. CASE phase # "refused"
    <3>1. "REQUEST_ABORTED" \in Codes BY DEF Codes
    <3>2. CASE phase = "reading" /\ ~Listening(adapter) BY <1>7, <2>2, <3>2 DEF Stop
    <3>3. CASE ~(phase = "reading" /\ ~Listening(adapter)) BY <1>7, <2>2, <3>1, <3>3 DEF Stop
    <3> QED BY <3>2, <3>3
  <2> QED BY <2>1, <2>2
<1>8. ASSUME NEW status \in Statuses \ {200}, NEW hint \in Hints, Refuse(status, hint)
      PROVE  Control' /\ phase # "over" /\ outcome' # "ok" /\ UNCHANGED <<adapter, frames, body>>
  <2>1. status # 0 BY DEF Statuses
  <2> QED BY <1>8, <2>1 DEF Refuse
<1> QED BY <1>1, <1>2, <1>4, <1>5, <1>6, <1>7, <1>8

(* A read, whatever it holds. *)
LEMMA ReadKeeps ==
  ASSUME IInv, NEW m \in 1..Len(rest), Read(m) PROVE IInv'
<1> DEFINE B == Body(adapter, frames)
           reader == ReaderAfter(adapter, Reading, rest, m)
<1>1. /\ phase = "reading" /\ rest' = SubSeq(rest, m + 1, Len(rest))
      /\ buffer' = reader[m].buffer /\ data' = reader[m].data /\ st' = reader[m].st
      /\ IF Ended(adapter, reader[m].st) THEN Over("ok")
         ELSE IF stopped THEN Over("REQUEST_ABORTED") ELSE UNCHANGED <<phase, outcome>>
      /\ UNCHANGED <<adapter, frames, refusal, stopped, late>>
  BY Zenon DEF Read, ReaderAfter
<1>2. PICK n \in 0..Len(B) : Follows(n) BY DEF IInv
<1>3. frames \in Seq(SomeFrame) BY FramesType DEF IInv
<1>4. B \in Seq(SomePiece) BY <1>3, SentTyped
<1>5. outcome = None /\ ~late BY <1>1 DEF IInv, Control
<1>6. rest = SubSeq(B, n + 1, Len(B)) /\ At(adapter, frames, n, Reading)
  BY <1>2, <1>5, NoneApart DEF Follows
<1>7. m \in 0..Len(rest) OBVIOUS
<1>8. n + m \in 0..Len(B) /\ rest' = SubSeq(B, (n + m) + 1, Len(B))
  <2> HIDE DEF B
  <2> QED BY <1>1, <1>2, <1>4, <1>6, <1>7, RestOn
<1>9. At(adapter, frames, n + m, reader[m])
  BY <1>2, <1>3, <1>6, <1>7, ReadOn
<1> DEFINE last == reader[m]
<1>10. last \in Reader /\ Len(last.data) <= 1 /\ Fits(adapter, frames, n + m, last.buffer)
  <2> HIDE DEF reader
  <2> QED BY <1>3, <1>9, AtTyped DEF At
<1> HIDE DEF reader
<1>11. Reading' = last
  <2>1. Reading' = [buffer |-> last.buffer, data |-> last.data, st |-> last.st] BY <1>1 DEF Reading
  <2> HIDE DEF last
  <2> QED BY <1>10, <2>1 DEF Reader
<1>12. At(adapter, frames, n + m, last) BY <1>9
<1> HIDE DEF last
<1>13. st' = last.st /\ buffer' = last.buffer /\ data' = last.data BY <1>1 DEF last
<1>14. adapter' = adapter /\ frames' = frames BY <1>1
<1>15. st' \in Told BY <1>10, <1>13 DEF Reader
<1>16. CASE Ended(adapter, last.st)
  <2>1. phase' = "over" /\ outcome' = "ok" BY <1>1, <1>16 DEF Over, last
  <2>2. All(adapter, frames, n + m) = last.st BY <1>3, <1>8, <1>12, <1>16, AtDue
  <2>3. st'.out = Due(adapter, frames, n + m) BY <1>13, <1>16, <2>2 DEF Due, DueOf
  <2>4. Follows(n + m)' BY <1>8, <1>10, <1>13, <1>14, <1>15, <2>1, <2>3 DEF Follows
  <2>5. Control' BY <1>1, <1>5, <2>1, NoneApart DEF IInv, Control
  <2> QED BY <1>8, <1>14, <2>1, <2>4, <2>5 DEF IInv
<1>17. CASE ~Ended(adapter, last.st)
  <2>1. \/ phase' = "over" /\ outcome' = "REQUEST_ABORTED" /\ stopped
        \/ phase' = phase /\ outcome' = outcome
    BY <1>1, <1>17 DEF Over, last
  <2>2. outcome' # "ok" BY <1>5, <2>1, NoneApart
  <2>3. Follows(n + m)' BY <1>8, <1>11, <1>12, <1>14, <2>2 DEF Follows
  <2>4. Control' BY <1>1, <1>5, <2>1, NoneApart DEF IInv, Control
  <2>5. ~Ended(adapter', st') BY <1>13, <1>14, <1>17
  <2> QED BY <1>8, <1>14, <2>3, <2>4, <2>5 DEF IInv
<1> QED BY <1>16, <1>17

(* The end of the body. *)
LEMMA EndKeeps ==
  ASSUME IInv, End PROVE IInv'
<1> DEFINE last == Trailing(adapter, Reading)
<1>1. /\ phase = "reading" /\ st' = IF last.completed \/ Ended(adapter, last) THEN last ELSE Finish(last)
      /\ buffer' = <<>> /\ data' = <<>> /\ Over("ok")
      /\ UNCHANGED <<adapter, frames, rest, refusal, stopped, late>>
  BY DEF End
<1>2. PICK n \in 0..Len(Body(adapter, frames)) : Follows(n) BY DEF IInv
<1>3. frames \in Seq(SomeFrame) BY FramesType DEF IInv
<1>4. outcome = None /\ ~late /\ ~Ended(adapter, st) BY <1>1 DEF IInv, Control
<1>5. At(adapter, frames, n, Reading) BY <1>2, <1>4, NoneApart DEF Follows
<1>6. Reading.st = st BY DEF Reading
<1>7. Goes(st, All(adapter, frames, n)) BY <1>2, <1>3, <1>5, <1>6, AtDue
<1>8. last = All(adapter, frames, n) BY <1>2, <1>3, <1>4, <1>5, <1>6, AtDue
<1> HIDE DEF last
<1>9. last \in Told BY <1>7, <1>8 DEF Goes
<1>10. Finish(last) \in Told /\ Finish(last).out = last.out \o Complete(last)
  <2>1. Finish(last) \in Told BY <1>9, GoesFinish DEF Goes
  <2>2. Finish(last).out = last.out \o Complete(last) BY <1>9 DEF Finish, Told
  <2> QED BY <2>1, <2>2
<1>11. st' \in Told /\ st'.out = Due(adapter, frames, n) BY <1>1, <1>8, <1>9, <1>10 DEF Due, DueOf
<1>12. Fits(adapter, frames, n, <<>>) /\ Len(<<>>) = 0
  <2>1. <<>> \in Seq(SomePiece) /\ Len(<<>>) = 0 /\ n >= 0 /\ \A j \in 1..0 : FALSE OBVIOUS
  <2> QED BY <2>1 DEF Fits
<1>13. phase' = "over" /\ outcome' = "ok" BY <1>1 DEF Over
<1>14. Follows(n)' BY <1>1, <1>2, <1>11, <1>12, <1>13 DEF Follows
<1>15. Control' BY <1>1, <1>4, <1>13, NoneApart DEF IInv, Control
<1>16. adapter' = adapter /\ frames' = frames BY <1>1
<1> QED BY <1>13, <1>14, <1>15, <1>16 DEF IInv

LEMMA Stays == IInv /\ [Next]_vars => IInv'
<1> SUFFICES ASSUME IInv, [Next]_vars PROVE IInv' OBVIOUS
<1>1. CASE HeadersArrive \/ EmptyBody \/ RefusalRead \/ Deadline \/ NetworkFails \/ Stop
             \/ \E status \in Statuses \ {200}, hint \in Hints : Refuse(status, hint)
  BY <1>1, ReasonsStay, NothingRead
<1>2. CASE End BY <1>2, EndKeeps
<1>3. CASE \E n \in 1..Len(rest) : Read(n) BY <1>3, ReadKeeps
<1>4. CASE UNCHANGED vars
  <2>1. /\ adapter' = adapter /\ frames' = frames /\ rest' = rest /\ buffer' = buffer /\ data' = data /\ st' = st
        /\ phase' = phase /\ refusal' = refusal /\ outcome' = outcome /\ stopped' = stopped /\ late' = late
    BY <1>4 DEF vars
  <2>2. Reading' = Reading BY <2>1 DEF Reading
  <2> QED BY <2>1, <2>2 DEF IInv, Follows, Control
<1> QED BY <1>1, <1>2, <1>3, <1>4 DEF Next

LEMMA Streamed == Spec => []IInv
BY Starts, Stays, PTL DEF Spec

(* What TypeOK says of a request and of the text that arrived: what is yet *)
(* to come is the end of the body, the buffer the end of what came.        *)
LEMMA Typed == IInv => TypeOK
<1> SUFFICES ASSUME IInv PROVE TypeOK OBVIOUS
<1> DEFINE B == Body(adapter, frames)
<1>1. PICK n \in 0..Len(B) : Follows(n) BY DEF IInv
<1>2. frames \in Seq(SomeFrame) BY FramesType DEF IInv
<1>3. B \in Seq(SomePiece) /\ Len(B) \in Nat BY <1>2, SentTyped
<1>4. Fits(adapter, frames, n, buffer) /\ Len(data) <= 1 /\ st \in Told
  <2>1. CASE outcome = "ok" BY <1>1, <2>1 DEF Follows
  <2>2. CASE outcome # "ok"
    <3>1. At(adapter, frames, n, Reading) BY <1>1, <2>2 DEF Follows
    <3>2. Reading \in Reader /\ Len(Reading.data) <= 1 BY <1>2, <3>1, AtTyped
    <3>3. Fits(adapter, frames, n, Reading.buffer) BY <3>1 DEF At
    <3>4. Reading.buffer = buffer /\ Reading.data = data /\ Reading.st = st BY DEF Reading
    <3> QED BY <3>2, <3>3, <3>4 DEF Reader
  <2> QED BY <2>1, <2>2
<1>5. rest = SubSeq(B, n + 1, Len(B)) BY <1>1 DEF Follows
<1>6. rest \in Seq(SomePiece) /\ Len(rest) = Len(B) - n /\ \A j \in 1..(Len(B) - n) : rest[j] = B[n + j]
  <2> HIDE DEF B
  <2> QED BY <1>1, <1>3, <1>5, RestIs
<1>7. Part(adapter, frames, n) \in Seq(SomePiece) /\ Len(Part(adapter, frames, n)) = n
      /\ \A k \in 1..n : Part(adapter, frames, n)[k] = B[k]
  BY <1>1, <1>3, PartIs
<1>8. /\ buffer \in Seq(SomePiece) /\ Len(buffer) <= n
      /\ \A j \in 1..Len(buffer) : buffer[j].half # 0 /\ buffer[j] = B[n - Len(buffer) + j]
  BY <1>4 DEF Fits
<1>9. Part(adapter, frames, n) = SubSeq(B, 1, n) BY DEF Part
<1> HIDE DEF B
<1>10. IsSuffix(rest, B)
  <2>1. Len(rest) <= Len(B) /\ \A j \in 1..Len(rest) : Len(B) - Len(rest) + j = n + j BY <1>1, <1>3, <1>6
  <2>2. \A j \in 1..Len(rest) : rest[j] = B[Len(B) - Len(rest) + j] BY <1>6, <2>1
  <2> QED BY <1>3, <1>6, <2>1, <2>2, SuffixIs
<1>11. IsSuffix(buffer, SubSeq(B, 1, Len(B) - Len(rest)))
  <2>1. Len(B) - Len(rest) = n /\ n \in Nat BY <1>1, <1>3, <1>6
  <2>2. ASSUME NEW j \in 1..Len(buffer) PROVE buffer[j] = Part(adapter, frames, n)[n - Len(buffer) + j]
    <3>1. n - Len(buffer) + j \in 1..n BY <1>8, <2>1
    <3> QED BY <1>7, <1>8, <3>1
  <2>3. IsSuffix(buffer, Part(adapter, frames, n)) BY <1>7, <1>8, <2>2, SuffixIs
  <2> QED BY <1>9, <2>1, <2>3
<1>12. \A k \in DOMAIN buffer : buffer[k].half # 0 BY <1>8
<1>13. st.finish \in Reasons /\ st.model \in 0..MaxFrames BY <1>4 DEF Told
<1> QED BY <1>4, <1>10, <1>11, <1>12, <1>13 DEF TypeOK, IInv, Control, B

(* The events are those of the frames that arrived. *)
LEMMA Faithful == IInv => StreamFaithful
<1> SUFFICES ASSUME IInv PROVE StreamFaithful OBVIOUS
<1> DEFINE B == Body(adapter, frames)
<1>1. PICK n \in 0..Len(B) : Follows(n) BY DEF IInv
<1>2. frames \in Seq(SomeFrame) BY FramesType DEF IInv
<1>3. B \in Seq(SomePiece) /\ Len(B) \in Nat BY <1>2, SentTyped
<1>4. rest = SubSeq(B, n + 1, Len(B)) BY <1>1 DEF Follows
<1>5. Len(rest) = Len(B) - n
  <2> HIDE DEF B
  <2> QED BY <1>1, <1>3, <1>4, RestIs
<1>6. Delivered = Part(adapter, frames, n)
  <2>1. Len(B) - Len(rest) = n BY <1>1, <1>3, <1>5
  <2> QED BY <2>1 DEF Delivered, Part
<1>7. Reference = Due(adapter, frames, n) BY <1>6, ReferenceIs
<1>8. CASE outcome = "ok"
  <2>1. st.out = Reference /\ st.out \in Seq(SomeEvent) BY <1>1, <1>7, <1>8 DEF Follows, Told
  <2> QED BY <2>1, PrefixSame DEF StreamFaithful
<1>9. CASE outcome # "ok"
  <2> DEFINE all == All(adapter, frames, n)
  <2>1. At(adapter, frames, n, Reading) BY <1>1, <1>9 DEF Follows
  <2>2. Reading.st = st BY DEF Reading
  <2>3. st \in Told /\ Goes(st, all) BY <1>1, <1>2, <2>1, <2>2, AtDue
  <2> HIDE DEF all
  <2>4. all \in Told /\ IsPrefix(st.out, all.out) BY <2>3 DEF Goes
  <2>5. IsPrefix(st.out, DueOf(adapter, all))
    <3>1. st.out \in Seq(SomeEvent) /\ all.out \in Seq(SomeEvent) BY <2>3, <2>4 DEF Told
    <3>2. Complete(all) \in Seq(SomeEvent) BY <2>4, EventsType, NoiseType, NoneApart
    <3>3. all.out \o Complete(all) \in Seq(SomeEvent) /\ IsPrefix(all.out, all.out \o Complete(all))
      BY <3>1, <3>2, PrefixThen
    <3>4. IsPrefix(st.out, all.out \o Complete(all)) BY <2>4, <3>1, <3>3, PrefixOn
    <3> QED BY <2>4, <3>4 DEF DueOf
  <2> QED BY <1>7, <1>9, <2>5 DEF StreamFaithful, Due, all
<1> QED BY <1>8, <1>9

(* The table of the filter and the classes of the errors agree. *)
LEMMA StatusOf ==
  ASSUME NEW code \in Codes
  PROVE  /\ mapErrorCodeToHttpStatus(code) = ClassStatus[code]
         /\ ClassStatus[code] \in {400, 404, 413, 422, 429, 499, 502, 503, 504}
         /\ code \in Retryable => ClassStatus[code] \in {429, 502, 503, 504}
<1> DEFINE status == mapErrorCodeToHttpStatus(code)
           own == ClassStatus[code]
           n == 9
           odd == code \in {"AUTHENTICATION_FAILED", "AUTHORIZATION_FAILED", "CONNECTION_FAILED", "UNKNOWN_ERROR"}
           limit == code = "RATE_LIMIT_EXCEEDED"
           wrong == code \in {"INVALID_REQUEST", "UNSUPPORTED_PROVIDER_KIND", "UNSUPPORTED_CAPABILITY"}
           missing == code = "MODEL_NOT_FOUND"
           filtered == code = "CONTENT_FILTERED"
           long == code = "CONTEXT_LENGTH_EXCEEDED"
           away == code = "PROVIDER_UNAVAILABLE"
           slow == code = "REQUEST_TIMEOUT"
           aborted == code = "REQUEST_ABORTED"
           table == << <<odd, 502>>, <<limit, 429>>, <<wrong, 400>>, <<missing, 404>>, <<filtered, 422>>,
                       <<long, 413>>, <<away, 503>>, <<slow, 504>>, <<aborted, 499>> >>
           class == << <<wrong, 400>>, <<missing, 404>>, <<long, 413>>, <<filtered, 422>>, <<limit, 429>>,
                       <<aborted, 499>>, <<away, 503>>, <<slow, 504>>, <<TRUE, 502>> >>
<1>1. status = FirstMatch(table) BY DEF mapErrorCodeToHttpStatus
<1>2. own = FirstMatch(class) BY DEF ClassStatus
<1>3. odd \/ limit \/ wrong \/ missing \/ filtered \/ long \/ away \/ slow \/ aborted BY DEF Codes
<1>4. /\ odd \in BOOLEAN /\ limit \in BOOLEAN /\ wrong \in BOOLEAN /\ missing \in BOOLEAN /\ filtered \in BOOLEAN
      /\ long \in BOOLEAN /\ away \in BOOLEAN /\ slow \in BOOLEAN /\ aborted \in BOOLEAN
  OBVIOUS
<1> HIDE DEF status, own
<1>5. \/ (odd /\ status = 502) \/ (limit /\ status = 429) \/ (wrong /\ status = 400)
      \/ (missing /\ status = 404) \/ (filtered /\ status = 422) \/ (long /\ status = 413)
      \/ (away /\ status = 503) \/ (slow /\ status = 504) \/ (aborted /\ status = 499)
  <2> HIDE DEF odd, limit, wrong, missing, filtered, long, away, slow, aborted
  <2>1. /\ (table[1][1] <=> odd) /\ (table[2][1] <=> limit) /\ (table[3][1] <=> wrong)
        /\ (table[4][1] <=> missing) /\ (table[5][1] <=> filtered) /\ (table[6][1] <=> long)
        /\ (table[7][1] <=> away) /\ (table[8][1] <=> slow) /\ (table[9][1] <=> aborted)
    BY <1>4
  <2>2. /\ table[1][2] = 502 /\ table[2][2] = 429 /\ table[3][2] = 400 /\ table[4][2] = 404 /\ table[5][2] = 422
        /\ table[6][2] = 413 /\ table[7][2] = 503 /\ table[8][2] = 504 /\ table[9][2] = 499
    OBVIOUS
  <2>3. n \in Nat /\ DOMAIN table = 1..n OBVIOUS
  <2> HIDE DEF table
  <2>4. PICK j \in 1..9 : table[j][1] BY <1>3, <2>1
  <2>5. j \in 1..n OBVIOUS
  <2> HIDE DEF n
  <2>6. PICK k \in 1..n : FirstMatch(table) = table[k][2] /\ table[k][1] BY <2>3, <2>4, <2>5, FirstAny
  <2>7. k = 1 \/ k = 2 \/ k = 3 \/ k = 4 \/ k = 5 \/ k = 6 \/ k = 7 \/ k = 8 \/ k = 9 BY DEF n
  <2> QED BY <1>1, <2>1, <2>2, <2>6, <2>7
<1>6. \/ (wrong /\ own = 400) \/ (missing /\ own = 404) \/ (long /\ own = 413)
      \/ (filtered /\ own = 422) \/ (limit /\ own = 429) \/ (aborted /\ own = 499)
      \/ (away /\ own = 503) \/ (slow /\ own = 504)
      \/ (/\ ~wrong /\ ~missing /\ ~long /\ ~filtered /\ ~limit /\ ~aborted /\ ~away /\ ~slow
          /\ own = 502)
  <2> HIDE DEF odd, limit, wrong, missing, filtered, long, away, slow, aborted
  <2>1. /\ (class[1][1] <=> wrong) /\ (class[2][1] <=> missing) /\ (class[3][1] <=> long)
        /\ (class[4][1] <=> filtered) /\ (class[5][1] <=> limit) /\ (class[6][1] <=> aborted)
        /\ (class[7][1] <=> away) /\ (class[8][1] <=> slow)
    BY <1>4
  <2>2. /\ class[1][2] = 400 /\ class[2][2] = 404 /\ class[3][2] = 413 /\ class[4][2] = 422 /\ class[5][2] = 429
        /\ class[6][2] = 499 /\ class[7][2] = 503 /\ class[8][2] = 504 /\ class[9][2] = 502
    OBVIOUS
  <2>3. n \in Nat \ {0} /\ DOMAIN class = 1..n /\ class[n][1] OBVIOUS
  <2> HIDE DEF class, n
  <2>4. PICK k \in 1..n : FirstMatch(class) = class[k][2] /\ class[k][1] /\ \A i \in 1..(k - 1) : ~class[i][1]
    BY <2>3, FirstMatched
  <2>5. k = 1 \/ k = 2 \/ k = 3 \/ k = 4 \/ k = 5 \/ k = 6 \/ k = 7 \/ k = 8 \/ k = 9 BY DEF n
  <2>6. k = 9 => \A i \in 1..8 : ~class[i][1] BY <2>4
  <2>7. k = 9 => ~wrong /\ ~missing /\ ~long /\ ~filtered /\ ~limit /\ ~aborted /\ ~away /\ ~slow
    BY <2>1, <2>6
  <2> QED BY <1>2, <2>1, <2>2, <2>4, <2>5, <2>7
<1>7. status = own
  BY <1>3, <1>5, <1>6
<1>8. own \in {400, 404, 413, 422, 429, 499, 502, 503, 504} BY <1>6
<1>9. code \in Retryable => own \in {429, 502, 503, 504} BY <1>6 DEF Retryable
<1> QED BY <1>7, <1>8, <1>9 DEF status, own

(* What a stream says of the error of an adapter. *)
LEMMA PayloadOf ==
  ASSUME NEW ex, ex.kind = "adapter"
  PROVE  /\ toStreamErrorPayload(ex).code = ex.code
         /\ toStreamErrorPayload(ex).retryable <=> ex.code \in Retryable
<1> DEFINE again == ex.code \in Retryable
<1>1. again \in BOOLEAN OBVIOUS
<1>2. toStreamErrorPayload(ex) = [code |-> ex.code, retryable |-> again]
  BY Zenon DEF toStreamErrorPayload
<1> HIDE DEF again
<1>3. [code |-> ex.code, retryable |-> again].code = ex.code OBVIOUS
<1>4. [code |-> ex.code, retryable |-> again].retryable <=> again BY <1>1
<1>5. toStreamErrorPayload(ex).code = ex.code BY <1>2, <1>3
<1>6. toStreamErrorPayload(ex).retryable <=> again BY <1>2, <1>4, Zenon
<1> QED BY <1>5, <1>6 DEF again

LEMMA ToldAs == IInv => FailuresTold
<1> SUFFICES ASSUME IInv PROVE FailuresTold OBVIOUS
<1> DEFINE ex == [kind |-> "adapter", code |-> outcome, status |-> 0]
           told == toStreamErrorPayload(ex)
           answer == Caught(ex, FALSE)
           status == answer.status
<1>1. outcome = "REQUEST_ABORTED" => stopped BY DEF IInv, Control
<1>2. /\ late /\ phase = "over" /\ refusal[1] = 0 => outcome \in Retryable
      /\ stopped /\ phase = "over" /\ refusal[1] = 0 => outcome \in {"ok", "REQUEST_ABORTED"}
  BY DEF IInv, Control
<1>3. answer = [status |-> ClassStatus[outcome], code |-> outcome] BY DEF Caught, buildBody
<1>4. ex.kind = "adapter" /\ ex.code = outcome OBVIOUS
<1> HIDE DEF ex, answer
<1>5. status = ClassStatus[outcome] BY <1>3
<1>6. told.code = outcome /\ (told.retryable <=> outcome \in Retryable) BY <1>4, PayloadOf, Zenon
<1> HIDE DEF told, status
<1>7. ASSUME outcome \in Codes
      PROVE  /\ answer = [status |-> mapErrorCodeToHttpStatus(outcome), code |-> outcome]
             /\ told.code = outcome
             /\ status \notin {401, 403}
             /\ told.retryable => status = 429 \/ status >= 500
  <2>1. mapErrorCodeToHttpStatus(outcome) = ClassStatus[outcome] BY <1>7, StatusOf
  <2>2. status \in {400, 404, 413, 422, 429, 499, 502, 503, 504} BY <1>5, <1>7, StatusOf
  <2>3. outcome \in Retryable => status \in {429, 502, 503, 504} BY <1>5, <1>7, StatusOf
  <2>4. status \notin {401, 403} BY <2>2
  <2>5. outcome \in Retryable => status = 429 \/ status >= 500 BY <2>3
  <2> QED BY <1>3, <1>6, <2>1, <2>4, <2>5
<1> QED BY <1>1, <1>2, <1>7, Zenon DEF FailuresTold, ex, told, answer, status

-----------------------------------------------------------------------------
(* The theorems. *)

(* However a body is cut into reads: the buffer holds the end of what came,*)
(* never a newline, and at most one data line waits for its event.         *)
THEOREM StreamsTyped == Spec => []TypeOK
BY Streamed, Typed, PTL

(* Of any frames, in reads cut anywhere: a stream that ends well has told  *)
(* the events of the frames that arrived, and one that fails a prefix of   *)
(* them (readSseEvents and readNdjson, and what the adapters make of each).*)
THEOREM StreamsFaithful == Spec => []StreamFaithful
BY Streamed, Faithful, PTL

(* A request is told as cancelled only if its caller cancelled it, and once*)
(* that is so no failure is told as the provider's, one past its deadline  *)
(* is worth another try, and every failure has the same code in an answer  *)
(* as in a stream (executeFetch, the catch of stream, the exception filter)*)
THEOREM FailuresAreTold == Spec => []FailuresTold
BY Streamed, ToldAs, PTL
=============================================================================
