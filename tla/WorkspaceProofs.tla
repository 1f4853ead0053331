-------------------------- MODULE WorkspaceProofs ---------------------------
(***************************************************************************)
(* What holds of the rows a user arranges, for every number of agents,     *)
(* teams, chats and memories: no row names a row that is gone, rosters have*)
(* an order, and members keep it.  The three state properties are          *)
(* inductive together: that a new position fits needs that no two members  *)
(* have the same one.                                                      *)
(***************************************************************************)
EXTENDS Workspace, FiniteSetTheorems, WellFoundedInduction, TLAPS

-----------------------------------------------------------------------------
(* Tables: what an insert and a delete leave in one. *)

(* A table is a function on some of the ids. *)
LEMMA InTable ==
  ASSUME NEW ids, NEW row, NEW t
  PROVE  t \in Table(ids, row) <=> DOMAIN t \in SUBSET ids /\ t \in [DOMAIN t -> row]
BY DEF Table

(* Without rows it is a table of any kind. *)
LEMMA EmptyTable ==
  ASSUME NEW ids, NEW row
  PROVE  Empty \in Table(ids, row) /\ DOMAIN Empty = {}
<1>1. DOMAIN Empty = {} /\ Empty \in [{} -> row] BY DEF Empty
<1> QED BY <1>1, InTable

(* new is t with the row v at id. *)
Put(new, t, id, v) ==
  /\ DOMAIN new = DOMAIN t \cup {id} /\ new[id] = v
  /\ \A x \in DOMAIN t : x # id => new[x] = t[x]

(* An insert gives a table, changed at the id only. *)
LEMMA Inserted ==
  ASSUME NEW ids, NEW row, NEW t \in Table(ids, row), NEW id \in ids, NEW v \in row
  PROVE  Insert(t, id, v) \in Table(ids, row) /\ Put(Insert(t, id, v), t, id, v)
<1>1. DOMAIN t \in SUBSET ids /\ t \in [DOMAIN t -> row] BY InTable
<1>2. /\ DOMAIN Insert(t, id, v) = DOMAIN t \cup {id}
      /\ Insert(t, id, v)[id] = v
      /\ \A x \in DOMAIN t : x # id => Insert(t, id, v)[x] = t[x]
      /\ Insert(t, id, v) \in [DOMAIN t \cup {id} -> row]
  BY <1>1 DEF Insert
<1>3. Insert(t, id, v) \in Table(ids, row) BY <1>1, <1>2, InTable
<1> QED BY <1>2, <1>3 DEF Put

(* new is t without the ids gone. *)
Left(new, t, gone) == DOMAIN new = DOMAIN t \ gone /\ \A x \in DOMAIN t \ gone : new[x] = t[x]

(* A delete gives a table with the rows that stay as they were. *)
LEMMA Deletes ==
  ASSUME NEW ids, NEW row, NEW t \in Table(ids, row), NEW gone \in SUBSET ids
  PROVE  Delete(t, gone) \in Table(ids, row) /\ Left(Delete(t, gone), t, gone)
<1>1. DOMAIN t \in SUBSET ids /\ t \in [DOMAIN t -> row] BY InTable
<1>2. /\ DOMAIN Delete(t, gone) = DOMAIN t \ gone
      /\ \A x \in DOMAIN t \ gone : Delete(t, gone)[x] = t[x]
      /\ Delete(t, gone) \in [DOMAIN t \ gone -> row]
  BY <1>1 DEF Delete
<1>3. Delete(t, gone) \in Table(ids, row) BY <1>1, <1>2, InTable
<1> QED BY <1>2, <1>3 DEF Left

-----------------------------------------------------------------------------
(* Rosters. *)

Positions == 0..MaxPosition
Roster == Table(Agents, Positions)
Apart(roster) == \A a, b \in DOMAIN roster : roster[a] = roster[b] => a = b

(* A roster has finitely many members, with natural positions. *)
LEMMA RosterFinite ==
  ASSUME NEW roster \in Roster
  PROVE  /\ DOMAIN roster \in SUBSET Agents /\ IsFiniteSet(DOMAIN roster)
         /\ Cardinality(DOMAIN roster) \in Nat
         /\ \A a \in DOMAIN roster : roster[a] \in 0..MaxPosition /\ roster[a] \in Nat
<1>1. DOMAIN roster \in SUBSET Agents /\ roster \in [DOMAIN roster -> 0..MaxPosition]
  BY InTable DEF Roster, Positions
<1>2. IsFiniteSet(DOMAIN roster) BY <1>1, WorkspaceAssumption, FS_Subset
<1>3. Cardinality(DOMAIN roster) \in Nat BY <1>2, FS_CardinalityType
<1> QED BY <1>1, <1>2, <1>3, WorkspaceAssumption

(* Of bounded positions there is a highest: fewest are above it. *)
LEMMA Highest ==
  ASSUME NEW M \in Nat, NEW S \in SUBSET (0..M), S # {}
  PROVE  \E n \in S : \A m \in S : m <= n
<1> DEFINE Above(n) == (n + 1)..M
           T == {Above(n) : n \in S}
           R == StrictSubsetOrdering(0..M)
<1>1. T # {} /\ T \subseteq FiniteSubsetsOf(0..M)
  <2>1. ASSUME NEW n \in S PROVE Above(n) \in SUBSET (0..M) /\ IsFiniteSet(Above(n))
    BY FS_Interval
  <2> HIDE DEF Above
  <2> QED BY <2>1 DEF FiniteSubsetsOf
<1>2. IsWellFoundedOn(R, FiniteSubsetsOf(0..M)) BY FS_StrictSubsetOrderingWellFounded
<1> HIDE DEF T, R
<1>3. PICK x \in T : \A y \in T : ~ (<<y, x>> \in R) BY <1>1, <1>2, WFMin
<1>4. PICK n \in S : x = Above(n) BY <1>3 DEF T
<1>5. ASSUME NEW m \in S, ~(m <= n) PROVE FALSE
  <2>1. Above(m) \in T BY DEF T
  <2>2. m \in Above(n) /\ m \notin Above(m) /\ Above(m) \subseteq Above(n) BY <1>5
  <2>3. Above(m) \in SUBSET (0..M) /\ Above(n) \in SUBSET (0..M) OBVIOUS
  <2> HIDE DEF Above
  <2>4. <<Above(m), Above(n)>> \in R BY <2>2, <2>3 DEF R, StrictSubsetOrdering
  <2> QED BY <1>3, <1>4, <2>1, <2>4
<1> QED BY <1>5

(* As many members as places, each at its own: every place is taken. *)
LEMMA Places ==
  ASSUME NEW D, IsFiniteSet(D), NEW k \in Nat, Cardinality(D) = k, NEW f \in [D -> 0..(k - 1)],
         \A a, b \in D : f[a] = f[b] => a = b
  PROVE  {f[a] : a \in D} = 0..(k - 1)
<1>1. f \in Injection(D, 0..(k - 1)) BY DEF Injection, IsInjective
<1>2. IsFiniteSet(0..(k - 1)) /\ Cardinality(0..(k - 1)) = k
  <2>1. /\ IsFiniteSet(0..(k - 1))
        /\ Cardinality(0..(k - 1)) = IF 0 > k - 1 THEN 0 ELSE (k - 1) - 0 + 1
    BY FS_Interval
  <2> QED BY <2>1
<1>3. f \in Surjection(D, 0..(k - 1)) BY <1>1, <1>2, FS_Injection
<1> QED BY <1>3 DEF Surjection

(* Members with places of their own are no more than the places. *)
LEMMA RosterBounded ==
  ASSUME NEW roster \in Roster, Apart(roster)
  PROVE  Cardinality(DOMAIN roster) <= MaxPosition + 1
<1>1. roster \in [DOMAIN roster -> 0..MaxPosition] BY InTable DEF Roster, Positions
<1>2. roster \in Injection(DOMAIN roster, 0..MaxPosition) BY <1>1 DEF Injection, IsInjective, Apart
<1>3. IsFiniteSet(0..MaxPosition) /\ Cardinality(0..MaxPosition) = MaxPosition + 1
  <2>1. MaxPosition \in Nat BY WorkspaceAssumption
  <2>2. /\ IsFiniteSet(0..MaxPosition)
        /\ Cardinality(0..MaxPosition) = IF 0 > MaxPosition THEN 0 ELSE MaxPosition - 0 + 1
    BY <2>1, FS_Interval
  <2> QED BY <2>1, <2>2
<1> QED BY <1>2, <1>3, FS_Injection

(* Positions 0..n-1 for all members make a roster in order. *)
InOrder(roster) == roster \in Roster /\ Apart(roster) /\ Dense(roster)

LEMMA Ordered ==
  ASSUME NEW roster \in Roster, Apart(roster), NEW f,
         f \in [DOMAIN roster -> 0..(Cardinality(DOMAIN roster) - 1)],
         \A a, b \in DOMAIN roster : f[a] = f[b] => a = b
  PROVE  InOrder(f) /\ DOMAIN f = DOMAIN roster
<1> DEFINE D == DOMAIN roster
           k == Cardinality(D)
<1>1. D \in SUBSET Agents /\ IsFiniteSet(D) /\ k \in Nat BY RosterFinite
<1>2. k <= MaxPosition + 1 BY RosterBounded
<1>3. DOMAIN f = D OBVIOUS
<1>4. f \in [D -> 0..MaxPosition]
  <2>1. 0..(k - 1) \subseteq 0..MaxPosition BY <1>1, <1>2, WorkspaceAssumption
  <2> HIDE DEF k
  <2> QED BY <2>1 DEF k
<1>5. f \in Roster BY <1>1, <1>3, <1>4, InTable DEF Roster, Positions
<1>6. {f[a] : a \in D} = 0..(k - 1) BY <1>1, Places
<1> QED BY <1>3, <1>5, <1>6 DEF InOrder, Apart, Dense

(* Renumbered members are in order, the order they had. *)
LEMMA Renumbered ==
  ASSUME NEW roster \in Roster, Apart(roster)
  PROVE  /\ InOrder(Renumber(roster)) /\ DOMAIN Renumber(roster) = DOMAIN roster
         /\ \A a, b \in DOMAIN roster : roster[a] < roster[b] => Renumber(roster)[a] < Renumber(roster)[b]
<1> DEFINE D == DOMAIN roster
           Ahead(a) == {b \in D : Before(roster, b, a)}
           new == Renumber(roster)
<1>1. /\ D \in SUBSET Agents /\ IsFiniteSet(D) /\ Cardinality(D) \in Nat
      /\ \A a \in D : roster[a] \in Nat
  BY RosterFinite
<1>2. ASSUME NEW a \in D
      PROVE  \A b \in D : Before(roster, b, a) <=> roster[b] < roster[a]
  <2>1. \A b \in D : b \in Int BY <1>1, WorkspaceAssumption
  <2> QED BY <1>1, <2>1 DEF Before, Apart
<1>3. \A a, b \in D : b \in Ahead(a) <=> roster[b] < roster[a] BY <1>2
<1>4. new = [a \in D |-> Cardinality(Ahead(a))] BY DEF Renumber
<1>5. \A a \in D : Ahead(a) \in SUBSET D OBVIOUS
<1> HIDE DEF Ahead, new
<1>6. ASSUME NEW a \in D
      PROVE  IsFiniteSet(Ahead(a)) /\ Cardinality(Ahead(a)) \in 0..(Cardinality(D) - 1)
  <2>1. IsFiniteSet(Ahead(a)) /\ Cardinality(Ahead(a)) \in Nat
    BY <1>1, <1>5, FS_Subset, FS_CardinalityType
  <2>2. a \notin Ahead(a) BY <1>1, <1>3
  <2>3. Ahead(a) \cup {a} \in SUBSET D BY <1>5
  <2>4. Cardinality(Ahead(a) \cup {a}) <= Cardinality(D) BY <1>1, <2>3, FS_Subset
  <2>5. Cardinality(Ahead(a) \cup {a}) = Cardinality(Ahead(a)) + 1 BY <2>1, <2>2, FS_AddElement
  <2> QED BY <1>1, <2>1, <2>4, <2>5
<1>7. ASSUME NEW a \in D, NEW b \in D, roster[a] < roster[b]
      PROVE  new[a] < new[b]
  <2>1. a \notin Ahead(a) /\ Ahead(a) \cup {a} \in SUBSET Ahead(b)
    <3>1. \A x \in Ahead(a) : x \in D /\ roster[x] < roster[a] BY <1>3, <1>5
    <3>2. \A x \in Ahead(a) : x \in Ahead(b) BY <1>1, <1>3, <1>7, <3>1
    <3> QED BY <1>1, <1>3, <1>7, <3>2
  <2>2. Cardinality(Ahead(a) \cup {a}) = Cardinality(Ahead(a)) + 1 BY <1>6, <2>1, FS_AddElement
  <2>3. Cardinality(Ahead(a) \cup {a}) <= Cardinality(Ahead(b)) BY <1>6, <2>1, FS_Subset
  <2>4. Cardinality(Ahead(a)) \in Nat /\ Cardinality(Ahead(b)) \in Nat BY <1>1, <1>6
  <2> QED BY <1>4, <2>2, <2>3, <2>4
<1>8. new \in [D -> 0..(Cardinality(D) - 1)] BY <1>4, <1>6
<1>9. \A a, b \in D : new[a] = new[b] => a = b
  <2> SUFFICES ASSUME NEW a \in D, NEW b \in D, new[a] = new[b], a # b PROVE FALSE OBVIOUS
  <2>1. roster[a] < roster[b] \/ roster[b] < roster[a] BY <1>1 DEF Apart
  <2>2. new[a] < new[b] \/ new[b] < new[a] BY <1>7, <2>1
  <2>3. new[a] \in Int /\ new[b] \in Int BY <1>8
  <2> QED BY <2>2, <2>3
<1>10. InOrder(new) /\ DOMAIN new = D BY <1>8, <1>9, Ordered
<1> QED BY <1>7, <1>10 DEF new

(* So are members who are put in the order of a request that names each. *)
LEMMA Reordered ==
  ASSUME NEW roster \in Roster, Apart(roster), NEW k \in Nat, NEW requested \in [1..k -> Agents],
         Matches(roster, requested), NEW new,
         new = [a \in DOMAIN roster |-> (CHOOSE i \in DOMAIN requested : requested[i] = a) - 1]
  PROVE  InOrder(new) /\ DOMAIN new = DOMAIN roster
<1> DEFINE D == DOMAIN roster
           At(a) == CHOOSE i \in DOMAIN requested : requested[i] = a
<1>1. DOMAIN requested = 1..k OBVIOUS
<1>2. ASSUME NEW a \in D PROVE At(a) \in 1..k /\ requested[At(a)] = a
  <2>1. \E i \in DOMAIN requested : requested[i] = a BY DEF Matches
  <2> QED BY <1>1, <2>1
<1>3. new = [a \in D |-> At(a) - 1] OBVIOUS
<1> HIDE DEF At
<1>4. Cardinality(D) = k
  <2>1. requested \in [1..k -> D] BY <1>1 DEF Matches
  <2>2. requested \in Surjection(1..k, D) /\ requested \in Injection(1..k, D)
    BY <1>1, <2>1 DEF Matches, Surjection, Injection, IsInjective
  <2>3. IsFiniteSet(1..k) /\ Cardinality(1..k) = k
    <3>1. IsFiniteSet(1..k) /\ Cardinality(1..k) = IF 1 > k THEN 0 ELSE k - 1 + 1 BY FS_Interval
    <3> QED BY <3>1
  <2> QED BY <2>2, <2>3, FS_Surjection
<1>5. new \in [D -> 0..(k - 1)] BY <1>2, <1>3
<1>6. \A a, b \in D : new[a] = new[b] => a = b
  <2> SUFFICES ASSUME NEW a \in D, NEW b \in D, new[a] = new[b] PROVE a = b OBVIOUS
  <2>1. At(a) - 1 = At(b) - 1 BY <1>3
  <2>2. At(a) \in 1..k /\ At(b) \in 1..k BY <1>2
  <2>3. At(a) = At(b) BY <2>1, <2>2
  <2> QED BY <1>2, <2>3
<1>7. new \in [DOMAIN roster -> 0..(Cardinality(DOMAIN roster) - 1)] BY <1>4, <1>5
<1> QED BY ONLY <1>6, <1>7, roster \in Roster, Apart(roster), Ordered

(* The next position is behind all others, and right behind the last.      *)
LEMMA NextIsLast ==
  ASSUME NEW roster \in Roster
  PROVE  /\ NextPosition(roster) \in Nat
         /\ \A b \in DOMAIN roster : roster[b] < NextPosition(roster)
         /\ DOMAIN roster = {} => NextPosition(roster) = 0
         /\ DOMAIN roster # {} => \E b \in DOMAIN roster : NextPosition(roster) = roster[b] + 1
<1> DEFINE D == DOMAIN roster
           Last(h) == (\E b \in D : roster[b] = h) /\ \A b \in D : roster[b] <= h
           h == CHOOSE x \in 0..MaxPosition : Last(x)
<1>1. \A b \in D : roster[b] \in 0..MaxPosition /\ roster[b] \in Nat BY RosterFinite
<1>2. CASE D = {} BY <1>2 DEF NextPosition
<1>3. CASE D # {}
  <2>1. NextPosition(roster) = 1 + h BY <1>3 DEF NextPosition
  <2>2. PICK m \in {roster[b] : b \in D} : \A x \in {roster[b] : b \in D} : x <= m
    <3>1. {roster[b] : b \in D} \in SUBSET (0..MaxPosition) /\ {roster[b] : b \in D} # {}
      BY <1>1, <1>3
    <3> QED BY <3>1, Highest, WorkspaceAssumption
  <2>3. m \in 0..MaxPosition /\ Last(m) BY <1>1, <2>2
  <2> HIDE DEF Last
  <2>4. h \in 0..MaxPosition /\ Last(h) BY <2>3
  <2> HIDE DEF h
  <2>5. /\ h \in Nat /\ \A b \in D : roster[b] <= h
        /\ \E b \in D : roster[b] = h
    BY <2>4, WorkspaceAssumption DEF Last
  <2> QED BY <1>1, <1>3, <2>1, <2>5
<1> QED BY <1>2, <1>3

(* Who joins comes last. *)
LEMMA Joined ==
  ASSUME NEW roster \in Roster, Apart(roster), NEW a \in Agents, a \notin DOMAIN roster,
         NEW n, n = NextPosition(roster), n <= MaxPosition, NEW new, new = Insert(roster, a, n)
  PROVE  /\ new \in Roster /\ Apart(new) /\ Put(new, roster, a, n)
         /\ Dense(roster) => Dense(new)
<1> DEFINE D == DOMAIN roster
<1>1. /\ D \in SUBSET Agents /\ IsFiniteSet(D) /\ Cardinality(D) \in Nat
      /\ \A b \in D : roster[b] \in 0..MaxPosition /\ roster[b] \in Nat
  BY RosterFinite
<1>2. /\ n \in Nat /\ \A b \in D : roster[b] < n
      /\ D = {} => n = 0
      /\ D # {} => \E b \in D : n = roster[b] + 1
  BY NextIsLast
<1>3. n \in 0..MaxPosition BY <1>2, WorkspaceAssumption
<1>4. /\ new \in Roster /\ DOMAIN new = D \cup {a} /\ new[a] = n
      /\ \A b \in D : new[b] = roster[b]
  <2>1. n \in Positions BY <1>3 DEF Positions
  <2>2. new \in Roster /\ Put(new, roster, a, n) BY <2>1, Inserted DEF Roster
  <2> QED BY <1>1, <2>2 DEF Put
<1>5. Apart(new) BY <1>1, <1>2, <1>4 DEF Apart
<1>6. ASSUME Dense(roster) PROVE Dense(new)
  <2>1. {roster[b] : b \in D} = 0..(Cardinality(D) - 1) BY <1>6 DEF Dense
  <2>2. n = Cardinality(D)
    <3>1. CASE D = {} BY <1>2, <3>1, FS_EmptySet
    <3>2. CASE D # {}
      <4>1. PICK b \in D : n = roster[b] + 1 BY <1>2, <3>2
      <4>2. roster[b] \in 0..(Cardinality(D) - 1) BY <2>1
      <4>3. Cardinality(D) - 1 \in 0..(Cardinality(D) - 1) BY <1>1, <4>2
      <4>4. PICK c \in D : roster[c] = Cardinality(D) - 1 BY <2>1, <4>3
      <4>5. Cardinality(D) - 1 < n BY <1>2, <4>4
      <4> QED BY <1>1, <1>2, <4>1, <4>2, <4>5
    <3> QED BY <3>1, <3>2
  <2>3. Cardinality(DOMAIN new) = Cardinality(D) + 1 BY <1>1, <1>4, FS_AddElement
  <2>4. {new[b] : b \in DOMAIN new} = {roster[b] : b \in D} \cup {n} BY <1>4
  <2>5. 0..(Cardinality(D) - 1) \cup {Cardinality(D)} = 0..(Cardinality(D) + 1 - 1) BY <1>1
  <2> QED BY <2>1, <2>2, <2>3, <2>4, <2>5 DEF Dense
<1>7. Put(new, roster, a, n) BY <1>4 DEF Put
<1> QED BY <1>4, <1>5, <1>6, <1>7

(* Who leaves leaves a gap at most. *)
LEMMA LeftBehind ==
  ASSUME NEW roster \in Roster, NEW a \in Agents
  PROVE  /\ Delete(roster, {a}) \in Roster /\ DOMAIN Delete(roster, {a}) = DOMAIN roster \ {a}
         /\ \A b \in DOMAIN roster \ {a} : Delete(roster, {a})[b] = roster[b]
         /\ Apart(roster) => Apart(Delete(roster, {a}))
         /\ a \notin DOMAIN roster => Delete(roster, {a}) = roster
<1>1. /\ Delete(roster, {a}) \in Roster /\ DOMAIN Delete(roster, {a}) = DOMAIN roster \ {a}
      /\ \A b \in DOMAIN roster \ {a} : Delete(roster, {a})[b] = roster[b]
  <2>1. DOMAIN roster \in SUBSET Agents /\ roster \in [DOMAIN roster -> Positions] BY InTable DEF Roster
  <2>2. /\ DOMAIN Delete(roster, {a}) = DOMAIN roster \ {a}
        /\ \A b \in DOMAIN roster \ {a} : Delete(roster, {a})[b] = roster[b]
        /\ Delete(roster, {a}) \in [DOMAIN roster \ {a} -> Positions]
    BY <2>1 DEF Delete
  <2>3. Delete(roster, {a}) \in Roster BY <2>1, <2>2, InTable DEF Roster
  <2> QED BY <2>2, <2>3
<1>2. roster \in [DOMAIN roster -> 0..MaxPosition] BY InTable DEF Roster, Positions
<1>3. a \notin DOMAIN roster => Delete(roster, {a}) = roster
  BY <1>2 DEF Delete
<1> QED BY <1>1, <1>3 DEF Apart

-----------------------------------------------------------------------------
(* The invariant, and what most requests have in common. *)

Inv == TypeOK /\ ReferencesExist /\ RosterOrdered

(* Every row that a request touches is a row. *)
LEMMA TouchedRows ==
  /\ {} \subseteq AllRows
  /\ \A id \in Agents : {Row("agent", id)} \subseteq AllRows
  /\ \A id \in Prompts : {Row("prompt", id)} \subseteq AllRows
  /\ \A id \in Teams : {Row("team", id)} \subseteq AllRows
  /\ \A id \in Projects : {Row("project", id)} \subseteq AllRows
  /\ \A id \in Chats : {Row("chat", id)} \subseteq AllRows
  /\ \A id \in Memories : {Row("memory", id)} \subseteq AllRows
  /\ \A id \in Shared : {Row("shared", id)} \subseteq AllRows
BY DEF AllRows, Rows

(* A request that leaves the rows and their references as they are. *)
LEMMA NothingMoved ==
  ASSUME Inv, UNCHANGED <<agents, prompts, teams, projects, members, chats, memories, cut>>,
         shared' \subseteq Shared, touched' \subseteq AllRows
  PROVE  Inv'
<1>1. TypeOK' BY DEF Inv, TypeOK
<1>2. ReferencesExist' BY DEF Inv, ReferencesExist, PromptValid, OwnerRule, ChatRefs
<1>3. RosterOrdered' BY DEF Inv, RosterOrdered, Dense
<1> QED BY <1>1, <1>2, <1>3 DEF Inv

(* Rosters keep their order when none of them moves. *)
LEMMA RostersStay ==
  ASSUME RosterOrdered, members' = members, cut' = cut
  PROVE  RosterOrdered'
BY DEF RosterOrdered, Dense

LEMMA InvInit == Init => Inv
<1> SUFFICES ASSUME Init PROVE Inv OBVIOUS
<1>1. DOMAIN Empty = {} BY EmptyTable
<1>2. /\ Empty \in Table(Agents, Prompts \cup {None}) /\ Empty \in Table(Agents, 0..MaxPosition)
      /\ Empty \in Table(Chats, Chat) /\ Empty \in Table(Memories, Agents)
  BY EmptyTable
<1>3. TypeOK BY <1>2 DEF Init, TypeOK
<1>4. ReferencesExist BY <1>1 DEF Init, ReferencesExist
<1>5. Dense(Empty)
  <2>1. Cardinality(DOMAIN Empty) = 0 BY <1>1, FS_EmptySet
  <2>2. {Empty[a] : a \in DOMAIN Empty} = {} BY <1>1
  <2>3. 0..(0 - 1) = {} OBVIOUS
  <2> QED BY <2>1, <2>2, <2>3 DEF Dense
<1>6. RosterOrdered BY <1>1, <1>5 DEF Init, RosterOrdered
<1> QED BY <1>3, <1>4, <1>6 DEF Inv

-----------------------------------------------------------------------------
(* Each kind of request keeps the invariant. *)

LEMMA PromptKeeps == Inv /\ PromptRequest => Inv'
<1> SUFFICES ASSUME Inv, NEW p \in Prompts, PromptCreate(p) \/ PromptUpdate(p) \/ PromptDelete(p)
             PROVE  Inv'
  BY DEF PromptRequest
<1>1. CASE PromptCreate(p)
  <2>1. TypeOK' BY <1>1, TouchedRows DEF Inv, TypeOK, PromptCreate
  <2>2. ReferencesExist'
    BY <1>1 DEF Inv, ReferencesExist, PromptValid, OwnerRule, ChatRefs, PromptCreate
  <2>3. RosterOrdered' BY <1>1, RostersStay DEF Inv, PromptCreate
  <2> QED BY <2>1, <2>2, <2>3 DEF Inv
<1>2. CASE PromptUpdate(p)
  <2>1. touched' \subseteq AllRows /\ shared' \subseteq Shared
    BY <1>2, TouchedRows DEF PromptUpdate, Inv, TypeOK
  <2> QED BY <1>2, <2>1, NothingMoved DEF PromptUpdate
<1>3. CASE PromptDelete(p)
  <2>1. DOMAIN agents \in SUBSET Agents /\ agents \in [DOMAIN agents -> Prompts \cup {None}]
    BY InTable DEF Inv, TypeOK
  <2>2. /\ DOMAIN agents' = DOMAIN agents /\ agents' \in [DOMAIN agents -> Prompts \cup {None}]
        /\ \A a \in DOMAIN agents : agents'[a] # None => agents'[a] = agents[a] /\ agents[a] # p
    BY <1>3, <2>1 DEF PromptDelete
  <2>3. agents' \in Table(Agents, Prompts \cup {None}) BY <2>1, <2>2, InTable
  <2>4. TypeOK' BY <1>3, <2>3, TouchedRows DEF Inv, TypeOK, PromptDelete
  <2>5. ReferencesExist'
    BY <1>3, <2>2 DEF Inv, ReferencesExist, PromptValid, OwnerRule, ChatRefs, PromptDelete
  <2>6. RosterOrdered' BY <1>3, RostersStay DEF Inv, PromptDelete
  <2> QED BY <2>4, <2>5, <2>6 DEF Inv
<1> QED BY <1>1, <1>2, <1>3

LEMMA SharedKeeps == Inv /\ SharedRequest => Inv'
<1> SUFFICES ASSUME Inv, SharedRequest PROVE Inv' OBVIOUS
<1>1. shared \subseteq Shared BY DEF Inv, TypeOK
<1>2. /\ UNCHANGED <<agents, prompts, teams, projects, members, chats, memories, cut>>
      /\ shared' \subseteq Shared /\ touched' \subseteq AllRows
  BY <1>1, TouchedRows DEF SharedRequest, SharedCreate, SharedUpdate, SharedRemove, SharedRemoveAll
<1> QED BY <1>2, NothingMoved

(* A chat's owner is gone when the ids it names are: the CHECK speaks of   *)
(* every chat that exists.                                                 *)
LEMMA NoChatOf ==
  ASSUME NEW id
  PROVE  /\ ChatsAllow([c \in DOMAIN chats |-> chats[c].agent = id])
            => \A c \in DOMAIN chats : chats[c].agent # id
         /\ ChatsAllow([c \in DOMAIN chats |-> chats[c].team = id])
            => \A c \in DOMAIN chats : chats[c].team # id
BY Zenon DEF ChatsAllow

LEMMA AgentCreateKeeps ==
  ASSUME Inv, NEW a \in Agents, NEW p \in Prompts \cup {None}, AgentCreate(a, p)
  PROVE  Inv'
<1>1. agents \in Table(Agents, Prompts \cup {None}) BY DEF Inv, TypeOK
<1>2. /\ agents' \in Table(Agents, Prompts \cup {None}) /\ DOMAIN agents' = DOMAIN agents \cup {a}
      /\ agents'[a] = p /\ \A x \in DOMAIN agents : x # a => agents'[x] = agents[x]
  <2>1. agents' \in Table(Agents, Prompts \cup {None}) /\ Put(agents', agents, a, p)
    BY <1>1, Inserted DEF AgentCreate
  <2> QED BY <2>1 DEF Put
<1>3. TypeOK' BY <1>2, TouchedRows DEF Inv, TypeOK, AgentCreate
<1>4. ReferencesExist'
  BY <1>2 DEF Inv, ReferencesExist, PromptValid, OwnerRule, ChatRefs, AgentCreate
<1>5. RosterOrdered' BY RostersStay DEF Inv, AgentCreate
<1> QED BY <1>3, <1>4, <1>5 DEF Inv

LEMMA AgentUpdateKeeps ==
  ASSUME Inv, NEW a \in Agents, NEW p \in Prompts \cup {None}, NEW text, AgentUpdate(a, p, text)
  PROVE  Inv'
<1>1. DOMAIN agents \in SUBSET Agents /\ agents \in [DOMAIN agents -> Prompts \cup {None}]
  BY InTable DEF Inv, TypeOK
<1>2. /\ DOMAIN agents' = DOMAIN agents /\ agents' \in [DOMAIN agents -> Prompts \cup {None}]
      /\ agents'[a] = p /\ \A x \in DOMAIN agents : x # a => agents'[x] = agents[x]
  BY <1>1 DEF AgentUpdate, ApplyAgentUpdates
<1>3. agents' \in Table(Agents, Prompts \cup {None}) BY <1>1, <1>2, InTable
<1>4. TypeOK' BY <1>3, TouchedRows DEF Inv, TypeOK, AgentUpdate, ApplyAgentUpdates
<1>5. ReferencesExist'
  BY <1>2 DEF Inv, ReferencesExist, PromptValid, OwnerRule, ChatRefs, AgentUpdate
<1>6. RosterOrdered' BY RostersStay DEF Inv, AgentUpdate
<1> QED BY <1>4, <1>5, <1>6 DEF Inv

(* With the agent go its memories and its places on teams. *)
LEMMA AgentDeleteKeeps ==
  ASSUME Inv, NEW a \in Agents, AgentDelete(a)
  PROVE  Inv'
<1> DEFINE gone == {m \in DOMAIN memories : memories[m] = a}
<1>1. /\ agents \in Table(Agents, Prompts \cup {None}) /\ memories \in Table(Memories, Agents)
      /\ \A t \in Teams : members[t] \in Roster
  BY DEF Inv, TypeOK, Roster, Positions
<1>2. /\ agents' \in Table(Agents, Prompts \cup {None}) /\ DOMAIN agents' = DOMAIN agents \ {a}
      /\ \A x \in DOMAIN agents \ {a} : agents'[x] = agents[x]
  <2>1. agents' = Delete(agents, {a}) /\ {a} \in SUBSET Agents BY DEF AgentDelete
  <2>2. agents' \in Table(Agents, Prompts \cup {None}) /\ Left(agents', agents, {a})
    BY <1>1, <2>1, Deletes
  <2> QED BY <2>2 DEF Left
<1>3. memories' = Delete(memories, gone) /\ gone \in SUBSET Memories
  <2>1. DOMAIN memories \in SUBSET Memories BY <1>1, InTable
  <2> QED BY <2>1 DEF AgentDelete
<1> HIDE DEF gone
<1>4. /\ memories' \in Table(Memories, Agents) /\ DOMAIN memories' = DOMAIN memories \ gone
      /\ \A x \in DOMAIN memories \ gone : memories'[x] = memories[x]
  <2>1. memories' \in Table(Memories, Agents) /\ Left(memories', memories, gone) BY <1>1, <1>3, Deletes
  <2> QED BY <2>1 DEF Left
<1>5. /\ members' = [t \in Teams |-> Delete(members[t], {a})]
      /\ \A t \in Teams : members'[t] = Delete(members[t], {a})
  BY DEF AgentDelete
<1>6. ASSUME NEW t \in Teams
      PROVE  /\ members'[t] \in Roster /\ DOMAIN members'[t] = DOMAIN members[t] \ {a}
             /\ \A b \in DOMAIN members'[t] : members'[t][b] = members[t][b]
             /\ Apart(members[t]) => Apart(members'[t])
             /\ a \notin DOMAIN members[t] => members'[t] = members[t]
  BY SMTT(40), <1>1, <1>5, LeftBehind
<1>7. \A c \in DOMAIN chats : chats[c].agent # a BY NoChatOf DEF AgentDelete
<1>8. TypeOK'
  <2>1. members' \in [Teams -> Roster] BY <1>5, <1>6
  <2>2. members' \in [Teams -> Table(Agents, 0..MaxPosition)] BY <2>1 DEF Roster, Positions
  <2> QED BY <1>2, <1>4, <2>2, TouchedRows DEF Inv, TypeOK, AgentDelete
<1>9. ReferencesExist'
  <2>1. prompts' = prompts /\ teams' = teams /\ projects' = projects /\ chats' = chats
    BY DEF AgentDelete
  <2>2. \A x \in DOMAIN agents' : PromptValid(agents[x])' BY <1>2, <2>1 DEF Inv, ReferencesExist, PromptValid
  <2>3. \A m \in DOMAIN memories' : memories'[m] \in DOMAIN agents'
    BY <1>2, <1>4 DEF Inv, ReferencesExist, gone
  <2>4. \A t \in Teams : DOMAIN members'[t] \subseteq DOMAIN agents' BY <1>2, <1>6 DEF Inv, ReferencesExist
  <2>5. \A t \in Teams \ teams' : members'[t] = Empty
    <3> SUFFICES ASSUME NEW t \in Teams, t \notin teams PROVE members'[t] = Empty BY <2>1
    <3>1. members[t] = Empty BY DEF Inv, ReferencesExist
    <3>2. a \notin DOMAIN members[t] BY <3>1, EmptyTable
    <3> QED BY <1>6, <3>1, <3>2
  <2>6. \A c \in DOMAIN chats' : OwnerRule(chats'[c]) /\ ChatRefs(chats[c])'
    BY <1>2, <1>7, <2>1 DEF Inv, ReferencesExist, OwnerRule, ChatRefs
  <2> QED BY <2>2, <2>3, <2>4, <2>5, <2>6 DEF ReferencesExist
<1>10. RosterOrdered'
  <2> SUFFICES ASSUME NEW t \in Teams
               PROVE  /\ Apart(members'[t])
                      /\ t \notin cut' => Dense(members'[t])
    BY DEF RosterOrdered, Apart
  <2>1. Apart(members'[t]) BY <1>6 DEF Inv, RosterOrdered, Apart
  <2>2. ASSUME t \notin cut' PROVE Dense(members'[t])
    <3>1. t \notin cut /\ a \notin DOMAIN members[t] BY <2>2 DEF AgentDelete
    <3>2. members'[t] = members[t] BY <1>6, <3>1
    <3> QED BY <3>1, <3>2 DEF Inv, RosterOrdered
  <2> QED BY <2>1, <2>2
<1> QED BY <1>8, <1>9, <1>10 DEF Inv

LEMMA AgentKeeps == Inv /\ AgentRequest => Inv'
BY AgentCreateKeeps, AgentUpdateKeeps, AgentDeleteKeeps DEF AgentRequest

LEMMA MemoryKeeps == Inv /\ MemoryRequest => Inv'
<1> SUFFICES ASSUME Inv, MemoryRequest PROVE Inv' OBVIOUS
<1>1. memories \in Table(Memories, Agents) BY DEF Inv, TypeOK
<1>2. ASSUME UNCHANGED <<agents, prompts, teams, projects, shared, members, chats, cut>>,
             memories' \in Table(Memories, Agents), touched' \subseteq AllRows,
             \A m \in DOMAIN memories' : memories'[m] \in DOMAIN agents
      PROVE  Inv'
  <2>1. TypeOK' BY <1>2 DEF Inv, TypeOK
  <2>2. ReferencesExist' BY <1>2 DEF Inv, ReferencesExist, PromptValid, OwnerRule, ChatRefs
  <2>3. RosterOrdered' BY <1>2, RostersStay DEF Inv
  <2> QED BY <2>1, <2>2, <2>3 DEF Inv
<1>3. \A m \in DOMAIN memories : memories[m] \in DOMAIN agents BY DEF Inv, ReferencesExist
<1>4. ASSUME NEW gone \in SUBSET Memories, memories' = Delete(memories, gone)
      PROVE  /\ memories' \in Table(Memories, Agents)
             /\ \A m \in DOMAIN memories' : memories'[m] \in DOMAIN agents
  <2>1. memories' \in Table(Memories, Agents) /\ Left(memories', memories, gone) BY <1>1, <1>4, Deletes
  <2> QED BY <1>3, <2>1 DEF Left
<1>5. ASSUME NEW a \in Agents, MemoryRemoveAll(a) PROVE Inv'
  <2>1. /\ memories' \in Table(Memories, Agents)
        /\ \A m \in DOMAIN memories' : memories'[m] \in DOMAIN agents
    <3>1. DOMAIN memories \in SUBSET Memories BY <1>1, InTable
    <3> QED BY <1>4, <1>5, <3>1 DEF MemoryRemoveAll
  <2> QED BY <1>2, <1>5, <2>1, TouchedRows DEF MemoryRemoveAll
<1>6. ASSUME NEW a \in Agents, NEW m \in Memories, MemoryCreate(a, m) PROVE Inv'
  <2>1. /\ memories' \in Table(Memories, Agents) /\ DOMAIN memories' = DOMAIN memories \cup {m}
        /\ memories'[m] = a /\ \A x \in DOMAIN memories : x # m => memories'[x] = memories[x]
    <3>1. memories' \in Table(Memories, Agents) /\ Put(memories', memories, m, a)
      BY <1>1, <1>6, Inserted DEF MemoryCreate
    <3> QED BY <3>1 DEF Put
  <2>2. \A x \in DOMAIN memories' : memories'[x] \in DOMAIN agents
    BY <1>3, <1>6, <2>1 DEF MemoryCreate
  <2> QED BY <1>2, <1>6, <2>1, <2>2, TouchedRows DEF MemoryCreate
<1>7. ASSUME NEW a \in Agents, NEW m \in Memories, MemoryUpdate(a, m) PROVE Inv'
  BY <1>1, <1>2, <1>3, <1>7, TouchedRows DEF MemoryUpdate
<1>8. ASSUME NEW a \in Agents, NEW m \in Memories, MemoryRemove(a, m) PROVE Inv'
  <2>1. /\ memories' \in Table(Memories, Agents)
        /\ \A x \in DOMAIN memories' : memories'[x] \in DOMAIN agents
    <3>1. {m} \in SUBSET Memories OBVIOUS
    <3> QED BY <1>4, <1>8, <3>1 DEF MemoryRemove
  <2> QED BY <1>2, <1>8, <2>1, TouchedRows DEF MemoryRemove
<1> QED BY <1>5, <1>6, <1>7, <1>8 DEF MemoryRequest

(* A request that writes the roster of one team, with agents that exist. *)
LEMMA RosterWritten ==
  ASSUME Inv, NEW t \in teams, NEW new \in Roster, members' = [members EXCEPT ![t] = new],
         DOMAIN new \subseteq DOMAIN agents, Apart(new), t \notin cut' => Dense(new),
         cut' = cut \/ cut' = cut \ {t}, touched' = {Row("team", t)},
         UNCHANGED <<agents, prompts, teams, projects, shared, chats, memories>>
  PROVE  Inv'
<1>1. t \in Teams /\ members \in [Teams -> Roster] BY DEF Inv, TypeOK, Roster, Positions
<1>2. /\ members' \in [Teams -> Roster] /\ members'[t] = new
      /\ \A u \in Teams : u # t => members'[u] = members[u]
  BY <1>1
<1>3. TypeOK'
  <2>1. members' \in [Teams -> Table(Agents, 0..MaxPosition)] BY <1>2 DEF Roster, Positions
  <2> QED BY <1>1, <2>1, TouchedRows DEF Inv, TypeOK
<1>4. ReferencesExist'
  <2>1. \A u \in Teams : DOMAIN members'[u] \subseteq DOMAIN agents BY <1>2 DEF Inv, ReferencesExist
  <2>2. \A u \in Teams \ teams : members'[u] = Empty BY <1>2 DEF Inv, ReferencesExist
  <2> QED BY <2>1, <2>2 DEF Inv, ReferencesExist, PromptValid, OwnerRule, ChatRefs
<1>5. RosterOrdered'
  <2> SUFFICES ASSUME NEW u \in Teams
               PROVE  Apart(members'[u]) /\ (u \notin cut' => Dense(members'[u]))
    BY DEF RosterOrdered, Apart
  <2>1. CASE u = t BY <1>2, <2>1
  <2>2. CASE u # t BY <1>2, <2>2 DEF Inv, RosterOrdered, Apart
  <2> QED BY <2>1, <2>2
<1> QED BY <1>3, <1>4, <1>5 DEF Inv

(* What is known of a team's roster before a request. *)
LEMMA RosterKnown ==
  ASSUME Inv, NEW t \in Teams
  PROVE  /\ members \in [Teams -> Roster] /\ members[t] \in Roster /\ Apart(members[t])
         /\ t \notin cut => Dense(members[t])
         /\ DOMAIN members[t] \subseteq DOMAIN agents /\ DOMAIN agents \subseteq Agents
<1>1. members \in [Teams -> Roster] /\ agents \in Table(Agents, Prompts \cup {None})
  BY DEF Inv, TypeOK, Roster, Positions
<1>2. DOMAIN agents \subseteq Agents BY <1>1, InTable
<1> QED BY <1>1, <1>2 DEF Inv, RosterOrdered, ReferencesExist, Apart

LEMMA MemberAddKeeps ==
  ASSUME Inv, NEW t \in Teams, NEW a \in Agents, MemberAdd(t, a)
  PROVE  Inv'
<1> DEFINE n == NextPosition(members[t])
           new == Insert(members[t], a, n)
<1>1. /\ members' = [members EXCEPT ![t] = new] /\ n <= MaxPosition /\ a \notin DOMAIN members[t]
      /\ t \in teams /\ a \in DOMAIN agents /\ cut' = cut /\ touched' = {Row("team", t)}
      /\ UNCHANGED <<agents, prompts, teams, projects, shared, chats, memories>>
  BY RosterKnown DEF MemberAdd, Touch
<1>2. /\ new \in Roster /\ Apart(new) /\ Put(new, members[t], a, n)
      /\ Dense(members[t]) => Dense(new)
  <2>1. members[t] \in Roster /\ Apart(members[t]) BY RosterKnown
  <2>2. n = NextPosition(members[t]) /\ new = Insert(members[t], a, n) OBVIOUS
  <2> HIDE DEF n, new
  <2> QED BY <1>1, <2>1, <2>2, Joined
<1> HIDE DEF new
<1>3. DOMAIN new \subseteq DOMAIN agents /\ (t \notin cut' => Dense(new))
  BY <1>1, <1>2, RosterKnown DEF Put
<1> QED BY <1>1, <1>2, <1>3, RosterWritten

LEMMA MemberRemoveKeeps ==
  ASSUME Inv, NEW t \in Teams, NEW a \in Agents, MemberRemove(t, a)
  PROVE  Inv'
<1> DEFINE rest == Delete(members[t], {a})
           new == Renumber(rest)
<1>1. /\ members' = [members EXCEPT ![t] = new]
      /\ t \in teams /\ cut' = cut \ {t} /\ touched' = {Row("team", t)}
      /\ UNCHANGED <<agents, prompts, teams, projects, shared, chats, memories>>
  BY RosterKnown DEF MemberRemove, Touch
<1>2. rest \in Roster /\ Apart(rest) /\ DOMAIN rest = DOMAIN members[t] \ {a}
  BY RosterKnown, LeftBehind
<1> HIDE DEF rest
<1>3. InOrder(new) /\ DOMAIN new = DOMAIN rest BY <1>2, Renumbered
<1> HIDE DEF new
<1>4. new \in Roster /\ Apart(new) /\ Dense(new) /\ DOMAIN new \subseteq DOMAIN agents
  BY <1>2, <1>3, RosterKnown DEF InOrder
<1> QED BY <1>1, <1>4, RosterWritten

LEMMA MemberReorderKeeps ==
  ASSUME Inv, NEW t \in Teams, NEW requested \in Requests(Cardinality(Agents)),
         MemberReorder(t, requested)
  PROVE  /\ Inv'
         /\ InOrder(members'[t]) /\ DOMAIN members'[t] = DOMAIN members[t]
<1> DEFINE new == [a \in DOMAIN members[t] |-> (CHOOSE i \in DOMAIN requested : requested[i] = a) - 1]
<1>1. /\ members' = [members EXCEPT ![t] = new] /\ Matches(members[t], requested)
      /\ t \in teams /\ cut' = cut \ {t} /\ touched' = {Row("team", t)}
      /\ UNCHANGED <<agents, prompts, teams, projects, shared, chats, memories>>
  BY RosterKnown DEF MemberReorder, Touch
<1>2. PICK k \in Nat : requested \in [1..k -> Agents]
  <2>1. Cardinality(Agents) \in Nat BY WorkspaceAssumption, FS_CardinalityType
  <2>2. PICK k \in 1..Cardinality(Agents) : requested \in [1..k -> Agents] BY DEF Requests
  <2>3. k \in Nat BY <2>1
  <2> QED BY <2>2, <2>3
<1>3. members[t] \in Roster /\ Apart(members[t]) BY RosterKnown
<1>4. new = [a \in DOMAIN members[t] |-> (CHOOSE i \in DOMAIN requested : requested[i] = a) - 1]
  OBVIOUS
<1> HIDE DEF new
<1>5. InOrder(new) /\ DOMAIN new = DOMAIN members[t] BY <1>1, <1>2, <1>3, <1>4, Reordered
<1>6. new \in Roster /\ Apart(new) /\ Dense(new) /\ DOMAIN new \subseteq DOMAIN agents
  BY <1>5, RosterKnown DEF InOrder
<1>7. Inv' BY <1>1, <1>6, RosterWritten
<1>8. members'[t] = new BY <1>1, RosterKnown
<1> QED BY <1>5, <1>7, <1>8

LEMMA RosterKeeps == Inv /\ RosterRequest => Inv'
<1> SUFFICES ASSUME Inv, RosterRequest PROVE Inv' OBVIOUS
<1>1. ASSUME NEW t \in Teams, NEW a \in Agents, MemberUpdate(t, a) PROVE Inv'
  <2>1. touched' \subseteq AllRows /\ shared' \subseteq Shared
    BY <1>1, TouchedRows DEF MemberUpdate, Touch, Inv, TypeOK
  <2> QED BY <1>1, <2>1, NothingMoved DEF MemberUpdate
<1> QED BY <1>1, MemberAddKeeps, MemberRemoveKeeps, MemberReorderKeeps DEF RosterRequest

(* Only a team no chat is with is deleted, and its roster with it. *)
LEMMA TeamDeleteKeeps ==
  ASSUME Inv, NEW t \in Teams, TeamDelete(t)
  PROVE  Inv'
<1>1. /\ members \in [Teams -> Roster]
      /\ Empty \in Roster /\ DOMAIN Empty = {}
  BY RosterKnown, EmptyTable DEF Roster, Inv, TypeOK, Positions
<1>2. /\ members' \in [Teams -> Roster] /\ members'[t] = Empty
      /\ \A u \in Teams : u # t => members'[u] = members[u]
  BY <1>1 DEF TeamDelete
<1>3. \A c \in DOMAIN chats : chats[c].team # t BY NoChatOf DEF TeamDelete
<1>4. TypeOK'
  <2>1. members' \in [Teams -> Table(Agents, 0..MaxPosition)] BY <1>2 DEF Roster, Positions
  <2> QED BY <2>1, TouchedRows DEF Inv, TypeOK, TeamDelete
<1>5. ReferencesExist'
  <2>1. /\ teams' = teams \ {t}
        /\ UNCHANGED <<agents, prompts, projects, chats, memories>>
    BY DEF TeamDelete
  <2>2. \A u \in Teams : DOMAIN members'[u] \subseteq DOMAIN agents BY <1>1, <1>2 DEF Inv, ReferencesExist
  <2>3. \A u \in Teams \ teams' : members'[u] = Empty BY <1>2, <2>1 DEF Inv, ReferencesExist
  <2>4. \A c \in DOMAIN chats' : OwnerRule(chats'[c]) /\ ChatRefs(chats[c])'
    BY <1>3, <2>1 DEF Inv, ReferencesExist, OwnerRule, ChatRefs
  <2> QED BY <2>1, <2>2, <2>3, <2>4 DEF Inv, ReferencesExist, PromptValid
<1>6. RosterOrdered'
  <2>1. Dense(Empty)
    <3>1. Cardinality(DOMAIN Empty) = 0 BY <1>1, FS_EmptySet
    <3>2. {Empty[a] : a \in DOMAIN Empty} = {} BY <1>1
    <3>3. 0..(0 - 1) = {} OBVIOUS
    <3> QED BY <3>1, <3>2, <3>3 DEF Dense
  <2> SUFFICES ASSUME NEW u \in Teams
               PROVE  Apart(members'[u]) /\ (u \notin cut' => Dense(members'[u]))
    BY DEF RosterOrdered, Apart
  <2>2. CASE u = t BY <1>1, <1>2, <2>1, <2>2 DEF Apart
  <2>3. CASE u # t BY <1>2, <2>3 DEF Inv, RosterOrdered, Apart, TeamDelete
  <2> QED BY <2>2, <2>3
<1> QED BY <1>4, <1>5, <1>6 DEF Inv

LEMMA TeamKeeps == Inv /\ TeamRequest => Inv'
<1> SUFFICES ASSUME Inv, NEW t \in Teams, TeamCreate(t) \/ TeamUpdate(t) PROVE Inv'
  BY TeamDeleteKeeps DEF TeamRequest
<1>1. CASE TeamCreate(t)
  <2>1. TypeOK' BY <1>1, TouchedRows DEF Inv, TypeOK, TeamCreate
  <2>2. ReferencesExist'
    BY <1>1 DEF Inv, ReferencesExist, PromptValid, OwnerRule, ChatRefs, TeamCreate
  <2>3. RosterOrdered' BY <1>1, RostersStay DEF Inv, TeamCreate
  <2> QED BY <2>1, <2>2, <2>3 DEF Inv
<1>2. CASE TeamUpdate(t)
  <2>1. touched' \subseteq AllRows /\ shared' \subseteq Shared
    BY <1>2, TouchedRows DEF TeamUpdate, Inv, TypeOK
  <2> QED BY <1>2, <2>1, NothingMoved DEF TeamUpdate
<1> QED BY <1>1, <1>2

(* A request that writes chats, whose references exist, and nothing else. *)
LEMMA ChatsWritten ==
  ASSUME Inv, UNCHANGED <<agents, prompts, teams, shared, members, memories, cut>>,
         projects' \subseteq Projects, chats' \in Table(Chats, Chat), touched' \subseteq AllRows,
         \A c \in DOMAIN chats' : OwnerRule(chats'[c]) /\ ChatRefs(chats[c])'
  PROVE  Inv'
<1>1. TypeOK' BY DEF Inv, TypeOK
<1>2. ReferencesExist' BY DEF Inv, ReferencesExist, PromptValid, OwnerRule
<1>3. RosterOrdered' BY RostersStay DEF Inv
<1> QED BY <1>1, <1>2, <1>3 DEF Inv

LEMMA ChatsKnown ==
  ASSUME Inv
  PROVE  /\ chats \in Table(Chats, Chat) /\ DOMAIN chats \subseteq Chats /\ chats \in [DOMAIN chats -> Chat]
         /\ \A c \in DOMAIN chats :
              /\ OwnerRule(chats[c])
              /\ chats[c].agent \in DOMAIN agents \cup {None}
              /\ chats[c].team \in teams \cup {None}
              /\ chats[c].project \in projects \cup {None}
         /\ projects \subseteq Projects
BY InTable DEF Inv, TypeOK, ReferencesExist, ChatRefs

(* Chats of a deleted project stay, outside any project. *)
LEMMA ProjectKeeps == Inv /\ ProjectRequest => Inv'
<1> SUFFICES ASSUME Inv, NEW p \in Projects, ProjectCreate(p) \/ ProjectUpdate(p) \/ ProjectDelete(p)
             PROVE  Inv'
  BY DEF ProjectRequest
<1>1. CASE ProjectCreate(p)
  <2>1. \A c \in DOMAIN chats' : OwnerRule(chats'[c]) /\ ChatRefs(chats[c])'
    BY <1>1, ChatsKnown DEF ProjectCreate, ChatRefs
  <2> QED BY <1>1, <2>1, ChatsKnown, ChatsWritten, TouchedRows DEF ProjectCreate
<1>2. CASE ProjectUpdate(p)
  <2>1. touched' \subseteq AllRows /\ shared' \subseteq Shared
    BY <1>2, TouchedRows DEF ProjectUpdate, Inv, TypeOK
  <2> QED BY <1>2, <2>1, NothingMoved DEF ProjectUpdate
<1>3. CASE ProjectDelete(p)
  <2>1. /\ DOMAIN chats' = DOMAIN chats
        /\ \A c \in DOMAIN chats :
             chats'[c] = IF chats[c].project = p THEN [chats[c] EXCEPT !.project = None] ELSE chats[c]
    BY <1>3 DEF ProjectDelete
  <2>2. ASSUME NEW c \in DOMAIN chats
        PROVE  /\ chats'[c] \in Chat /\ OwnerRule(chats'[c])
               /\ chats'[c].agent = chats[c].agent /\ chats'[c].team = chats[c].team
               /\ chats'[c].project \in (projects \ {p}) \cup {None}
    <3>1. chats[c] \in Chat /\ OwnerRule(chats[c]) /\ chats[c].project \in projects \cup {None}
      BY ChatsKnown
    <3>2. CASE chats[c].project = p
      <4>1. chats'[c] = [chats[c] EXCEPT !.project = None] BY <2>1, <3>2
      <4> QED BY <3>1, <4>1 DEF Chat, OwnerRule
    <3>3. CASE chats[c].project # p
      <4>1. chats'[c] = chats[c] BY <2>1, <3>3
      <4> QED BY <3>1, <3>3, <4>1
    <3> QED BY <3>2, <3>3
  <2>3. chats' \in Table(Chats, Chat)
    <3>1. chats' \in [DOMAIN chats -> Chat] BY <1>3, <2>1, <2>2 DEF ProjectDelete
    <3> QED BY <2>1, <3>1, ChatsKnown, InTable
  <2>4. \A c \in DOMAIN chats' : OwnerRule(chats'[c]) /\ ChatRefs(chats[c])'
    BY <1>3, <2>1, <2>2, ChatsKnown DEF ProjectDelete, ChatRefs
  <2> QED BY <1>3, <2>3, <2>4, ChatsKnown, ChatsWritten, TouchedRows DEF ProjectDelete
<1> QED BY <1>1, <1>2, <1>3

LEMMA ChatKeeps == Inv /\ ChatRequest => Inv'
<1> SUFFICES ASSUME Inv, ChatRequest PROVE Inv' OBVIOUS
<1>1. ASSUME NEW c \in Chats, NEW chat \in Chat, ChatCreate(c, chat) PROVE Inv'
  <2>1. /\ chats' \in Table(Chats, Chat) /\ DOMAIN chats' = DOMAIN chats \cup {c}
        /\ chats'[c] = chat /\ \A x \in DOMAIN chats : x # c => chats'[x] = chats[x]
    <3>1. /\ chats' = Insert(chats, c, chat) /\ c \in Chats /\ chat \in Chat
          /\ chats \in Table(Chats, Chat)
      BY <1>1, ChatsKnown DEF ChatCreate
    <3>2. chats' \in Table(Chats, Chat) /\ Put(chats', chats, c, chat) BY <3>1, Inserted
    <3> QED BY <3>2 DEF Put
  <2>2. \A x \in DOMAIN chats' : OwnerRule(chats'[x]) /\ ChatRefs(chats[x])'
    BY <1>1, <2>1, ChatsKnown DEF ChatCreate, ChatRefs
  <2> QED BY <1>1, <2>1, <2>2, ChatsKnown, ChatsWritten, TouchedRows DEF ChatCreate
<1>2. ASSUME NEW c \in Chats, NEW p \in Projects \cup {None}, NEW title \in BOOLEAN, ChatUpdate(c, p, title)
      PROVE  Inv'
  <2>1. /\ DOMAIN chats' = DOMAIN chats /\ c \in DOMAIN chats /\ chats[c] \in Chat
        /\ chats'[c] = [chats[c] EXCEPT !.project = p]
        /\ \A x \in DOMAIN chats : x # c => chats'[x] = chats[x]
    BY <1>2, ChatsKnown DEF ChatUpdate, ApplyChatUpdates
  <2>2. /\ chats'[c] \in Chat /\ OwnerRule(chats'[c]) /\ chats'[c].project = p
        /\ chats'[c].agent = chats[c].agent /\ chats'[c].team = chats[c].team
    BY <2>1, ChatsKnown DEF Chat, OwnerRule
  <2>3. chats' \in Table(Chats, Chat)
    <3>1. chats' \in [DOMAIN chats -> Chat]
      BY <1>2, <2>1, <2>2, ChatsKnown DEF ChatUpdate, ApplyChatUpdates
    <3> QED BY <2>1, <3>1, ChatsKnown, InTable
  <2>4. \A x \in DOMAIN chats' : OwnerRule(chats'[x]) /\ ChatRefs(chats[x])'
    BY <1>2, <2>1, <2>2, ChatsKnown DEF ChatUpdate, ChatRefs
  <2> QED BY <1>2, <2>3, <2>4, ChatsKnown, ChatsWritten, TouchedRows DEF ChatUpdate, ApplyChatUpdates
<1>3. ASSUME NEW c \in Chats, ChatDelete(c) PROVE Inv'
  <2>1. chats' \in Table(Chats, Chat) /\ Left(chats', chats, {c})
    BY <1>3, ChatsKnown, Deletes DEF ChatDelete
  <2>2. \A x \in DOMAIN chats' : OwnerRule(chats'[x]) /\ ChatRefs(chats[x])'
    BY <1>3, <2>1, ChatsKnown DEF ChatDelete, ChatRefs, Left
  <2> QED BY <1>3, <2>1, <2>2, ChatsKnown, ChatsWritten, TouchedRows DEF ChatDelete
<1>4. ASSUME ChatRemoveAll PROVE Inv'
  <2>1. chats' \in Table(Chats, Chat) /\ DOMAIN chats' = {} BY <1>4, EmptyTable DEF ChatRemoveAll
  <2> QED BY <1>4, <2>1, ChatsKnown, ChatsWritten, TouchedRows DEF ChatRemoveAll
<1> QED BY <1>1, <1>2, <1>3, <1>4 DEF ChatRequest

(* So does every step. *)
LEMMA InvNext == Inv /\ [Next]_vars => Inv'
<1> SUFFICES ASSUME Inv, [Next]_vars PROVE Inv' OBVIOUS
<1>1. CASE UNCHANGED vars
  <2>1. /\ UNCHANGED <<agents, prompts, teams, projects, members, chats, memories, cut>>
        /\ shared' \subseteq Shared /\ touched' \subseteq AllRows
    BY <1>1 DEF vars, Inv, TypeOK
  <2> QED BY <2>1, NothingMoved
<1> QED BY <1>1, PromptKeeps, AgentKeeps, MemoryKeeps, SharedKeeps, TeamKeeps, RosterKeeps,
           ProjectKeeps, ChatKeeps DEF Next

LEMMA Invariant == Spec => []Inv
BY InvInit, InvNext, PTL DEF Spec

-----------------------------------------------------------------------------
(* What a step does to turn orders and to updated_at. *)

Keeps(old, new) == \A a, b \in DOMAIN old \cap DOMAIN new : old[a] < old[b] => new[a] < new[b]
Rewritten(old, new) == DOMAIN new = DOMAIN old /\ Dense(new)

(* A step keeps the order of those who stay, or rewrites every position.   *)
LEMMA OrderStep ==
  ASSUME Inv, Next, NEW t \in Teams
  PROVE  Keeps(members[t], members'[t]) \/ Rewritten(members[t], members'[t])
<1>1. members[t] \in Roster /\ Apart(members[t]) BY RosterKnown
<1>2. ASSUME members' = members PROVE Keeps(members[t], members'[t]) BY <1>2 DEF Keeps
<1>3. CASE PromptRequest \/ MemoryRequest \/ SharedRequest \/ ProjectRequest \/ ChatRequest
  <2>1. members' = members
    BY <1>3 DEF PromptRequest, MemoryRequest, SharedRequest, ProjectRequest, ChatRequest,
      PromptCreate, PromptUpdate, PromptDelete, MemoryCreate, MemoryUpdate, MemoryRemove,
      MemoryRemoveAll, SharedCreate, SharedUpdate, SharedRemove, SharedRemoveAll,
      ProjectCreate, ProjectUpdate, ProjectDelete, ChatCreate, ChatUpdate, ChatDelete, ChatRemoveAll
  <2> QED BY <1>2, <2>1
<1>4. CASE AgentRequest
  <2>1. members' = members \/ \E a \in Agents : AgentDelete(a)
    BY <1>4 DEF AgentRequest, AgentCreate, AgentUpdate
  <2>2. ASSUME NEW a \in Agents, AgentDelete(a) PROVE Keeps(members[t], members'[t])
    <3>1. members'[t] = Delete(members[t], {a}) BY <2>2 DEF AgentDelete
    <3> DEFINE rest == Delete(members[t], {a})
    <3>2. DOMAIN rest = DOMAIN members[t] \ {a} /\ \A b \in DOMAIN members[t] \ {a} : rest[b] = members[t][b]
      BY <1>1, LeftBehind
    <3>3. members'[t] = rest BY <3>1
    <3> HIDE DEF rest
    <3> QED BY <3>2, <3>3 DEF Keeps
  <2> QED BY <1>2, <2>1, <2>2
<1>5. CASE TeamRequest
  <2>1. members' = members \/ \E u \in Teams : TeamDelete(u)
    BY <1>5 DEF TeamRequest, TeamCreate, TeamUpdate
  <2>2. ASSUME NEW u \in Teams, TeamDelete(u) PROVE Keeps(members[t], members'[t])
    <3>1. members'[t] = Empty \/ members'[t] = members[t] BY <2>2, RosterKnown DEF TeamDelete
    <3> QED BY <3>1, EmptyTable DEF Keeps
  <2> QED BY <1>2, <2>1, <2>2
<1>6. CASE RosterRequest
  <2>1. ASSUME NEW u \in Teams, NEW a \in Agents, MemberAdd(u, a)
        PROVE  Keeps(members[t], members'[t])
    <3> DEFINE n == NextPosition(members[u])
    <3>1. /\ u # t => members'[t] = members[t]
          /\ u = t => /\ members'[t] = Insert(members[t], a, n) /\ n <= MaxPosition
                      /\ a \notin DOMAIN members[t]
      BY <2>1, RosterKnown DEF MemberAdd
    <3>2. CASE u = t
      <4>1. n = NextPosition(members[t]) BY <3>2
      <4> HIDE DEF n
      <4> DEFINE new == Insert(members[t], a, n)
      <4>2. n <= MaxPosition /\ a \notin DOMAIN members[t] /\ members'[t] = new BY <3>1, <3>2
      <4>3. new = Insert(members[t], a, n) OBVIOUS
      <4> HIDE DEF new
      <4>4. Put(new, members[t], a, n) BY <1>1, <4>1, <4>2, <4>3, Joined
      <4> QED BY <4>2, <4>4 DEF Keeps, Put
    <3>3. CASE u # t BY <3>1, <3>3 DEF Keeps
    <3> QED BY <3>2, <3>3
  <2>2. ASSUME NEW u \in Teams, NEW a \in Agents, MemberRemove(u, a)
        PROVE  Keeps(members[t], members'[t])
    <3> DEFINE rest == Delete(members[t], {a})
    <3>1. /\ u # t => members'[t] = members[t]
          /\ u = t => members'[t] = Renumber(rest)
      BY <2>2, RosterKnown DEF MemberRemove
    <3>2. CASE u = t
      <4>1. /\ rest \in Roster /\ Apart(rest) /\ DOMAIN rest = DOMAIN members[t] \ {a}
            /\ \A b \in DOMAIN members[t] \ {a} : rest[b] = members[t][b]
        BY <1>1, LeftBehind
      <4> HIDE DEF rest
      <4>2. /\ DOMAIN members'[t] = DOMAIN rest
            /\ \A b, c \in DOMAIN rest : rest[b] < rest[c] => members'[t][b] < members'[t][c]
        BY <3>1, <3>2, <4>1, Renumbered
      <4> QED BY <4>1, <4>2 DEF Keeps
    <3>3. CASE u # t BY <3>1, <3>3 DEF Keeps
    <3> QED BY <3>2, <3>3
  <2>3. ASSUME NEW u \in Teams, NEW a \in Agents, MemberUpdate(u, a)
        PROVE  Keeps(members[t], members'[t])
    BY <1>2, <2>3 DEF MemberUpdate
  <2>4. ASSUME NEW u \in Teams, NEW requested \in Requests(Cardinality(Agents)),
               MemberReorder(u, requested)
        PROVE  Keeps(members[t], members'[t]) \/ Rewritten(members[t], members'[t])
    <3>1. CASE u = t
      <4>1. InOrder(members'[t]) /\ DOMAIN members'[t] = DOMAIN members[t]
        BY <2>4, <3>1, MemberReorderKeeps
      <4> QED BY <4>1 DEF InOrder, Rewritten
    <3>2. CASE u # t
      <4>1. members'[t] = members[t] BY <2>4, <3>2, RosterKnown DEF MemberReorder
      <4> QED BY <4>1 DEF Keeps
    <3> QED BY <3>1, <3>2
  <2> QED BY <1>6, <2>1, <2>2, <2>3, <2>4 DEF RosterRequest
<1> QED BY <1>3, <1>4, <1>5, <1>6 DEF Next

(* A step that deletes nothing others refer to dates what it changes.      *)
Dated ==
  /\ \A t \in teams \cap teams' : members'[t] # members[t] => Row("team", t) \in touched'
  /\ \A a \in DOMAIN agents \cap DOMAIN agents' :
       agents'[a] # agents[a] => Row("agent", a) \in touched'
  /\ \A c \in DOMAIN chats \cap DOMAIN chats' :
       chats'[c] # chats[c] => Row("chat", c) \in touched'

LEMMA TouchStep ==
  ASSUME Inv, Next
  PROVE  Deleted \/ Dated
<1>1. ASSUME members' = members, agents' = agents, chats' = chats PROVE Dated BY <1>1 DEF Dated
<1>2. CASE PromptRequest
  <2>1. (members' = members /\ agents' = agents /\ chats' = chats) \/ \E p \in Prompts : PromptDelete(p)
    BY <1>2 DEF PromptRequest, PromptCreate, PromptUpdate
  <2>2. ASSUME NEW p \in Prompts, PromptDelete(p) PROVE Deleted BY <2>2 DEF PromptDelete, Deleted
  <2> QED BY <1>1, <2>1, <2>2
<1>3. CASE MemoryRequest \/ SharedRequest
  <2>1. members' = members /\ agents' = agents /\ chats' = chats
    BY <1>3 DEF MemoryRequest, SharedRequest, MemoryCreate, MemoryUpdate, MemoryRemove,
      MemoryRemoveAll, SharedCreate, SharedUpdate, SharedRemove, SharedRemoveAll
  <2> QED BY <1>1, <2>1
<1>4. CASE AgentRequest
  <2>1. ASSUME NEW a \in Agents, NEW p, AgentCreate(a, p) PROVE Dated
    <3>1. \A x \in DOMAIN agents : agents'[x] = agents[x] BY <2>1 DEF AgentCreate, Insert
    <3> QED BY <2>1, <3>1 DEF AgentCreate, Dated
  <2>2. ASSUME NEW a \in Agents, NEW p, NEW text, AgentUpdate(a, p, text) PROVE Dated
    <3>1. /\ touched' = {Row("agent", a)} /\ members' = members /\ chats' = chats
          /\ \A x \in DOMAIN agents : x # a => agents'[x] = agents[x]
      BY <2>2 DEF AgentUpdate, ApplyAgentUpdates
    <3> QED BY <3>1 DEF Dated
  <2>3. ASSUME NEW a \in Agents, AgentDelete(a) PROVE Deleted
    <3>1. a \in DOMAIN agents /\ a \notin DOMAIN agents' BY <2>3 DEF AgentDelete, Delete
    <3> QED BY <3>1 DEF Deleted
  <2> QED BY <1>4, <2>1, <2>2, <2>3 DEF AgentRequest
<1>5. CASE TeamRequest
  <2>1. (members' = members /\ agents' = agents /\ chats' = chats) \/ \E t \in Teams : TeamDelete(t)
    BY <1>5 DEF TeamRequest, TeamCreate, TeamUpdate
  <2>2. ASSUME NEW t \in Teams, TeamDelete(t) PROVE Dated
    <3>1. /\ t \notin teams' /\ teams \subseteq Teams /\ agents' = agents /\ chats' = chats
          /\ \A u \in Teams : u # t => members'[u] = members[u]
      BY <2>2, RosterKnown DEF TeamDelete, Inv, TypeOK
    <3> QED BY <3>1 DEF Dated
  <2> QED BY <1>1, <2>1, <2>2
<1>6. CASE RosterRequest
  <2>1. PICK t \in Teams : /\ touched' = {Row("team", t)} /\ agents' = agents /\ chats' = chats
                           /\ \A u \in Teams : u # t => members'[u] = members[u]
    <3>1. ASSUME NEW t \in Teams PROVE members \in [Teams -> Roster] BY RosterKnown
    <3>2. ASSUME NEW t \in Teams, NEW a \in Agents, MemberAdd(t, a) \/ MemberUpdate(t, a) \/ MemberRemove(t, a)
          PROVE  /\ touched' = {Row("team", t)} /\ agents' = agents /\ chats' = chats
                 /\ \A u \in Teams : u # t => members'[u] = members[u]
      BY <3>1, <3>2 DEF MemberAdd, MemberUpdate, MemberRemove, Touch
    <3>3. ASSUME NEW t \in Teams, NEW requested, MemberReorder(t, requested)
          PROVE  /\ touched' = {Row("team", t)} /\ agents' = agents /\ chats' = chats
                 /\ \A u \in Teams : u # t => members'[u] = members[u]
      BY <3>1, <3>3 DEF MemberReorder, Touch
    <3> QED BY <1>6, <3>2, <3>3 DEF RosterRequest
  <2>2. teams \subseteq Teams BY DEF Inv, TypeOK
  <2> QED BY <2>1, <2>2 DEF Dated
<1>7. CASE ProjectRequest
  <2>1. (members' = members /\ agents' = agents /\ chats' = chats) \/ \E p \in Projects : ProjectDelete(p)
    BY <1>7 DEF ProjectRequest, ProjectCreate, ProjectUpdate
  <2>2. ASSUME NEW p \in Projects, ProjectDelete(p) PROVE Deleted BY <2>2 DEF ProjectDelete, Deleted
  <2> QED BY <1>1, <2>1, <2>2
<1>8. CASE ChatRequest
  <2>1. ASSUME NEW c \in Chats, NEW chat, ChatCreate(c, chat) PROVE Dated
    <3>1. \A x \in DOMAIN chats : chats'[x] = chats[x] BY <2>1 DEF ChatCreate, Insert
    <3> QED BY <2>1, <3>1 DEF ChatCreate, Dated
  <2>2. ASSUME NEW c \in Chats, NEW p, NEW title, ChatUpdate(c, p, title) PROVE Dated
    <3>1. /\ touched' = {Row("chat", c)} /\ members' = members /\ agents' = agents
          /\ \A x \in DOMAIN chats : x # c => chats'[x] = chats[x]
      BY <2>2 DEF ChatUpdate, ApplyChatUpdates
    <3> QED BY <3>1 DEF Dated
  <2>3. ASSUME NEW c \in Chats, ChatDelete(c) PROVE Dated
    <3>1. \A x \in DOMAIN chats' : chats'[x] = chats[x] BY <2>3 DEF ChatDelete, Delete
    <3> QED BY <2>3, <3>1 DEF ChatDelete, Dated
  <2>4. ASSUME ChatRemoveAll PROVE Dated BY <2>4, EmptyTable DEF ChatRemoveAll, Dated
  <2> QED BY <1>8, <2>1, <2>2, <2>3, <2>4 DEF ChatRequest
<1> QED BY <1>2, <1>3, <1>4, <1>5, <1>6, <1>7, <1>8 DEF Next

-----------------------------------------------------------------------------
(* The theorems. *)

(* Every table keeps its shape: no request stores a row or a position that *)
(* the schema has no place for.                                            *)
THEOREM TypeInvariant == Spec => []TypeOK
<1>1. Inv => TypeOK BY DEF Inv
<1> QED BY <1>1, Invariant, PTL

(* No row names a row that is gone, whatever was deleted in whatever order:*)
(* what CASCADE, SET NULL and the owner CHECK do keeps every reference.    *)
THEOREM NothingDangles == Spec => []ReferencesExist
<1>1. Inv => ReferencesExist BY DEF Inv
<1> QED BY <1>1, Invariant, PTL

(* Positions tell the members of a team apart, and are 0..n-1 whenever no  *)
(* agent of it was deleted since they were last rewritten.                 *)
THEOREM RostersAreOrdered == Spec => []RosterOrdered
<1>1. Inv => RosterOrdered BY DEF Inv
<1> QED BY <1>1, Invariant, PTL

(* Members who stay keep their turn order in every step but a reorder,     *)
(* which loses nobody and leaves positions 0..n-1.                         *)
THEOREM OrderIsKept == Spec => TurnOrderKept
<1> DEFINE Turned(t) == \E a, b \in DOMAIN members[t] \cap DOMAIN members'[t] :
                          members[t][a] < members[t][b] /\ members'[t][a] >= members'[t][b]
           Kept == \A t \in Teams :
                     Turned(t) => DOMAIN members'[t] = DOMAIN members[t] /\ Dense(members'[t])
<1>1. Inv /\ Inv' /\ [Next]_vars => [Kept]_members
  <2> SUFFICES ASSUME Inv, Inv', Next, NEW t \in Teams, Turned(t)
               PROVE  DOMAIN members'[t] = DOMAIN members[t] /\ Dense(members'[t])
    BY DEF vars
  <2>1. Keeps(members[t], members'[t]) \/ Rewritten(members[t], members'[t]) BY OrderStep
  <2>2. CASE Keeps(members[t], members'[t])
    <3>1. PICK a \in DOMAIN members[t] \cap DOMAIN members'[t],
               b \in DOMAIN members[t] \cap DOMAIN members'[t] :
            members[t][a] < members[t][b] /\ members'[t][a] >= members'[t][b]
      OBVIOUS
    <3>2. members'[t][a] < members'[t][b] BY <2>2, <3>1 DEF Keeps
    <3>3. members'[t] \in Roster BY DEF Inv, TypeOK, Roster, Positions
    <3>4. members'[t][a] \in Nat /\ members'[t][b] \in Nat BY <3>1, <3>3, RosterFinite
    <3> QED BY <3>1, <3>2, <3>4
  <2>3. CASE Rewritten(members[t], members'[t]) BY <2>3 DEF Rewritten
  <2> QED BY <2>1, <2>2, <2>3
<1> QED BY <1>1, Invariant, PTL DEF Spec, TurnOrderKept

(* A change of a roster, of an agent's prompt or of a chat's project that  *)
(* a request makes shows in updated_at.                                    *)
THEOREM ChangesAreDated == Spec => ChangesTouch
<1>1. Inv /\ [Next]_vars => [Deleted \/ Dated]_vars BY TouchStep
<1> QED BY <1>1, Invariant, PTL DEF Spec, ChangesTouch, Dated
=============================================================================
