--------------------------- MODULE CatalogProofs ----------------------------
(***************************************************************************)
(* What holds of providers, credentials and catalogues for any number of   *)
(* processes, discoveries and models, and answers of any length.           *)
(***************************************************************************)
EXTENDS Catalog, FiniteSetTheorems, WellFoundedInduction, TLAPS

-----------------------------------------------------------------------------
(* Tables: what an insert and a delete leave in one. *)

(* A table is a function on some of the ids. *)
LEMMA InTable ==
  ASSUME NEW ids, NEW row, NEW t
  PROVE  t \in Table(ids, row) <=> DOMAIN t \in SUBSET ids /\ t \in [DOMAIN t -> row]
BY DEF Table

(* Without rows it is a table of any kind. *)
LEMMA EmptyTable ==
  ASSUME NEW ids, NEW row
  PROVE  Empty \in Table(ids, row) /\ DOMAIN Empty = {}
<1>1. DOMAIN Empty = {} /\ Empty \in [{} -> row] BY DEF Empty
<1> QED BY <1>1, InTable

(* new is t with the row v at id. *)
Put(new, t, id, v) ==
  /\ DOMAIN new = DOMAIN t \cup {id} /\ new[id] = v
  /\ \A x \in DOMAIN t : x # id => new[x] = t[x]

(* An insert gives a table, changed at the id only. *)
LEMMA Inserted ==
  ASSUME NEW ids, NEW row, NEW t \in Table(ids, row), NEW id \in ids, NEW v \in row
  PROVE  Insert(t, id, v) \in Table(ids, row) /\ Put(Insert(t, id, v), t, id, v)
<1>1. DOMAIN t \in SUBSET ids /\ t \in [DOMAIN t -> row] BY InTable
<1>2. /\ DOMAIN Insert(t, id, v) = DOMAIN t \cup {id}
      /\ Insert(t, id, v)[id] = v
      /\ \A x \in DOMAIN t : x # id => Insert(t, id, v)[x] = t[x]
      /\ Insert(t, id, v) \in [DOMAIN t \cup {id} -> row]
  BY <1>1 DEF Insert
<1>3. Insert(t, id, v) \in Table(ids, row) BY <1>1, <1>2, InTable
<1> QED BY <1>2, <1>3 DEF Put

(* new is t without the ids gone. *)
Left(new, t, gone) == DOMAIN new = DOMAIN t \ gone /\ \A x \in DOMAIN t \ gone : new[x] = t[x]

(* A delete gives a table with the rows that stay as they were. *)
LEMMA Deletes ==
  ASSUME NEW ids, NEW row, NEW t \in Table(ids, row), NEW gone \in SUBSET ids
  PROVE  Delete(t, gone) \in Table(ids, row) /\ Left(Delete(t, gone), t, gone)
<1>1. DOMAIN t \in SUBSET ids /\ t \in [DOMAIN t -> row] BY InTable
<1>2. /\ DOMAIN Delete(t, gone) = DOMAIN t \ gone
      /\ \A x \in DOMAIN t \ gone : Delete(t, gone)[x] = t[x]
      /\ Delete(t, gone) \in [DOMAIN t \ gone -> row]
  BY <1>1 DEF Delete
<1>3. Delete(t, gone) \in Table(ids, row) BY <1>1, <1>2, InTable
<1> QED BY <1>2, <1>3 DEF Left

-----------------------------------------------------------------------------
(* The master key. *)

(* A process that creates the file has no key yet; at most one writes it,  *)
(* and the file is cut short while it does.                                *)
KeySteps ==
  /\ \A q \in Procs : proc[q].at # "none" => proc[q].key = None
  /\ \A q \in Procs : proc[q].at = "writing" => file = "partial"
  /\ \A q, r \in Procs : proc[q].at = "writing" /\ proc[r].at = "writing" => q = r

KeysTyped ==
  /\ file \in Procs \cup {None, "partial"}
  /\ proc \in [Procs -> [key : Procs \cup {None}, at : {"none", "creating", "writing"}]]
  /\ credentials \in Table(Providers, Procs)

KeyInv == KeysTyped /\ KeySteps /\ CredentialsReadable

LEMMA ProcKnown ==
  ASSUME KeyInv, NEW q \in Procs
  PROVE  /\ proc[q].key \in Procs \cup {None} /\ proc[q].at \in {"none", "creating", "writing"}
         /\ proc[q] = [key |-> proc[q].key, at |-> proc[q].at]
         /\ proc[q].key \in {None, file}
         /\ proc[q].at # "none" => proc[q].key = None
         /\ proc[q].at = "writing" => file = "partial"
BY DEF KeyInv, KeysTyped, KeySteps, CredentialsReadable

(* A step of one process that leaves the file and the credentials alone.   *)
LEMMA ProcMoves ==
  ASSUME KeyInv, NEW q \in Procs, NEW key \in {None, file}, key \in Procs \cup {None},
         NEW at \in {"none", "creating"}, at = "creating" => key = None,
         proc' = [proc EXCEPT ![q] = [key |-> key, at |-> at]],
         UNCHANGED <<file, credentials, providers>>
  PROVE  KeyInv'
<1>1. /\ proc' \in [Procs -> [key : Procs \cup {None}, at : {"none", "creating", "writing"}]]
      /\ proc'[q].key = key /\ proc'[q].at = at
      /\ \A r \in Procs : r # q => proc'[r] = proc[r]
  BY DEF KeyInv, KeysTyped
<1>2. KeysTyped' BY <1>1 DEF KeyInv, KeysTyped
<1>3. KeySteps' BY <1>1 DEF KeyInv, KeySteps
<1>4. CredentialsReadable' BY <1>1 DEF KeyInv, CredentialsReadable, Stored
<1> QED BY <1>2, <1>3, <1>4 DEF KeyInv

(* While there is no whole key file no credential is stored, and no        *)
(* process has a key.                                                      *)
LEMMA NoKeyYet ==
  ASSUME KeyInv, file \notin Procs
  PROVE  DOMAIN credentials = {} /\ \A q \in Procs : proc[q].key = None
<1>1. DOMAIN credentials \in SUBSET Providers /\ credentials \in [DOMAIN credentials -> Procs]
  BY InTable DEF KeyInv, KeysTyped
<1>2. DOMAIN credentials = {} BY <1>1 DEF KeyInv, CredentialsReadable
<1> QED BY <1>2, ProcKnown

LEMMA LoadKeyKeeps == ASSUME KeyInv, NEW q \in Procs, LoadKey(q) PROVE KeyInv'
<1>1. CASE file = None
  <2>1. proc[q] = [key |-> None, at |-> "none"] BY DEF LoadKey
  <2>2. [proc[q] EXCEPT !.at = "creating"] = [key |-> None, at |-> "creating"] BY <2>1
  <2>3. proc' = [proc EXCEPT ![q] = [key |-> None, at |-> "creating"]] BY <1>1, <2>2 DEF LoadKey
  <2> QED BY <2>3, ProcMoves DEF LoadKey, data
<1>2. CASE file # None
  <2>1. file \in Procs BY <1>2 DEF LoadKey, KeyInv, KeysTyped
  <2>2. proc[q] = [key |-> None, at |-> "none"] BY DEF LoadKey
  <2>3. [proc[q] EXCEPT !.key = file] = [key |-> file, at |-> "none"] BY <2>2
  <2>4. proc' = [proc EXCEPT ![q] = [key |-> file, at |-> "none"]] BY <1>2, <2>3 DEF LoadKey
  <2> QED BY <2>1, <2>4, ProcMoves DEF LoadKey, data
<1> QED BY <1>1, <1>2

LEMMA OpenKeyKeeps == ASSUME KeyInv, NEW q \in Procs, OpenKey(q) PROVE KeyInv'
<1>1. CASE file = None
  <2>1. file \notin Procs BY <1>1, CatalogAssumption
  <2>2. DOMAIN credentials = {} /\ \A r \in Procs : proc[r].key = None BY <2>1, NoKeyYet
  <2>3. /\ file' = "partial" /\ credentials' = credentials /\ providers' = providers
        /\ proc' = [proc EXCEPT ![q].at = "writing"]
    BY <1>1 DEF OpenKey, data
  <2>4. /\ proc' \in [Procs -> [key : Procs \cup {None}, at : {"none", "creating", "writing"}]]
        /\ proc'[q].key = None /\ proc'[q].at = "writing"
        /\ \A r \in Procs : r # q => proc'[r] = proc[r]
    BY <2>2, <2>3 DEF KeyInv, KeysTyped
  <2>5. \A r \in Procs : proc[r].at # "writing" BY <1>1, CatalogAssumption DEF KeyInv, KeySteps
  <2>6. KeysTyped' BY <2>3, <2>4 DEF KeyInv, KeysTyped
  <2>7. KeySteps' BY <2>2, <2>3, <2>4, <2>5 DEF KeyInv, KeySteps
  <2>8. CredentialsReadable' BY <2>2, <2>3, <2>4 DEF CredentialsReadable
  <2> QED BY <2>6, <2>7, <2>8 DEF KeyInv
<1>2. CASE file # None
  <2> DEFINE key == IF file = "partial" THEN None ELSE file
  <2>1. key \in {None, file} /\ key \in Procs \cup {None} BY <1>2 DEF KeyInv, KeysTyped
  <2>2. proc' = [proc EXCEPT ![q] = [key |-> key, at |-> "none"]] BY <1>2 DEF OpenKey
  <2> HIDE DEF key
  <2> QED BY <1>2, <2>1, <2>2, ProcMoves DEF OpenKey, data
<1> QED BY <1>1, <1>2

LEMMA WriteKeyKeeps == ASSUME KeyInv, NEW q \in Procs, WriteKey(q) PROVE KeyInv'
<1>1. file = "partial" /\ file \notin Procs
  BY CatalogAssumption DEF WriteKey, KeyInv, KeySteps
<1>2. DOMAIN credentials = {} /\ \A r \in Procs : proc[r].key = None BY <1>1, NoKeyYet
<1>3. /\ file' = q /\ credentials' = credentials
      /\ proc' = [proc EXCEPT ![q] = [key |-> q, at |-> "none"]]
  BY DEF WriteKey, data
<1>4. /\ proc' \in [Procs -> [key : Procs \cup {None}, at : {"none", "creating", "writing"}]]
      /\ proc'[q].key = q /\ proc'[q].at = "none"
      /\ \A r \in Procs : r # q => proc'[r] = proc[r]
  BY <1>3 DEF KeyInv, KeysTyped
<1>5. \A r \in Procs : r # q => proc[r].at # "writing" BY DEF WriteKey, KeyInv, KeySteps
<1>6. KeysTyped' BY <1>3, <1>4 DEF KeyInv, KeysTyped
<1>7. KeySteps' BY <1>4, <1>5 DEF KeyInv, KeySteps
<1>8. CredentialsReadable' BY <1>2, <1>3, <1>4 DEF CredentialsReadable
<1> QED BY <1>6, <1>7, <1>8 DEF KeyInv

LEMMA KillKeeps == ASSUME KeyInv, NEW q \in Procs, Kill(q) PROVE KeyInv'
BY ProcMoves DEF Kill, data

LEMMA CredentialSetKeeps ==
  ASSUME KeyInv, NEW q \in Procs, NEW p \in Providers, CredentialSet(q, p)
  PROVE  KeyInv'
<1>1. proc[q].key \in Procs /\ proc[q].key = file BY ProcKnown DEF CredentialSet
<1>2. credentials' \in Table(Providers, Procs) /\ Put(credentials', credentials, p, file)
  <2>1. credentials' = Insert(credentials, p, file) BY <1>1 DEF CredentialSet, encrypt
  <2> QED BY <1>1, <2>1, Inserted DEF KeyInv, KeysTyped
<1>3. KeysTyped' BY <1>2 DEF KeyInv, KeysTyped, CredentialSet, keys
<1>4. KeySteps' BY DEF KeyInv, KeySteps, CredentialSet, keys
<1>5. CredentialsReadable' BY <1>2 DEF KeyInv, CredentialsReadable, Put, CredentialSet, Stored, keys
<1> QED BY <1>3, <1>4, <1>5 DEF KeyInv

(* Nothing else touches the keys; credentials go, with their provider or   *)
(* before it.                                                              *)
LEMMA KeysLeftAlone ==
  ASSUME KeyInv, UNCHANGED <<file, proc>>, NEW gone \in SUBSET Providers,
         credentials' = credentials \/ Left(credentials', credentials, gone),
         credentials' \in Table(Providers, Procs),
         \A p \in DOMAIN credentials' : Stored(p)'
  PROVE  KeyInv'
<1>1. KeysTyped' BY DEF KeyInv, KeysTyped
<1>2. KeySteps' BY DEF KeyInv, KeySteps
<1>3. CredentialsReadable' BY DEF KeyInv, CredentialsReadable, Left
<1> QED BY <1>1, <1>2, <1>3 DEF KeyInv

-----------------------------------------------------------------------------
(* Answers. *)

(* Some place of those that are marked comes first: fewest are before it. *)
LEMMA First ==
  ASSUME NEW n \in Nat, NEW S \in SUBSET (1..n), S # {}
  PROVE  \E k \in S : \A j \in S : k <= j
<1> DEFINE Ahead(k) == 1..(k - 1)
           T == {Ahead(k) : k \in S}
           R == StrictSubsetOrdering(1..n)
<1>1. T # {} /\ T \subseteq FiniteSubsetsOf(1..n)
  <2>1. ASSUME NEW k \in S PROVE Ahead(k) \in SUBSET (1..n) /\ IsFiniteSet(Ahead(k))
    BY FS_Interval
  <2> HIDE DEF Ahead
  <2> QED BY <2>1 DEF FiniteSubsetsOf
<1>2. IsWellFoundedOn(R, FiniteSubsetsOf(1..n)) BY FS_StrictSubsetOrderingWellFounded
<1> HIDE DEF T, R
<1>3. PICK x \in T : \A y \in T : ~ (<<y, x>> \in R) BY <1>1, <1>2, WFMin
<1>4. PICK k \in S : x = Ahead(k) BY <1>3 DEF T
<1>5. ASSUME NEW j \in S, ~(k <= j) PROVE FALSE
  <2>1. Ahead(j) \in T BY DEF T
  <2>2. j \in Ahead(k) /\ j \notin Ahead(j) /\ Ahead(j) \subseteq Ahead(k) BY <1>5
  <2>3. Ahead(j) \in SUBSET (1..n) /\ Ahead(k) \in SUBSET (1..n) OBVIOUS
  <2> HIDE DEF Ahead
  <2>4. <<Ahead(j), Ahead(k)>> \in R BY <2>2, <2>3 DEF R, StrictSubsetOrdering
  <2> QED BY <1>3, <1>4, <2>1, <2>4
<1> QED BY <1>5

(* The identifiers of a well-formed answer, each with what the first item  *)
(* that has it says.                                                       *)
LEMMA Deduped ==
  ASSUME NEW items \in Answers, ~Malformed(items)
  PROVE  dedupe(items) \in Table(Identifiers, Metas)
<1> DEFINE named == {items[k][1] : k \in DOMAIN items}
           At(i, k) == items[k][1] = i /\ \A j \in DOMAIN items : items[j][1] = i => k <= j
           first(i) == CHOOSE k \in DOMAIN items : At(i, k)
<1>1. PICK n \in Nat : items \in [1..n -> Items] BY CatalogAssumption DEF Answers
<1>2. \A k \in DOMAIN items : items[k] \in Identifiers \X Metas BY <1>1 DEF Malformed, Items
<1>3. ASSUME NEW i \in named PROVE items[first(i)][2] \in Metas
  <2> DEFINE S == {k \in 1..n : items[k][1] = i}
  <2>1. S \in SUBSET (1..n) /\ S # {} BY <1>1
  <2>2. PICK k \in S : \A j \in S : k <= j
    <3> HIDE DEF S
    <3> QED BY <2>1, First
  <2>3. k \in DOMAIN items /\ At(i, k) BY <1>1, <2>2
  <2> HIDE DEF At
  <2>4. first(i) \in DOMAIN items BY <2>3
  <2> HIDE DEF first
  <2> QED BY <1>2, <2>4
<1>4. named \in SUBSET Identifiers BY <1>2
<1>5. dedupe(items) = [i \in named |-> items[first(i)][2]] BY DEF dedupe
<1> HIDE DEF named, first
<1>6. DOMAIN dedupe(items) = named /\ dedupe(items) \in [named -> Metas] BY <1>3, <1>5
<1> QED BY <1>4, <1>6, InTable

-----------------------------------------------------------------------------
(* Reconciling an answer with the models. *)

Here(p, listed) == {<<p, i>> : i \in DOMAIN listed}

(* new is the table with the answer of p stored. *)
Reconciled(new, p, listed, table) ==
  /\ DOMAIN new = DOMAIN table \cup Here(p, listed)
  /\ \A x \in DOMAIN table : x \notin Here(p, listed) /\ x[1] # p => new[x] = table[x]
  /\ \A x \in DOMAIN table : table[x].source = "manual" => new[x] = table[x]
  /\ \A x \in Here(p, listed) :
       \/ new[x].source = "manual"
       \/ new[x] = [source |-> "discovered", enabled |-> TRUE, meta |-> listed[x[2]]]
  /\ \A x \in DOMAIN table \ Here(p, listed) :
       x[1] = p => new[x].source = "manual" \/ ~new[x].enabled

LEMMA ReconcileWorks ==
  ASSUME NEW p \in Providers, NEW listed \in Table(Identifiers, Metas), NEW table \in Table(Ids, Model),
         NEW new, new = Reconcile(p, listed, table)
  PROVE  new \in Table(Ids, Model) /\ Reconciled(new, p, listed, table)
<1> DEFINE here == Here(p, listed)
<1>1. /\ DOMAIN listed \in SUBSET Identifiers /\ listed \in [DOMAIN listed -> Metas]
      /\ DOMAIN table \in SUBSET Ids /\ table \in [DOMAIN table -> Model]
  BY InTable
<1>2. \A x \in here : x[1] = p /\ x[2] \in DOMAIN listed /\ listed[x[2]] \in Metas /\ x \in Ids
  BY <1>1 DEF Here, Ids
<1>3. /\ DOMAIN new = DOMAIN table \cup here
      /\ \A x \in here : x \notin DOMAIN table =>
           new[x] = [source |-> "discovered", enabled |-> TRUE, meta |-> listed[x[2]]]
      /\ \A x \in here : x \in DOMAIN table => new[x] = Listed(table[x], listed[x[2]])
      /\ \A x \in DOMAIN table \ here : x[1] = p => new[x] = Missing(table[x])
      /\ \A x \in DOMAIN table \ here : x[1] # p => new[x] = table[x]
      /\ new = [x \in DOMAIN new |-> new[x]]
  BY DEF Reconcile, Here
<1> HIDE DEF here
<1>4. ASSUME NEW x \in DOMAIN table, x \in here
      PROVE  /\ new[x] \in Model
             /\ table[x].source = "manual" => new[x] = table[x]
             /\ \/ new[x].source = "manual"
                \/ new[x] = [source |-> "discovered", enabled |-> TRUE, meta |-> listed[x[2]]]
  <2>1. table[x] \in Model /\ listed[x[2]] \in Metas BY <1>1, <1>2, <1>4
  <2>2. new[x] = Listed(table[x], listed[x[2]]) BY <1>3, <1>4
  <2>3. CASE table[x].source = "manual"
    <3>1. new[x] = table[x] BY <2>2, <2>3 DEF Listed
    <3> QED BY <2>1, <2>3, <3>1
  <2>4. CASE table[x].source # "manual"
    <3>1. new[x] = [table[x] EXCEPT !.enabled = TRUE, !.meta = listed[x[2]]] BY <2>2, <2>4 DEF Listed
    <3>2. new[x] = [source |-> "discovered", enabled |-> TRUE, meta |-> listed[x[2]]]
      BY <2>1, <2>4, <3>1 DEF Model
    <3> QED BY <2>1, <2>4, <3>2 DEF Model
  <2> QED BY <2>3, <2>4
<1>5. ASSUME NEW x \in DOMAIN table, x \notin here, x[1] = p
      PROVE  /\ new[x] \in Model
             /\ table[x].source = "manual" => new[x] = table[x]
             /\ new[x].source = "manual" \/ ~new[x].enabled
  <2>1. table[x] \in Model BY <1>1
  <2>2. new[x] = Missing(table[x]) BY <1>3, <1>5
  <2>3. CASE table[x].source = "manual" BY <2>1, <2>2, <2>3 DEF Missing
  <2>4. CASE table[x].source # "manual"
    <3>1. new[x] = [table[x] EXCEPT !.enabled = FALSE] BY <2>2, <2>4 DEF Missing
    <3> QED BY <2>1, <2>4, <3>1 DEF Model
  <2> QED BY <2>3, <2>4
<1>6. ASSUME NEW x \in DOMAIN new PROVE new[x] \in Model
  <2>1. CASE x \in here /\ x \notin DOMAIN table
    <3>1. new[x] = [source |-> "discovered", enabled |-> TRUE, meta |-> listed[x[2]]] BY <1>3, <2>1
    <3>2. listed[x[2]] \in Metas BY <1>2, <2>1
    <3> QED BY <3>1, <3>2 DEF Model
  <2>2. CASE x \in here /\ x \in DOMAIN table BY <1>4, <2>2
  <2>3. CASE x \notin here
    <3>1. x \in DOMAIN table BY <1>3, <2>3
    <3>2. CASE x[1] = p BY <1>5, <2>3, <3>1, <3>2
    <3>3. CASE x[1] # p BY <1>1, <1>3, <2>3, <3>1, <3>3
    <3> QED BY <3>2, <3>3
  <2> QED BY <2>1, <2>2, <2>3
<1>7. new \in Table(Ids, Model)
  <2>1. DOMAIN new \in SUBSET Ids BY <1>1, <1>2, <1>3
  <2>2. new \in [DOMAIN new -> Model] BY <1>3, <1>6
  <2> QED BY <2>1, <2>2, InTable
<1>8. Reconciled(new, p, listed, table)
  BY <1>3, <1>4, <1>5 DEF Reconciled, here
<1> QED BY <1>7, <1>8

-----------------------------------------------------------------------------
(* The invariant, and what most steps have in common. *)

Inv == TypeOK /\ KeyInv /\ ProvidersSound /\ CatalogueIsOneAnswer

LEMMA InvInit == Init => Inv
<1> SUFFICES ASSUME Init PROVE Inv OBVIOUS
<1>1. DOMAIN Empty = {} BY EmptyTable
<1>2. /\ Empty \in Table(Providers, Provider) /\ Empty \in Table(Ids, Model)
      /\ Empty \in Table(Providers, Procs) /\ Empty \in Table(Providers, Table(Identifiers, Metas))
  BY EmptyTable
<1>3. TypeOK BY <1>1, <1>2 DEF Init, TypeOK
<1>4. KeyInv
  <2>1. KeysTyped BY <1>3 DEF TypeOK, KeysTyped
  <2>2. KeySteps BY DEF Init, KeySteps
  <2>3. CredentialsReadable BY <1>1 DEF Init, CredentialsReadable
  <2> QED BY <2>1, <2>2, <2>3 DEF KeyInv
<1>5. ProvidersSound BY <1>1 DEF Init, ProvidersSound
<1>6. CatalogueIsOneAnswer BY <1>1 DEF Init, CatalogueIsOneAnswer
<1> QED BY <1>3, <1>4, <1>5, <1>6 DEF Inv

(* A step of the keys and credentials. *)
LEMMA OnlyKeys ==
  ASSUME Inv, KeyInv', UNCHANGED <<providers, deleted, models, uses, disc, answer, edited>>
  PROVE  Inv'
<1>1. TypeOK' BY DEF Inv, TypeOK, KeyInv, KeysTyped
<1>2. ProvidersSound' BY DEF Inv, ProvidersSound, Stored
<1>3. CatalogueIsOneAnswer' BY DEF Inv, CatalogueIsOneAnswer
<1> QED BY <1>1, <1>2, <1>3 DEF Inv

(* A discovery starts, or ends without an answer that is stored. *)
LEMMA OnlyDiscoveries ==
  ASSUME Inv, disc' \in [Slots -> Providers \cup {None}], UNCHANGED <<data, keys, answer, edited>>
  PROVE  Inv'
<1> USE DEF data, keys
<1>1. TypeOK' BY DEF Inv, TypeOK
<1>2. KeyInv' BY DEF Inv, KeyInv, KeysTyped, KeySteps, CredentialsReadable, Stored
<1>3. ProvidersSound' BY DEF Inv, ProvidersSound, Stored
<1>4. CatalogueIsOneAnswer' BY DEF Inv, CatalogueIsOneAnswer
<1> QED BY <1>1, <1>2, <1>3, <1>4 DEF Inv

LEMMA KeyStepKeeps == Inv /\ KeyStep => Inv'
<1> SUFFICES ASSUME Inv, KeyStep PROVE Inv' OBVIOUS
<1>1. KeyInv BY DEF Inv
<1>2. KeyInv'
  BY <1>1, LoadKeyKeeps, OpenKeyKeeps, WriteKeyKeeps, KillKeeps, CredentialSetKeeps DEF KeyStep
<1>3. UNCHANGED <<providers, deleted, models, uses, disc, answer, edited>>
  BY DEF KeyStep, LoadKey, OpenKey, WriteKey, Kill, CredentialSet, data
<1> QED BY <1>2, <1>3, OnlyKeys

-----------------------------------------------------------------------------
(* Requests that write providers and credentials. *)

LEMMA ProviderWritten ==
  ASSUME Inv, NEW p \in Providers, NEW kind \in Kinds, NEW url \in Urls \cup {None},
         ProviderCreate(p, kind, url) \/ ProviderUpdate(p, kind, url)
  PROVE  Inv'
<1> DEFINE row == [kind |-> kind, url |-> url]
<1>1. /\ assertBaseUrl(kind, url) /\ row \in Provider
      /\ UNCHANGED <<models, credentials, uses, disc, keys, answer, edited>> /\ deleted' = deleted
  BY DEF ProviderCreate, ProviderUpdate, Provider
<1>2. providers \in Table(Providers, Provider) BY DEF Inv, TypeOK
<1>3. providers' \in Table(Providers, Provider) /\ Put(providers', providers, p, row)
  <2>1. CASE ProviderCreate(p, kind, url)
    <3>1. providers' = Insert(providers, p, row) BY <2>1 DEF ProviderCreate
    <3> HIDE DEF row
    <3> QED BY <1>1, <1>2, <3>1, Inserted
  <2>2. CASE ProviderUpdate(p, kind, url)
    <3>1. DOMAIN providers \in SUBSET Providers /\ providers \in [DOMAIN providers -> Provider]
      BY <1>2, InTable
    <3>2. providers' = [providers EXCEPT ![p] = row] /\ p \in DOMAIN providers
      BY <2>2 DEF ProviderUpdate, Stored
    <3> HIDE DEF row
    <3>3. providers' \in [DOMAIN providers -> Provider] /\ DOMAIN providers' = DOMAIN providers
      BY <1>1, <3>1, <3>2
    <3>4. providers' \in Table(Providers, Provider) BY <3>1, <3>3, InTable
    <3> QED BY <3>1, <3>2, <3>3, <3>4 DEF Put
  <2> QED BY <2>1, <2>2
<1>4. DOMAIN providers \subseteq DOMAIN providers' BY <1>3 DEF Put
<1>5. TypeOK'
  <2>1. deleted \subseteq Providers \ DOMAIN providers'
    BY <1>3 DEF ProviderCreate, ProviderUpdate, Stored, Put, Inv, TypeOK
  <2> QED BY <1>1, <1>3, <2>1 DEF Inv, TypeOK, keys
<1>6. KeyInv' BY <1>1, <1>4 DEF Inv, KeyInv, KeysTyped, KeySteps, CredentialsReadable, Stored, keys
<1>7. ProvidersSound'
  <2>1. \A q \in DOMAIN providers' : LocalOrCustom(providers'[q].kind) => providers'[q].url # None
    <3> SUFFICES ASSUME NEW q \in DOMAIN providers', LocalOrCustom(providers'[q].kind)
                 PROVE  providers'[q].url # None
      OBVIOUS
    <3>1. CASE q = p BY <1>1, <1>3, <3>1 DEF Put, assertBaseUrl
    <3>2. CASE q # p BY <1>3, <3>2 DEF Put, Inv, ProvidersSound
    <3> QED BY <3>1, <3>2
  <2> QED BY <1>1, <1>4, <2>1 DEF Inv, ProvidersSound, Stored
<1>8. CatalogueIsOneAnswer' BY <1>1 DEF Inv, CatalogueIsOneAnswer
<1> QED BY <1>5, <1>6, <1>7, <1>8 DEF Inv

LEMMA CredentialRemoveKeeps ==
  ASSUME Inv, NEW p \in Providers, CredentialRemove(p)
  PROVE  Inv'
<1>1. credentials' \in Table(Providers, Procs) /\ Left(credentials', credentials, {p})
  BY Deletes DEF CredentialRemove, Inv, TypeOK
<1>2. KeyInv'
  <2>1. \A x \in DOMAIN credentials' : Stored(x)'
    BY <1>1 DEF Left, CredentialRemove, Stored, Inv, KeyInv, CredentialsReadable
  <2>2. UNCHANGED <<file, proc>> BY DEF CredentialRemove, keys
  <2> QED BY <1>1, <2>1, <2>2, KeysLeftAlone DEF Inv
<1> QED BY <1>2, OnlyKeys DEF CredentialRemove

(* With the provider go its models, its credential and every reference to  *)
(* one of its models.                                                      *)
LEMMA ProviderRemoveKeeps ==
  ASSUME Inv, NEW p \in Providers, ProviderRemove(p)
  PROVE  Inv'
<1> DEFINE gone == {x \in DOMAIN models : x[1] = p}
<1>1. /\ providers \in Table(Providers, Provider) /\ models \in Table(Ids, Model)
      /\ credentials \in Table(Providers, Procs)
      /\ answer \in Table(Providers, Table(Identifiers, Metas))
  BY DEF Inv, TypeOK
<1>2. DOMAIN models \in SUBSET Ids /\ gone \in SUBSET Ids BY <1>1, InTable
<1>3. /\ providers' = Delete(providers, {p}) /\ deleted' = deleted \cup {p}
      /\ models' = Delete(models, gone)
      /\ credentials' = Delete(credentials, {p})
      /\ uses' = [a \in Agents |-> IF uses[a] \in gone THEN None ELSE uses[a]]
      /\ answer' = Delete(answer, {p})
      /\ edited' = {x \in edited : x[1] # p}
      /\ disc' = disc /\ file' = file /\ proc' = proc
  BY DEF ProviderRemove, keys
<1>4. \A x \in DOMAIN models : x \in gone <=> x[1] = p OBVIOUS
<1> HIDE DEF gone
<1>5. providers' \in Table(Providers, Provider) /\ Left(providers', providers, {p}) BY <1>1, <1>3, Deletes
<1>6. models' \in Table(Ids, Model) /\ Left(models', models, gone) BY <1>1, <1>2, <1>3, Deletes
<1>7. credentials' \in Table(Providers, Procs) /\ Left(credentials', credentials, {p})
  BY <1>1, <1>3, Deletes
<1>8. /\ answer' \in Table(Providers, Table(Identifiers, Metas))
      /\ Left(answer', answer, {p})
  BY <1>1, <1>3, Deletes
<1>9. TypeOK'
  <2>1. uses' \in [Agents -> Ids \cup {None}] BY <1>3 DEF Inv, TypeOK
  <2>2. deleted' \subseteq Providers \ DOMAIN providers' BY <1>3, <1>5 DEF Inv, TypeOK, Left
  <2>3. edited' \subseteq Ids BY <1>3 DEF Inv, TypeOK
  <2> QED BY <1>3, <1>5, <1>6, <1>7, <1>8, <2>1, <2>2, <2>3 DEF Inv, TypeOK
<1>10. KeyInv'
  <2>1. \A x \in DOMAIN credentials' : Stored(x)'
    BY <1>5, <1>7 DEF Left, Stored, Inv, KeyInv, CredentialsReadable
  <2> QED BY <1>3, <1>7, <2>1, KeysLeftAlone DEF Inv
<1>11. ProvidersSound'
  <2>1. \A q \in DOMAIN providers' : LocalOrCustom(providers'[q].kind) => providers'[q].url # None
    BY <1>5 DEF Left, Inv, ProvidersSound
  <2>2. \A x \in DOMAIN models' : Stored(x[1])'
    BY <1>4, <1>5, <1>6 DEF Left, Stored, Inv, ProvidersSound
  <2>3. \A a \in Agents : uses'[a] \in DOMAIN models' \cup {None}
    BY <1>3, <1>6 DEF Left, Inv, ProvidersSound
  <2> QED BY <2>1, <2>2, <2>3 DEF ProvidersSound
<1>12. CatalogueIsOneAnswer'
  <2> SUFFICES ASSUME NEW q \in DOMAIN answer', NEW i \in Identifiers, <<q, i>> \notin edited'
               PROVE  IF i \in DOMAIN answer'[q]
                      THEN /\ <<q, i>> \in DOMAIN models'
                           /\ models'[<<q, i>>].source = "discovered" =>
                                models'[<<q, i>>] = [source |-> "discovered", enabled |-> TRUE,
                                                     meta |-> answer'[q][i]]
                      ELSE <<q, i>> \in DOMAIN models' =>
                             models'[<<q, i>>].source = "manual" \/ ~models'[<<q, i>>].enabled
    BY DEF CatalogueIsOneAnswer
  <2>1. q \in DOMAIN answer /\ q # p /\ answer'[q] = answer[q] BY <1>8 DEF Left
  <2>2. <<q, i>> \notin edited BY <1>3, <2>1
  <2>3. /\ <<q, i>> \in DOMAIN models' <=> <<q, i>> \in DOMAIN models
        /\ <<q, i>> \in DOMAIN models => models'[<<q, i>>] = models[<<q, i>>]
    BY <1>4, <1>6, <2>1 DEF Left
  <2> QED BY <2>1, <2>2, <2>3 DEF Inv, CatalogueIsOneAnswer
<1> QED BY <1>9, <1>10, <1>11, <1>12 DEF Inv

-----------------------------------------------------------------------------
(* Requests that write models. *)

(* Models other than x stay, and what happened to x is known as an edit. *)
LEMMA ModelWritten ==
  ASSUME Inv, NEW x \in Ids, models' \in Table(Ids, Model), edited' = edited \cup {x},
         uses' \in [Agents -> Ids \cup {None}],
         \A y \in DOMAIN models : y # x => y \in DOMAIN models' /\ models'[y] = models[y],
         \A y \in DOMAIN models' : y # x => y \in DOMAIN models,
         x \in DOMAIN models' => Stored(x[1]),
         \A a \in Agents : uses'[a] \in DOMAIN models' \cup {None},
         UNCHANGED <<providers, deleted, credentials, disc, keys, answer>>
  PROVE  Inv'
<1> USE DEF keys
<1>1. TypeOK' BY DEF Inv, TypeOK
<1>2. KeyInv' BY DEF Inv, KeyInv, KeysTyped, KeySteps, CredentialsReadable, Stored
<1>3. ProvidersSound' BY DEF Inv, ProvidersSound, Stored
<1>4. CatalogueIsOneAnswer'
  <2> SUFFICES ASSUME NEW q \in DOMAIN answer, NEW i \in Identifiers, <<q, i>> \notin edited'
               PROVE  IF i \in DOMAIN answer[q]
                      THEN /\ <<q, i>> \in DOMAIN models'
                           /\ models'[<<q, i>>].source = "discovered" =>
                                models'[<<q, i>>] = [source |-> "discovered", enabled |-> TRUE,
                                                     meta |-> answer[q][i]]
                      ELSE <<q, i>> \in DOMAIN models' =>
                             models'[<<q, i>>].source = "manual" \/ ~models'[<<q, i>>].enabled
    BY DEF CatalogueIsOneAnswer
  <2>1. <<q, i>> \notin edited /\ <<q, i>> # x OBVIOUS
  <2>2. /\ <<q, i>> \in DOMAIN models' <=> <<q, i>> \in DOMAIN models
        /\ <<q, i>> \in DOMAIN models => models'[<<q, i>>] = models[<<q, i>>]
    BY <2>1
  <2> QED BY <2>1, <2>2 DEF Inv, CatalogueIsOneAnswer
<1> QED BY <1>1, <1>2, <1>3, <1>4 DEF Inv

LEMMA ModelCreateKeeps ==
  ASSUME Inv, NEW p \in Providers, NEW i \in Identifiers, NEW meta \in Metas, NEW enabled \in BOOLEAN,
         ModelCreate(p, i, meta, enabled)
  PROVE  Inv'
<1> DEFINE x == <<p, i>>
           row == [source |-> "manual", enabled |-> enabled, meta |-> meta]
<1>1. x \in Ids /\ row \in Model /\ x[1] = p BY DEF Ids, Model
<1>2. /\ models' = Insert(models, x, row) /\ edited' = edited \cup {x} /\ Stored(p)
      /\ UNCHANGED <<providers, deleted, credentials, uses, disc, keys, answer>>
  BY DEF ModelCreate
<1>3. models \in Table(Ids, Model) BY DEF Inv, TypeOK
<1> HIDE DEF x, row
<1>4. models' \in Table(Ids, Model) /\ Put(models', models, x, row) BY <1>1, <1>2, <1>3, Inserted
<1>5. /\ \A y \in DOMAIN models : y # x => y \in DOMAIN models' /\ models'[y] = models[y]
      /\ \A y \in DOMAIN models' : y # x => y \in DOMAIN models
      /\ DOMAIN models \subseteq DOMAIN models'
  BY <1>4 DEF Put
<1>6. uses' \in [Agents -> Ids \cup {None}] /\ \A a \in Agents : uses'[a] \in DOMAIN models' \cup {None}
  BY <1>2, <1>5 DEF Inv, TypeOK, ProvidersSound
<1> QED BY <1>1, <1>2, <1>4, <1>5, <1>6, ModelWritten

LEMMA ModelUpdateKeeps ==
  ASSUME Inv, NEW x \in Ids, NEW meta \in Metas, NEW enabled \in BOOLEAN, ModelUpdate(x, meta, enabled)
  PROVE  Inv'
<1> DEFINE row == [models[x] EXCEPT !.meta = meta, !.enabled = enabled]
<1>1. /\ x \in DOMAIN models /\ edited' = edited \cup {x}
      /\ UNCHANGED <<providers, deleted, credentials, uses, disc, keys, answer>>
  BY DEF ModelUpdate
<1>2. DOMAIN models \in SUBSET Ids /\ models \in [DOMAIN models -> Model] BY InTable DEF Inv, TypeOK
<1>3. row \in Model BY <1>1, <1>2 DEF Model
<1>4. models' = [models EXCEPT ![x] = row] BY <1>1, <1>2 DEF ModelUpdate
<1> HIDE DEF row
<1>5. /\ DOMAIN models' = DOMAIN models /\ models' \in [DOMAIN models -> Model]
      /\ \A y \in DOMAIN models : y # x => models'[y] = models[y]
  BY <1>1, <1>2, <1>3, <1>4
<1>6. models' \in Table(Ids, Model) BY <1>2, <1>5, InTable
<1>7. uses' \in [Agents -> Ids \cup {None}] /\ \A a \in Agents : uses'[a] \in DOMAIN models' \cup {None}
  BY <1>1, <1>5 DEF Inv, TypeOK, ProvidersSound
<1>8. Stored(x[1]) BY <1>1 DEF Inv, ProvidersSound
<1> QED BY <1>1, <1>5, <1>6, <1>7, <1>8, ModelWritten

LEMMA ModelDeleteKeeps ==
  ASSUME Inv, NEW x \in Ids, ModelDelete(x)
  PROVE  Inv'
<1>1. /\ x \in DOMAIN models /\ models' = Delete(models, {x}) /\ edited' = edited \cup {x}
      /\ uses' = [a \in Agents |-> IF uses[a] = x THEN None ELSE uses[a]]
      /\ UNCHANGED <<providers, deleted, credentials, disc, keys, answer>>
  BY DEF ModelDelete
<1>2. models' \in Table(Ids, Model) /\ Left(models', models, {x})
  BY <1>1, Deletes DEF Inv, TypeOK
<1>3. /\ \A y \in DOMAIN models : y # x => y \in DOMAIN models' /\ models'[y] = models[y]
      /\ \A y \in DOMAIN models' : y # x => y \in DOMAIN models
      /\ x \notin DOMAIN models'
  BY <1>2 DEF Left
<1>4. uses' \in [Agents -> Ids \cup {None}] BY <1>1 DEF Inv, TypeOK
<1>5. \A a \in Agents : uses'[a] \in DOMAIN models' \cup {None} BY <1>1, <1>3 DEF Inv, ProvidersSound
<1> QED BY <1>1, <1>2, <1>3, <1>4, <1>5, ModelWritten

(* An agent is given a model that exists, or none. *)
LEMMA AgentUsesKeeps ==
  ASSUME Inv, NEW a \in Agents, NEW x \in Ids \cup {None}, AgentUses(a, x)
  PROVE  Inv'
<1>1. /\ x \in DOMAIN models \cup {None} /\ uses' = [uses EXCEPT ![a] = x]
      /\ UNCHANGED <<providers, deleted, models, credentials, disc, file, proc, answer, edited>>
  BY DEF AgentUses, keys
<1>2. TypeOK' BY <1>1 DEF Inv, TypeOK
<1>3. KeyInv' BY <1>1 DEF Inv, KeyInv, KeysTyped, KeySteps, CredentialsReadable, Stored
<1>4. ProvidersSound' BY <1>1 DEF Inv, TypeOK, ProvidersSound, Stored
<1>5. CatalogueIsOneAnswer' BY <1>1 DEF Inv, CatalogueIsOneAnswer
<1> QED BY <1>2, <1>3, <1>4, <1>5 DEF Inv

LEMMA ModelKeeps == Inv /\ ModelRequest => Inv'
<1> SUFFICES ASSUME Inv, ModelRequest PROVE Inv' OBVIOUS
<1>1. ASSUME NEW p \in Providers, NEW i \in Identifiers, NEW meta \in Metas, NEW enabled \in BOOLEAN,
             ModelUpdate(<<p, i>>, meta, enabled)
      PROVE  Inv'
  <2>1. <<p, i>> \in Ids BY DEF Ids
  <2> QED BY <1>1, <2>1, ModelUpdateKeeps
<1> QED BY <1>1, ModelCreateKeeps, ModelDeleteKeeps, AgentUsesKeeps DEF ModelRequest

-----------------------------------------------------------------------------
(* Discoveries. *)

(* What storing an answer does to the models. *)
LEMMA StoredAnswer ==
  ASSUME Inv, NEW s \in Slots, NEW items \in Answers, DiscoverStore(s, items), Stored(disc[s])
  PROVE  /\ disc[s] \in Providers /\ dedupe(items) \in Table(Identifiers, Metas)
         /\ models' \in Table(Ids, Model) /\ Reconciled(models', disc[s], dedupe(items), models)
<1>1. disc[s] \in Providers /\ ~Malformed(items) /\ models' = Reconcile(disc[s], dedupe(items), models)
  BY DEF DiscoverStore, Inv, TypeOK
<1>2. dedupe(items) \in Table(Identifiers, Metas) BY <1>1, Deduped
<1>3. models \in Table(Ids, Model) BY DEF Inv, TypeOK
<1> QED BY <1>1, <1>2, <1>3, ReconcileWorks

LEMMA DiscoverStoreKeeps ==
  ASSUME Inv, NEW s \in Slots, NEW items \in Answers, DiscoverStore(s, items)
  PROVE  Inv'
<1> DEFINE p == disc[s]
           listed == dedupe(items)
<1>1. disc' \in [Slots -> Providers \cup {None}] BY DEF DiscoverStore, Inv, TypeOK
<1>2. CASE ~Stored(p)
  <2>1. UNCHANGED <<data, keys, answer, edited>> BY <1>2 DEF DiscoverStore, data
  <2> QED BY <1>1, <2>1, OnlyDiscoveries
<1>3. CASE Stored(p)
  <2>1. /\ p \in Providers /\ listed \in Table(Identifiers, Metas)
        /\ models' \in Table(Ids, Model) /\ Reconciled(models', p, listed, models)
    BY <1>3, StoredAnswer
  <2>2. /\ answer' = Insert(answer, p, listed) /\ edited' = {x \in edited : x[1] # p}
        /\ UNCHANGED <<providers, deleted, credentials, uses, file, proc>>
    BY <1>3 DEF DiscoverStore, keys
  <2> HIDE DEF p, listed
  <2>3. /\ answer' \in Table(Providers, Table(Identifiers, Metas))
        /\ Put(answer', answer, p, listed)
    BY <2>1, <2>2, Inserted DEF Inv, TypeOK
  <2>4. DOMAIN listed \subseteq Identifiers BY <2>1, InTable
  <2>5. DOMAIN models \subseteq DOMAIN models' BY <2>1 DEF Reconciled
  <2>6. TypeOK' BY <1>1, <2>1, <2>2, <2>3 DEF Inv, TypeOK
  <2>7. KeyInv' BY <2>2 DEF Inv, KeyInv, KeysTyped, KeySteps, CredentialsReadable, Stored
  <2>8. ProvidersSound'
    <3>1. \A x \in DOMAIN models' : Stored(x[1])
      BY <1>3, <2>1 DEF Reconciled, Here, Inv, ProvidersSound
    <3> QED BY <2>2, <2>5, <3>1 DEF Inv, ProvidersSound, Stored
  <2>9. CatalogueIsOneAnswer'
    <3> SUFFICES ASSUME NEW q \in DOMAIN answer', NEW i \in Identifiers, <<q, i>> \notin edited'
                 PROVE  IF i \in DOMAIN answer'[q]
                        THEN /\ <<q, i>> \in DOMAIN models'
                             /\ models'[<<q, i>>].source = "discovered" =>
                                  models'[<<q, i>>] = [source |-> "discovered", enabled |-> TRUE,
                                                       meta |-> answer'[q][i]]
                        ELSE <<q, i>> \in DOMAIN models' =>
                               models'[<<q, i>>].source = "manual" \/ ~models'[<<q, i>>].enabled
      BY DEF CatalogueIsOneAnswer
    <3> DEFINE x == <<q, i>>
    <3>0. x[1] = q /\ x[2] = i OBVIOUS
    <3>1. CASE q = p
      <4>1. answer'[q] = listed BY <2>3, <3>1 DEF Put
      <4>2. x \in Here(p, listed) <=> i \in DOMAIN listed BY <3>1 DEF Here
      <4> HIDE DEF x
      <4>3. CASE i \in DOMAIN listed
        <5>1. x \in DOMAIN models'
              /\ (models'[x].source = "manual"
                  \/ models'[x] = [source |-> "discovered", enabled |-> TRUE, meta |-> listed[x[2]]])
          BY <2>1, <4>2, <4>3 DEF Reconciled
        <5> QED BY <3>0, <4>1, <4>3, <5>1 DEF x
      <4>4. CASE i \notin DOMAIN listed
        <5>1. x \in DOMAIN models' => models'[x].source = "manual" \/ ~models'[x].enabled
          BY <2>1, <3>0, <3>1, <4>2, <4>4 DEF Reconciled
        <5> QED BY <4>1, <4>4, <5>1 DEF x
      <4> QED BY <4>3, <4>4
    <3>2. CASE q # p
      <4>1. q \in DOMAIN answer /\ answer'[q] = answer[q] BY <2>3, <3>2 DEF Put
      <4>2. x \notin edited /\ x \notin Here(p, listed) BY <2>2, <3>2 DEF Here
      <4>3. /\ x \in DOMAIN models' <=> x \in DOMAIN models
            /\ x \in DOMAIN models => models'[x] = models[x]
        BY <2>1, <3>0, <3>2, <4>2 DEF Reconciled
      <4> QED BY <4>1, <4>2, <4>3 DEF Inv, CatalogueIsOneAnswer
    <3> QED BY <3>1, <3>2
  <2> QED BY <2>6, <2>7, <2>8, <2>9 DEF Inv
<1> QED BY <1>2, <1>3

(* Every step keeps the invariant. *)
LEMMA InvNext == Inv /\ [Next]_vars => Inv'
<1> SUFFICES ASSUME Inv, [Next]_vars PROVE Inv' OBVIOUS
<1>1. disc \in [Slots -> Providers \cup {None}] BY DEF Inv, TypeOK
<1>2. CASE UNCHANGED vars BY <1>1, <1>2, OnlyDiscoveries DEF vars
<1>3. CASE ProviderRequest
  BY <1>3, ProviderWritten, CredentialRemoveKeeps, ProviderRemoveKeeps DEF ProviderRequest
<1>4. ASSUME NEW s \in Slots, NEW items \in Answers, DiscoverMalformed(s, items) PROVE Inv'
  BY <1>1, <1>4, OnlyDiscoveries DEF DiscoverMalformed
<1>5. ASSUME NEW s \in Slots, DiscoverFails(s) PROVE Inv'
  BY <1>1, <1>5, OnlyDiscoveries DEF DiscoverFails
<1>6. ASSUME NEW s \in Slots, NEW q \in Procs, NEW p \in Providers, Discover(s, q, p) PROVE Inv'
  BY <1>1, <1>6, OnlyDiscoveries DEF Discover
<1> QED BY <1>2, <1>3, <1>4, <1>5, <1>6, ModelKeeps, KeyStepKeeps, DiscoverStoreKeeps DEF Next, Answered

LEMMA Invariant == Spec => []Inv
BY InvInit, InvNext, PTL DEF Spec

-----------------------------------------------------------------------------
(* The same answer again. *)

(* A table with the answer in it stays as it is. *)
LEMMA AgainTheSame ==
  ASSUME NEW p \in Providers, NEW listed \in Table(Identifiers, Metas), NEW table \in Table(Ids, Model),
         Here(p, listed) \subseteq DOMAIN table,
         \A x \in Here(p, listed) :
           \/ table[x].source = "manual"
           \/ table[x] = [source |-> "discovered", enabled |-> TRUE, meta |-> listed[x[2]]],
         \A x \in DOMAIN table \ Here(p, listed) :
           x[1] = p => table[x].source = "manual" \/ ~table[x].enabled
  PROVE  Reconcile(p, listed, table) = table
<1> DEFINE here == Here(p, listed)
           after == Reconcile(p, listed, table)
<1>1. table \in [DOMAIN table -> Model] BY InTable
<1>2. /\ after = [x \in DOMAIN table \cup here |-> after[x]]
      /\ \A x \in here : x \in DOMAIN table => after[x] = Listed(table[x], listed[x[2]])
      /\ \A x \in DOMAIN table \ here : x[1] = p => after[x] = Missing(table[x])
      /\ \A x \in DOMAIN table \ here : x[1] # p => after[x] = table[x]
  BY DEF Reconcile, Here
<1>3. DOMAIN table \cup here = DOMAIN table OBVIOUS
<1> HIDE DEF here, after
<1>4. ASSUME NEW x \in DOMAIN table PROVE after[x] = table[x]
  <2>0. table[x] \in Model BY <1>1
  <2>1. CASE x \in here
    <3>1. after[x] = Listed(table[x], listed[x[2]]) BY <1>2, <2>1
    <3>2. \/ table[x].source = "manual"
          \/ table[x] = [source |-> "discovered", enabled |-> TRUE, meta |-> listed[x[2]]]
      BY <2>1 DEF here
    <3>3. CASE table[x].source = "manual" BY <3>1, <3>3 DEF Listed
    <3>4. CASE table[x] = [source |-> "discovered", enabled |-> TRUE, meta |-> listed[x[2]]]
      <4>1. table[x].source # "manual" BY <3>4
      <4>2. after[x] = [table[x] EXCEPT !.enabled = TRUE, !.meta = listed[x[2]]]
        BY <3>1, <4>1 DEF Listed
      <4>3. table[x].enabled = TRUE /\ table[x].meta = listed[x[2]] BY <3>4
      <4>4. [table[x] EXCEPT !.enabled = TRUE, !.meta = listed[x[2]]] = table[x]
        BY <2>0, <4>3 DEF Model
      <4> QED BY <4>2, <4>4
    <3> QED BY <3>2, <3>3, <3>4
  <2>2. CASE x \notin here /\ x[1] = p
    <3>1. after[x] = Missing(table[x]) BY <1>2, <2>2
    <3>2. table[x].source = "manual" \/ ~table[x].enabled BY <2>2 DEF here
    <3>3. CASE table[x].source = "manual" BY <3>1, <3>3 DEF Missing
    <3>4. CASE table[x].source # "manual"
      <4>1. after[x] = [table[x] EXCEPT !.enabled = FALSE] /\ table[x].enabled = FALSE
        BY <2>0, <3>1, <3>2, <3>4 DEF Missing, Model
      <4> QED BY <2>0, <4>1 DEF Model
    <3> QED BY <3>3, <3>4
  <2>3. CASE x \notin here /\ x[1] # p BY <1>2, <2>3
  <2> QED BY <2>1, <2>2, <2>3
<1> QED BY <1>1, <1>2, <1>3, <1>4 DEF after

(* A model of the provider or of the answer is in exactly one of the four  *)
(* lists of the summary.                                                   *)
LEMMA CountedOnce ==
  ASSUME NEW p \in Providers, NEW listed \in Table(Identifiers, Metas), NEW table \in Table(Ids, Model),
         NEW x, NEW after, NEW first, after = Reconcile(p, listed, table),
         first = Summary(p, listed, table), x \in OfProvider(after, p)
  PROVE  Cardinality({f \in DOMAIN first : x \in first[f]}) = 1
<1> DEFINE here == Here(p, listed)
           old == OfProvider(table, p)
<1>1. /\ DOMAIN first = {"added", "updated", "disabled", "unchanged"}
      /\ first["added"] = here \ old
      /\ first["updated"] = {y \in here \cap old : after[y] # table[y]}
      /\ first["disabled"] = {y \in old \ here : after[y] # table[y]}
      /\ first["unchanged"] = {y \in old : after[y] = table[y]}
  BY DEF Summary, Here
<1>2. x \in here \cup old
  <2>1. DOMAIN after = DOMAIN table \cup here BY DEF Reconcile, Here
  <2> QED BY <2>1 DEF OfProvider
<1> HIDE DEF here, old
<1>3. \E f : {g \in DOMAIN first : x \in first[g]} = {f}
  <2>1. CASE x \notin old
    <3>1. x \in first["added"] /\ x \notin first["updated"] /\ x \notin first["disabled"]
          /\ x \notin first["unchanged"]
      BY <1>1, <1>2, <2>1
    <3>2. {g \in DOMAIN first : x \in first[g]} = {"added"} BY <1>1, <3>1
    <3> QED BY <3>2
  <2>2. CASE x \in old /\ after[x] = table[x]
    <3>1. x \in first["unchanged"] /\ x \notin first["updated"] /\ x \notin first["disabled"]
          /\ x \notin first["added"]
      BY <1>1, <2>2
    <3>2. {g \in DOMAIN first : x \in first[g]} = {"unchanged"} BY <1>1, <3>1
    <3> QED BY <3>2
  <2>3. CASE x \in old /\ x \in here /\ after[x] # table[x]
    <3>1. x \in first["updated"] /\ x \notin first["unchanged"] /\ x \notin first["disabled"]
          /\ x \notin first["added"]
      BY <1>1, <2>3
    <3>2. {g \in DOMAIN first : x \in first[g]} = {"updated"} BY <1>1, <3>1
    <3> QED BY <3>2
  <2>4. CASE x \in old /\ x \notin here /\ after[x] # table[x]
    <3>1. x \in first["disabled"] /\ x \notin first["unchanged"] /\ x \notin first["updated"]
          /\ x \notin first["added"]
      BY <1>1, <2>4
    <3>2. {g \in DOMAIN first : x \in first[g]} = {"disabled"} BY <1>1, <3>1
    <3> QED BY <3>2
  <2> QED BY <2>1, <2>2, <2>3, <2>4
<1> QED BY <1>3, FS_Singleton

LEMMA Idempotent == TypeOK => DiscoveryIdempotent
<1> SUFFICES ASSUME TypeOK, NEW p \in Providers, NEW items \in Answers, ~Malformed(items),
                    NEW listed, listed = dedupe(items), NEW first, first = Summary(p, listed, models),
                    NEW after, after = Reconcile(p, listed, models)
             PROVE  /\ Reconcile(p, listed, after) = after
                    /\ Summary(p, listed, after).unchanged = OfProvider(after, p)
                    /\ \A x \in OfProvider(after, p) :
                         Cardinality({f \in DOMAIN first : x \in first[f]}) = 1
  BY DEF DiscoveryIdempotent
<1>1. listed \in Table(Identifiers, Metas) /\ models \in Table(Ids, Model) BY Deduped DEF TypeOK
<1>2. after \in Table(Ids, Model) /\ Reconciled(after, p, listed, models) BY <1>1, ReconcileWorks
<1>3. /\ Here(p, listed) \subseteq DOMAIN after
      /\ \A x \in Here(p, listed) :
           \/ after[x].source = "manual"
           \/ after[x] = [source |-> "discovered", enabled |-> TRUE, meta |-> listed[x[2]]]
  BY <1>2 DEF Reconciled
<1>4. \A x \in DOMAIN after \ Here(p, listed) :
        x[1] = p => after[x].source = "manual" \/ ~after[x].enabled
  BY <1>2 DEF Reconciled
<1>5. Reconcile(p, listed, after) = after BY <1>1, <1>2, <1>3, <1>4, AgainTheSame
<1>6. Summary(p, listed, after).unchanged = OfProvider(after, p)
  <2>1. Summary(p, listed, after).unchanged
          = {x \in OfProvider(after, p) : Reconcile(p, listed, after)[x] = after[x]}
    BY DEF Summary
  <2> QED BY <1>5, <2>1
<1>7. \A x \in OfProvider(after, p) : Cardinality({f \in DOMAIN first : x \in first[f]}) = 1
  BY <1>1, CountedOnce
<1> QED BY <1>5, <1>6, <1>7

-----------------------------------------------------------------------------
(* The theorems. *)

(* Every table and every process keeps its shape; an id that was deleted   *)
(* does not come back.                                                     *)
THEOREM TypeInvariant == Spec => []TypeOK
<1>1. Inv => TypeOK BY DEF Inv
<1> QED BY <1>1, Invariant, PTL

(* The key that a credential was encrypted with is the one in the file,    *)
(* and so is every key in memory, for any number of processes that create  *)
(* the file at the same time and are killed at any step.                   *)
THEOREM CredentialsCanBeRead == Spec => []CredentialsReadable
<1>1. Inv => CredentialsReadable BY DEF Inv, KeyInv
<1> QED BY <1>1, Invariant, PTL

(* Overlapping discoveries never mix: the models of a provider are those   *)
(* of its last stored answer but for manual ones and the user's edits.     *)
THEOREM OneAnswer == Spec => []CatalogueIsOneAnswer
<1>1. Inv => CatalogueIsOneAnswer BY DEF Inv
<1> QED BY <1>1, Invariant, PTL

(* Providers that need an address have one; no model and no agent refers   *)
(* to a row that is gone.                                                  *)
THEOREM ProvidersAreSound == Spec => []ProvidersSound
<1>1. Inv => ProvidersSound BY DEF Inv
<1> QED BY <1>1, Invariant, PTL

(* Reconciling an answer a second time changes nothing and says so, and    *)
(* the four counts of a summary add up, for every well-formed answer.      *)
THEOREM DiscoveryIsIdempotent == Spec => []DiscoveryIdempotent
BY TypeInvariant, Idempotent, PTL

(* From its start to its end a discovery deletes no model, writes no manual*)
(* one and takes none away from an agent.                                  *)
THEOREM DiscoveriesRespect == Spec => DiscoveryRespects
<1> DEFINE Respects == disc' # disc =>
             /\ DOMAIN models \subseteq DOMAIN models'
             /\ \A x \in DOMAIN models : models[x].source = "manual" => models'[x] = models[x]
             /\ uses' = uses
<1>1. Inv /\ [Next]_vars => [Respects]_vars
  <2> SUFFICES ASSUME Inv, Next, disc' # disc
               PROVE  /\ DOMAIN models \subseteq DOMAIN models'
                      /\ \A x \in DOMAIN models : models[x].source = "manual" => models'[x] = models[x]
                      /\ uses' = uses
    OBVIOUS
  <2>1. ~ProviderRequest /\ ~ModelRequest /\ ~KeyStep
    BY ZenonT(60) DEF ProviderRequest, ModelRequest, KeyStep, ProviderCreate, ProviderUpdate, ProviderRemove,
      CredentialRemove, ModelCreate, ModelUpdate, ModelDelete, AgentUses, LoadKey, OpenKey, WriteKey,
      Kill, CredentialSet
  <2>2. UNCHANGED data \/ \E s \in Slots, items \in Answers : DiscoverStore(s, items)
    BY <2>1 DEF Next, Answered, DiscoverFails, DiscoverMalformed, Discover
  <2>3. CASE UNCHANGED data BY <2>3 DEF data
  <2>4. ASSUME NEW s \in Slots, NEW items \in Answers, DiscoverStore(s, items), ~UNCHANGED data
        PROVE  /\ DOMAIN models \subseteq DOMAIN models'
               /\ \A x \in DOMAIN models : models[x].source = "manual" => models'[x] = models[x]
               /\ uses' = uses
    <3>1. Stored(disc[s]) /\ uses' = uses BY <2>4 DEF DiscoverStore, data
    <3>2. Reconciled(models', disc[s], dedupe(items), models) BY <2>4, <3>1, StoredAnswer
    <3> QED BY <3>1, <3>2 DEF Reconciled
  <2> QED BY <2>2, <2>3, <2>4
<1> QED BY <1>1, Invariant, PTL DEF Spec, DiscoveryRespects
=============================================================================
