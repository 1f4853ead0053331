------------------------------ MODULE Catalog -------------------------------
(***************************************************************************)
(* Providers, their models and their credentials.  A discovery reads the   *)
(* provider, waits for its answer and reconciles the answer with the models*)
(* table in one transaction; the user edits, registers and deletes while it*)
(* waits, and several discoveries overlap.                                 *)
(*                                                                         *)
(* Credentials are encrypted with a master key that is created on first    *)
(* use.  Two processes can share one data directory: each keeps the key in *)
(* memory, and the steps of creating the file interleave.                  *)
(*                                                                         *)
(* Ids are UUIDs: a provider that was deleted does not come back.  A model *)
(* is known by provider and identifier, which the table keeps unique.      *)
(***************************************************************************)
EXTENDS Integers, Sequences, FiniteSets, Tables

CONSTANTS
  Providers, Identifiers, Agents,
  Metas,      \* what a provider says of a model: name, window, defaults
  Urls,
  Slots,      \* slots for discoveries
  Procs,      \* processes on one data directory
  MaxAnswer,  \* bound: models in an answer
  None, Blank \* NULL; an item of an answer without identifier or name

ASSUME CatalogAssumption ==
  /\ MaxAnswer \in Nat
  /\ None \notin Urls \cup Procs
  /\ "partial" \notin Procs /\ None # "partial"
  /\ Blank \notin Metas

VARIABLES
  providers,   \* the rows of the providers table
  deleted,     \* the ids of providers that were deleted
  models,      \* the rows of the models table
  credentials, \* the key each stored credential was encrypted with
  uses,        \* agents.model_id
  disc,        \* the discoveries under way: the provider asked, or None
  file,        \* the master key file: None, "partial", or the process whose key it holds
  proc,        \* each process: the key in memory, where it is in creating one
  answer,      \* history: the answer last stored for a provider
  edited       \* history: models the user wrote or deleted since

data == <<providers, deleted, models, credentials, uses>>
keys == <<file, proc>>
vars == <<data, disc, keys, answer, edited>>

(* Six kinds, by what the code tells apart: anthropic, openai and google;  *)
(* openai_compatible; ollama and lmstudio.                                 *)
Kinds == {"hosted", "custom", "local"}
LocalOrCustom(kind) == kind \in {"custom", "local"}

Provider == [kind : Kinds, url : Urls \cup {None}]
Model == [source : {"discovered", "manual"}, enabled : BOOLEAN, meta : Metas]
Ids == Providers \X Identifiers
Stored(p) == p \in DOMAIN providers

TypeOK ==
  /\ providers \in Table(Providers, Provider)
  /\ deleted \subseteq Providers \ DOMAIN providers
  /\ models \in Table(Ids, Model)
  /\ credentials \in Table(Providers, Procs)
  /\ uses \in [Agents -> Ids \cup {None}]
  /\ disc \in [Slots -> Providers \cup {None}]
  /\ file \in Procs \cup {None, "partial"}
  /\ proc \in [Procs -> [key : Procs \cup {None}, at : {"none", "creating", "writing"}]]
  /\ answer \in Table(Providers, Table(Identifiers, Metas))
  /\ edited \subseteq Ids

Init ==
  /\ providers = Empty /\ deleted = {} /\ models = Empty /\ credentials = Empty
  /\ uses = [a \in Agents |-> None]
  /\ disc = [s \in Slots |-> None]
  /\ file = None
  /\ proc = [q \in Procs |-> [key |-> None, at |-> "none"]]
  /\ answer = Empty /\ edited = {}

(* Some process is free to serve a request: all requests but those that    *)
(* say which process serves them.                                          *)
Served == \E q \in Procs : proc[q].at = "none"

-----------------------------------------------------------------------------
(* Providers. *)

(* Mutant of assertBaseUrl: the address is checked for local kinds only. *)
assertBaseUrlOfLocal(kind, url) == kind = "local" => url # None

assertBaseUrl(kind, url) == LocalOrCustom(kind) => url # None

ProviderCreate(p, kind, url) ==
  /\ Served
  /\ ~Stored(p) /\ p \notin deleted
  /\ assertBaseUrl(kind, url)
  /\ providers' = Insert(providers, p, [kind |-> kind, url |-> url])
  /\ UNCHANGED <<deleted, models, credentials, uses, disc, keys, answer, edited>>

(* The values after the update; those the request leaves out are the row's. *)
ProviderUpdate(p, kind, url) ==
  /\ Served
  /\ Stored(p)
  /\ assertBaseUrl(kind, url)
  /\ providers' = [providers EXCEPT ![p] = [kind |-> kind, url |-> url]]
  /\ providers' # providers
  /\ UNCHANGED <<deleted, models, credentials, uses, disc, keys, answer, edited>>

(* Models and credential go with the provider, references to the models    *)
(* become NULL.                                                            *)
ProviderRemove(p) ==
  LET gone == {x \in DOMAIN models : x[1] = p} IN
  /\ Served
  /\ Stored(p)
  /\ providers' = Delete(providers, {p}) /\ deleted' = deleted \cup {p}
  /\ models' = Delete(models, gone)
  /\ credentials' = Delete(credentials, {p})
  /\ uses' = [a \in Agents |-> IF uses[a] \in gone THEN None ELSE uses[a]]
  /\ answer' = Delete(answer, {p})
  /\ edited' = {x \in edited : x[1] # p}
  /\ UNCHANGED <<disc, keys>>

-----------------------------------------------------------------------------
(* The master key: memory, then the file, then a new one. *)

(* existsSync: a file cut short is no key, and the request fails. *)
LoadKey(q) ==
  /\ proc[q] = [key |-> None, at |-> "none"]
  /\ file # "partial"
  /\ proc' = [proc EXCEPT ![q] = IF file = None THEN [@ EXCEPT !.at = "creating"]
                                 ELSE [@ EXCEPT !.key = file]]
  /\ UNCHANGED <<data, disc, file, answer, edited>>

(* Mutant of OpenKey: the file is opened without the wx flag. *)
OpenKeyOver(q) ==
  /\ proc[q].at = "creating"
  /\ file' = "partial"
  /\ proc' = [proc EXCEPT ![q].at = "writing"]
  /\ UNCHANGED <<data, disc, answer, edited>>

(* Mutant of OpenKey: what the winner's file holds is not validated. *)
OpenKeyUnchecked(q) ==
  /\ proc[q].at = "creating"
  /\ IF file = None
     THEN file' = "partial" /\ proc' = [proc EXCEPT ![q].at = "writing"]
     ELSE proc' = [proc EXCEPT ![q] = [key |-> file, at |-> "none"]] /\ UNCHANGED file
  /\ UNCHANGED <<data, disc, answer, edited>>

(* With wx only one process creates the file; the other reads it, and fails*)
(* if it is not written yet.                                               *)
OpenKey(q) ==
  /\ proc[q].at = "creating"
  /\ IF file = None
     THEN file' = "partial" /\ proc' = [proc EXCEPT ![q].at = "writing"]
     ELSE /\ proc' = [proc EXCEPT ![q] = [key |-> IF file = "partial" THEN None ELSE file, at |-> "none"]]
          /\ UNCHANGED file
  /\ UNCHANGED <<data, disc, answer, edited>>

WriteKey(q) ==
  /\ proc[q].at = "writing"
  /\ file' = q
  /\ proc' = [proc EXCEPT ![q] = [key |-> q, at |-> "none"]]
  /\ UNCHANGED <<data, disc, answer, edited>>

(* A process ends, wherever it is; it forgets its key. *)
Kill(q) ==
  /\ proc[q] # [key |-> None, at |-> "none"]
  /\ proc' = [proc EXCEPT ![q] = [key |-> None, at |-> "none"]]
  /\ UNCHANGED <<data, disc, file, answer, edited>>

-----------------------------------------------------------------------------
(* Credentials. *)

encrypt(q) == proc[q].key
decrypts(q, p) == proc[q].at = "none" /\ proc[q].key # None /\ credentials[p] = proc[q].key

CredentialSet(q, p) ==
  /\ proc[q].at = "none" /\ proc[q].key # None
  /\ Stored(p)
  /\ credentials' = Insert(credentials, p, encrypt(q))
  /\ UNCHANGED <<providers, deleted, models, uses, disc, keys, answer, edited>>

CredentialRemove(p) ==
  /\ Served
  /\ Stored(p) /\ p \in DOMAIN credentials
  /\ credentials' = Delete(credentials, {p})
  /\ UNCHANGED <<providers, deleted, models, uses, disc, keys, answer, edited>>

-----------------------------------------------------------------------------
(* Models, and the agents that use them. *)

ModelCreate(p, i, meta, enabled) ==
  /\ Served
  /\ Stored(p) /\ <<p, i>> \notin DOMAIN models
  /\ models' = Insert(models, <<p, i>>, [source |-> "manual", enabled |-> enabled, meta |-> meta])
  /\ edited' = edited \cup {<<p, i>>}
  /\ UNCHANGED <<providers, deleted, credentials, uses, disc, keys, answer>>

(* provider, identifier and source cannot be changed. *)
ModelUpdate(x, meta, enabled) ==
  /\ Served
  /\ x \in DOMAIN models
  /\ models' = [models EXCEPT ![x].meta = meta, ![x].enabled = enabled]
  /\ models' # models
  /\ edited' = edited \cup {x}
  /\ UNCHANGED <<providers, deleted, credentials, uses, disc, keys, answer>>

ModelDelete(x) ==
  /\ Served
  /\ x \in DOMAIN models
  /\ models' = Delete(models, {x})
  /\ uses' = [a \in Agents |-> IF uses[a] = x THEN None ELSE uses[a]]
  /\ edited' = edited \cup {x}
  /\ UNCHANGED <<providers, deleted, credentials, disc, keys, answer>>

AgentUses(a, x) ==
  /\ Served
  /\ x \in DOMAIN models \cup {None} /\ x # uses[a]
  /\ uses' = [uses EXCEPT ![a] = x]
  /\ UNCHANGED <<providers, deleted, models, credentials, disc, keys, answer, edited>>

-----------------------------------------------------------------------------
(* Discovery. *)

(* A local or custom provider needs its address, a hosted one a credential *)
(* that can be read; a credential that is there is always read.            *)
Discover(s, q, p) ==
  /\ disc[s] = None
  /\ Stored(p)
  /\ assertBaseUrl(providers[p].kind, providers[p].url)
  /\ IF p \in DOMAIN credentials THEN decrypts(q, p) ELSE LocalOrCustom(providers[p].kind)
  /\ disc' = [disc EXCEPT ![s] = p]
  /\ UNCHANGED <<data, keys, answer, edited>>

(* The adapter cannot discover, fails, or the deadline passes. *)
DiscoverFails(s) ==
  /\ Served
  /\ disc[s] # None
  /\ disc' = [disc EXCEPT ![s] = None]
  /\ UNCHANGED <<data, keys, answer, edited>>

Items == (Identifiers \X Metas) \cup {Blank}
Answers == UNION {[1..n -> Items] : n \in 0..MaxAnswer}
Malformed(items) == \E k \in DOMAIN items : items[k] = Blank

DiscoverMalformed(s, items) ==
  /\ Served
  /\ disc[s] # None
  /\ Malformed(items)
  /\ disc' = [disc EXCEPT ![s] = None]
  /\ UNCHANGED <<data, keys, answer, edited>>

(* The first item of each identifier. *)
dedupe(items) ==
  [i \in {items[k][1] : k \in DOMAIN items} |->
     items[CHOOSE k \in DOMAIN items : items[k][1] = i /\ \A j \in DOMAIN items : items[j][1] = i => k <= j][2]]

OfProvider(table, p) == {x \in DOMAIN table : x[1] = p}

(* Mutant of Listed: a manual model is brought up to date like any other. *)
ListedManual(row, meta) == [row EXCEPT !.enabled = TRUE, !.meta = meta]

(* Mutant of Listed: a disabled model stays as it is. *)
ListedKept(row, meta) ==
  IF row.source = "discovered" /\ row.enabled THEN [row EXCEPT !.meta = meta] ELSE row

(* A listed model: a manual one is never written; a discovered one takes   *)
(* what the provider says and is enabled, whoever disabled it.             *)
Listed(row, meta) ==
  IF row.source = "manual" THEN row ELSE [row EXCEPT !.enabled = TRUE, !.meta = meta]

(* A model the provider no longer lists is disabled, never deleted. *)
Missing(row) == IF row.source = "manual" THEN row ELSE [row EXCEPT !.enabled = FALSE]

Reconcile(p, listed, table) ==
  LET here == {<<p, i>> : i \in DOMAIN listed}
  IN  [x \in DOMAIN table \cup here |->
         IF x \in here \ DOMAIN table
         THEN [source |-> "discovered", enabled |-> TRUE, meta |-> listed[x[2]]]
         ELSE IF x \in here THEN Listed(table[x], listed[x[2]])
         ELSE IF x[1] = p THEN Missing(table[x])
         ELSE table[x]]

(* Mutant of Summary: every absent model is reported as disabled now. *)
SummaryAll(p, listed, table) ==
  LET after == Reconcile(p, listed, table)
      here  == {<<p, i>> : i \in DOMAIN listed}
      old   == OfProvider(table, p)
  IN  [added     |-> here \ old,
       updated   |-> {x \in here \cap old : after[x] # table[x]},
       disabled  |-> old \ here,
       unchanged |-> {x \in old : after[x] = table[x]}]

(* The summary: every model of the answer or of the provider counts once.  *)
Summary(p, listed, table) ==
  LET after == Reconcile(p, listed, table)
      here  == {<<p, i>> : i \in DOMAIN listed}
      old   == OfProvider(table, p)
  IN  [added     |-> here \ old,
       updated   |-> {x \in here \cap old : after[x] # table[x]},
       disabled  |-> {x \in old \ here : after[x] # table[x]},
       unchanged |-> {x \in old : after[x] = table[x]}]

(* The rows are read again inside the transaction.  A provider deleted     *)
(* meanwhile has no rows, and an insert for it fails on the foreign key.   *)
DiscoverStore(s, items) ==
  LET p == disc[s]  listed == dedupe(items) IN
  /\ Served
  /\ p # None
  /\ ~Malformed(items)
  /\ disc' = [disc EXCEPT ![s] = None]
  /\ IF Stored(p)
     THEN /\ models' = Reconcile(p, listed, models)
          /\ answer' = Insert(answer, p, listed)
          /\ edited' = {x \in edited : x[1] # p}
     ELSE UNCHANGED <<models, answer, edited>>
  /\ UNCHANGED <<providers, deleted, credentials, uses, keys>>

-----------------------------------------------------------------------------
ProviderRequest ==
  \/ \E p \in Providers, kind \in Kinds, url \in Urls \cup {None} :
       ProviderCreate(p, kind, url) \/ ProviderUpdate(p, kind, url)
  \/ \E p \in Providers : ProviderRemove(p) \/ CredentialRemove(p)

ModelRequest ==
  \/ \E p \in Providers, i \in Identifiers, meta \in Metas, enabled \in BOOLEAN :
       ModelCreate(p, i, meta, enabled) \/ ModelUpdate(<<p, i>>, meta, enabled)
  \/ \E x \in Ids : ModelDelete(x)
  \/ \E a \in Agents, x \in Ids \cup {None} : AgentUses(a, x)

Answered ==
  \E s \in Slots, items \in Answers : DiscoverMalformed(s, items) \/ DiscoverStore(s, items)

KeyStep ==
  \/ \E q \in Procs : LoadKey(q) \/ OpenKey(q) \/ WriteKey(q) \/ Kill(q)
  \/ \E q \in Procs, p \in Providers : CredentialSet(q, p)

Next ==
  \/ ProviderRequest \/ ModelRequest \/ KeyStep \/ Answered
  \/ \E s \in Slots : DiscoverFails(s)
  \/ \E s \in Slots, q \in Procs, p \in Providers : Discover(s, q, p)

Spec == Init /\ [][Next]_vars

-----------------------------------------------------------------------------
(* Properties. *)

(* Every stored credential can be read by every process that has a key,    *)
(* whichever process created the key file and whoever was killed meanwhile.*)
CredentialsReadable ==
  /\ \A p \in DOMAIN credentials : Stored(p) /\ credentials[p] = file
  /\ \A q \in Procs : proc[q].key \in {None, file}

(* The catalogue of a provider is one whole answer of it, never a mixture  *)
(* of two discoveries that overlapped, apart from manual models and from   *)
(* what the user wrote since.                                              *)
CatalogueIsOneAnswer ==
  \A p \in DOMAIN answer, i \in Identifiers :
    <<p, i>> \notin edited =>
      IF i \in DOMAIN answer[p]
      THEN /\ <<p, i>> \in DOMAIN models
           /\ models[<<p, i>>].source = "discovered" =>
                models[<<p, i>>] = [source |-> "discovered", enabled |-> TRUE, meta |-> answer[p][i]]
      ELSE <<p, i>> \in DOMAIN models =>
             models[<<p, i>>].source = "manual" \/ ~models[<<p, i>>].enabled

(* A discovery, from its start to whatever ends it, deletes no model, never*)
(* writes a manual one - one registered while it waited included - and     *)
(* takes no model away from an agent.                                      *)
DiscoveryRespects ==
  [][disc' # disc =>
       /\ DOMAIN models \subseteq DOMAIN models'
       /\ \A x \in DOMAIN models : models[x].source = "manual" => models'[x] = models[x]
       /\ uses' = uses]_vars

(* Discovering the same answer again changes nothing and reports every     *)
(* model unchanged; the four counts add up to the models there are.        *)
DiscoveryIdempotent ==
  \A p \in Providers : Stored(p) =>
    \A items \in {a \in Answers : ~Malformed(a)} :
      LET listed == dedupe(items)
          first  == Summary(p, listed, models)
          after  == Reconcile(p, listed, models)
          again  == Summary(p, listed, after)
      IN  /\ Reconcile(p, listed, after) = after
          /\ again.unchanged = OfProvider(after, p)
          /\ \A x \in OfProvider(after, p) :
               Cardinality({f \in DOMAIN first : x \in first[f]}) = 1

(* A provider that needs an address has one,                               *)
(* and every model and every reference to one has its row.                 *)
ProvidersSound ==
  /\ \A p \in DOMAIN providers : LocalOrCustom(providers[p].kind) => providers[p].url # None
  /\ \A x \in DOMAIN models : Stored(x[1])
  /\ \A a \in Agents : uses[a] \in DOMAIN models \cup {None}
=============================================================================
