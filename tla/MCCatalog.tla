----------------------------- MODULE MCCatalog ------------------------------
(* The instance of Catalog that TLC checks. *)
EXTENDS Catalog, TLC

CONSTANTS p1, i1, i2, a1, v1, v2, u1, s1, s2, q1, q2

(* Bound: a behaviour goes on where a process has the master key or creates *)
(* it, and where there are models, but not from where there are both.       *)
KeysOrModels ==
  \/ models = Empty /\ answer = Empty /\ edited = {}
  \/ file = None /\ \A q \in Procs : proc[q].at = "none"

(* Slots, processes and identifiers are alike: no definition orders them. *)
Alike == Permutations(Slots) \cup Permutations(Procs) \cup Permutations(Identifiers) \cup Permutations(Metas)
=============================================================================
