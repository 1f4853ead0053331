------------------------------- MODULE Basics -------------------------------
(* What the modules of functions share. *)
EXTENDS Integers, Sequences, SequencesExt

CONSTANT None   \* a field that is absent, a column that is NULL

(* The result of the first rule that applies. *)
FirstMatch(rules) ==
  rules[CHOOSE k \in DOMAIN rules : rules[k][1] /\ \A j \in 1..(k - 1) : ~rules[j][1]][2]

Or0(count) == IF count = None THEN 0 ELSE count
Given(option, default) == IF option # None THEN option ELSE default

(* f, and where f has no value that of g. *)
Overlay(f, g) == [x \in DOMAIN f \cup DOMAIN g |-> IF x \in DOMAIN f THEN f[x] ELSE g[x]]
=============================================================================
