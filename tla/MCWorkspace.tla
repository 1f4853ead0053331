---------------------------- MODULE MCWorkspace -----------------------------
(* The instance of Workspace that TLC checks: three agents, so that one can *)
(* leave from the middle of a roster, and one row of every other kind.      *)
EXTENDS Workspace

CONSTANTS t1, p1, c1, s1, m1, g1

(* Bound: a behaviour goes on where rosters have members (or a gap) and where*)
(* there are prompts, memories or projects, but not from where there are    *)
(* both.                                                                    *)
RostersOrRows ==
  \/ prompts = {} /\ projects = {} /\ DOMAIN memories = {}
  \/ shared = {} /\ cut = {} /\ \A t \in Teams : DOMAIN members[t] = {}
=============================================================================
