----------------------------- MODULE MCPictures -----------------------------
(* The instance of Pictures that TLC checks. *)
EXTENDS Pictures, TLC

CONSTANTS r1, r2, r3

(* The slots are alike: no definition tells them apart. *)
Slots == Permutations(Requests)
=============================================================================
