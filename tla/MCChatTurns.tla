---------------------------- MODULE MCChatTurns ----------------------------
(* Small instances of ChatTurns for TLC. *)
EXTENDS ChatTurns, TLC

CONSTANTS r1, r2, openai, ollama

TwoRequests == {r1, r2}
BothAdapters == {openai, ollama}
OneModel == {openai}
WiredAdapter == {openai}
KeepNone == {0}
KeepUpToOne == {0, 1}

RequestSymmetry == Permutations(TwoRequests)
=============================================================================
