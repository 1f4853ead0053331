----------------------------- MODULE MCChatView -----------------------------
(* Small instances of ChatView for TLC. *)
EXTENDS ChatView, TLC

CONSTANTS first, second

TwoChats == {first, second}

(* Bound: a behaviour goes on while earlier messages are asked for, or while*)
(* a chat is saved or removed, but not from where both are under way.       *)
PagesOrEdits ==
  \/ ~UnderWay("older") /\ "older" \notin strayed
  \/ ~UnderWay("save") /\ removing = {} /\ "save" \notin strayed

ChatSymmetry == Permutations(TwoChats)
=============================================================================
