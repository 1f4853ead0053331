----------------------------- MODULE Transcript -----------------------------
(***************************************************************************)
(* What a reader of GET /chats/:chatId/messages is promised about one      *)
(* chat: history only grows at its end, a message that is still being      *)
(* written only gains text, it settles once, and after that neither its    *)
(* text nor its outcome changes.  A chat disappears whole.                 *)
(*                                                                         *)
(* A message is "open" while it is 'pending' or 'streaming'.  Its position *)
(* in the sequence is its messages.sequence, and its text is the number of *)
(* pieces of text stored in messages.content.                              *)
(***************************************************************************)
EXTENDS Integers, Sequences

CONSTANT Text   \* the amounts of text a message can hold: naturals, among them 0

VARIABLES
  exists,     \* whether the chat is there
  history     \* its messages, in sequence order

tVars == <<exists, history>>

Message == [author : {"client", "model"},
            state  : {"open", "complete", "error"},
            text   : Text]

TInit == exists = TRUE /\ history = <<>>

(* A client's message, or a reply that was generated in full first. *)
AddSettled ==
  /\ exists
  /\ \E m \in Message : m.state = "complete" /\ history' = Append(history, m)
  /\ UNCHANGED exists

(* A place is taken for a reply that is still to be written. *)
Reserve ==
  /\ exists
  /\ history' = Append(history, [author |-> "model", state |-> "open", text |-> 0])
  /\ UNCHANGED exists

(* An open reply gains text, or settles with at least the text it has. *)
Advance ==
  /\ exists
  /\ \E n \in DOMAIN history, m \in Message :
       /\ history[n].state = "open"
       /\ m.author = history[n].author
       /\ m.text >= history[n].text
       /\ history' = [history EXCEPT ![n] = m]
  /\ UNCHANGED exists

(* A restart declares every open reply failed and keeps its stored text. *)
Recover ==
  /\ history' = [n \in DOMAIN history |->
                   IF history[n].state = "open"
                   THEN [history[n] EXCEPT !.state = "error"]
                   ELSE history[n]]
  /\ UNCHANGED exists

Drop == exists /\ exists' = FALSE /\ history' = <<>>

TNext == AddSettled \/ Reserve \/ Advance \/ Recover \/ Drop

TSpec == TInit /\ [][TNext]_tVars
=============================================================================
