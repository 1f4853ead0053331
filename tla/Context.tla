------------------------------- MODULE Context -------------------------------
(***************************************************************************)
(* What a model is shown: the system prompt put together from its layers,  *)
(* the messages of the chat that count, and as many of them as the model's *)
(* context window holds.  Functions only; the turns of ChatTurns and       *)
(* TeamRun call them, and Wire turns the result into a request.            *)
(*                                                                         *)
(* Texts are lengths in characters; 0 is a text that is missing or blank.  *)
(***************************************************************************)
EXTENDS Wire

CONSTANTS
  Banner,     \* characters of the line that names a speaking team member
  Directive,  \* characters of the sentence that gives a member its role
  Framing     \* tokens that a message costs besides its text

ASSUME ContextAssumption == Banner \in Nat /\ Directive \in Nat /\ Framing \in Nat

Layers == <<"template", "personality", "instructions", "memories", "summary">>
Heading == 17   \* "Context summary:" and its newline
Gap == 2        \* the blank line between two layers

(* Tokens, at four characters each, rounded up. *)
estimateTokens(length) == (length + 3) \div 4

Total(sizes) == FoldLeft(LAMBDA sum, size : sum + size, 0, sizes)

-----------------------------------------------------------------------------
(* The system prompt: the layers that say something, in their order. *)

assembleSystemPrompt(sources) == SelectSeq(Layers, LAMBDA layer : sources[layer] > 0)

SystemTokens(sources) ==
  LET layers == assembleSystemPrompt(sources)
      lengths == [k \in DOMAIN layers |->
                    sources[layers[k]] + (IF layers[k] = "summary" THEN Heading ELSE 0)]
  IN  IF layers = <<>> THEN 0
      ELSE Framing + estimateTokens(Total(lengths) + Gap * (Len(layers) - 1))

-----------------------------------------------------------------------------
(* The messages.  A message has the role, length, status and speaker that  *)
(* its row has; its sequence number is its place.                          *)

(* Why a message is not shown, None if it is; the first reason counts. *)
Exclusion(input, seq) ==
  LET msg == input.messages[seq]
  IN  FirstMatch(<< <<msg.status # "complete", "status_not_complete">>,
                    <<msg.length = 0, "empty_content">>,
                    <<seq < Or0(input.before), "compacted_history">>,
                    <<input.upto # None /\ seq > Or0(input.upto), "max_sequence_boundary">>,
                    <<TRUE, None>> >>)

(* Others of a team are named, and so are those who have been deleted. *)
Framed(input, msg) == input.team /\ msg.role = "assistant" /\ msg.agent # input.speaker

validRole(role) == IF role \in {"user", "assistant", "system", "tool"} THEN role ELSE "user"

estimateMessageTokens(input, seq) ==
  LET msg == input.messages[seq]
  IN  Framing + estimateTokens(msg.length + (IF Framed(input, msg) THEN Banner ELSE 0))

Candidates(input) ==
  SelectSeq([k \in 1..Len(input.messages) |-> k], LAMBDA seq : Exclusion(input, seq) = None)

CalculateTotal(input, seqs) ==
  SystemTokens(input.sources) + Total([k \in DOMAIN seqs |-> estimateMessageTokens(input, seqs[k])])

(* A window of 0 counts as unknown. *)
Window(input) == IF Or0(input.window) > 0 THEN input.window ELSE None
TooLong(input, seqs) == Window(input) # None /\ CalculateTotal(input, seqs) > Or0(Window(input))

(* Mutant of Fitted: the loop stops at the last message but one. *)
FittedTwo(input) ==
  FoldLeft(LAMBDA seqs, k : IF Len(seqs) > 2 /\ TooLong(input, seqs) THEN Tail(seqs) ELSE seqs,
           Candidates(input), Candidates(input))

(* The oldest go until the rest fits, the newest one stays: the loop runs  *)
(* at most once for every candidate.                                       *)
Fitted(input) ==
  FoldLeft(LAMBDA seqs, k : IF Len(seqs) > 1 /\ TooLong(input, seqs) THEN Tail(seqs) ELSE seqs,
           Candidates(input), Candidates(input))

Refused(code) == [code |-> code, layers |-> <<>>, shown |-> <<>>, messages |-> <<>>, excluded |-> {}]

buildContextPure(input) ==
  LET seqs == IF input.strategy = "truncate_oldest" THEN Fitted(input) ELSE Candidates(input)
      shown == {seqs[k] : k \in DOMAIN seqs}
  IN  IF TooLong(input, seqs) THEN Refused("CONTEXT_LENGTH_EXCEEDED")
      ELSE [code |-> "ok",
            layers |-> assembleSystemPrompt(input.sources),
            shown |-> seqs,
            messages |-> [k \in DOMAIN seqs |->
                            [role |-> validRole(input.messages[seqs[k]].role), blank |-> FALSE]],
            excluded |-> {<<seq, IF Exclusion(input, seq) = None THEN "truncated_for_window"
                                 ELSE Exclusion(input, seq)>> : seq \in DOMAIN input.messages \ shown}]

-----------------------------------------------------------------------------
(* From the rows of a chat.  An agent has the lengths of its layers and the*)
(* window of its model; the roster is in the order of its positions.       *)

(* A role adds its directive, after a blank line, to the instructions. *)
WithRole(instructions, role) ==
  IF role = 0 THEN instructions
  ELSE IF instructions = 0 THEN Directive + role ELSE instructions + Gap + Directive + role

buildForChat(chat, agent, role, options) ==
  buildContextPure(
    [sources |-> [template |-> agent.template, personality |-> agent.personality,
                  instructions |-> IF chat.team THEN WithRole(agent.instructions, role)
                                   ELSE agent.instructions,
                  memories |-> options.memories, summary |-> chat.summary],
     messages |-> chat.messages, team |-> chat.team, speaker |-> agent.id,
     window |-> Given(options.window, agent.window), strategy |-> options.strategy,
     before |-> Given(options.before, chat.before), upto |-> options.upto])

(* Who speaks: the member asked for if it is one, else the first. *)
TargetMember(roster, target) ==
  IF \E k \in DOMAIN roster : roster[k].agent.id = target
  THEN roster[CHOOSE k \in DOMAIN roster : roster[k].agent.id = target]
  ELSE roster[1]

buildByChatId(chat, options) ==
  IF chat.team
  THEN IF chat.roster = <<>> THEN Refused("TEAM_HAS_NO_MEMBERS")
       ELSE LET member == TargetMember(chat.roster, options.target)
            IN  buildForChat(chat, member.agent, member.role, options)
  ELSE IF chat.agent = None THEN Refused("CHAT_HAS_NO_AGENT")
       ELSE buildForChat(chat, chat.agent, 0, options)
=============================================================================
