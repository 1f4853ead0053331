------------------------------ MODULE Streams -------------------------------
(***************************************************************************)
(* One streamed request of an adapter, from sending it to the last event.  *)
(* The headers arrive, are late or refuse; then the body arrives in pieces *)
(* that end anywhere, in the middle of a line too, and the connection can  *)
(* close after any of them.  The caller may stop at any time.              *)
(*                                                                         *)
(* A line of text counts as two halves, so that a read can end within it.  *)
(* The name of an anthropic event repeats the type inside its data, and is *)
(* left out of the reader's state.                                         *)
(***************************************************************************)
EXTENDS Wire, FiniteSets

CONSTANTS
  Sample,     \* the frames a provider sends
  MaxFrames   \* bound: frames of one stream

ASSUME StreamsAssumption ==
  /\ MaxFrames \in Nat
  /\ None \notin Codes \cup {"ok"}
  /\ \A fr \in Sample : fr \in Frame /\ fr.n = 0

VARIABLES
  adapter,    \* the adapter asked
  frames,     \* what the provider sends
  rest,       \* the pieces of the body that are still to come
  buffer,     \* pieces read after the last newline
  data,       \* data lines of the event being assembled
  st,         \* what the stream has said so far, and its events
  phase,      \* "headers", "refused", "reading", "over"
  refusal,    \* status and hint of a refusal
  outcome,    \* None, "ok", or the code of the error thrown
  stopped,    \* the caller has stopped
  late        \* the deadline has passed

vars == <<adapter, frames, rest, buffer, data, st, phase, refusal, outcome, stopped, late>>
body == <<rest, buffer, data, st>>

Noise == [n |-> 0, model |-> FALSE, thought |-> FALSE, text |-> FALSE, finish |-> None,
          tin |-> None, tout |-> None, flag |-> "junk", hint |-> "none"]

-----------------------------------------------------------------------------
(* The wire formats: server-sent events, or one object per line. *)

Line(field, fr) == [field |-> field, load |-> fr]
BlankLine == Line("blank", Noise)
Half(line, k) == [line |-> line, half |-> k]
NewLine == Half(BlankLine, 0)

(* An event with a line before its data, or without. *)
Led(line, fr) ==
  <<Half(line, 1), Half(line, 2), NewLine, Half(Line("data", fr), 1), Half(Line("data", fr), 2), NewLine, NewLine>>
Plain(fr) == <<Half(Line("data", fr), 1), Half(Line("data", fr), 2), NewLine, NewLine>>
Object(fr) == <<Half(Line("object", fr), 1), Half(Line("object", fr), 2), NewLine>>

PiecesOf(ad, fr) ==
  FirstMatch(<< <<ad = "ollama", Object(fr)>>,
                <<fr.flag = "junk", Led(Line("comment", Noise), fr)>>,
                <<ad = "anthropic", Led(Line("event", Noise), fr)>>,
                <<TRUE, Plain(fr)>> >>)

Body(ad, frs) ==
  LET sent[k \in 0..Len(frs)] == IF k = 0 THEN <<>> ELSE sent[k - 1] \o PiecesOf(ad, frs[k])
  IN  sent[Len(frs)]

Bodies(ad) ==
  UNION {{[k \in 1..n |-> [frs[k] EXCEPT !.n = k]] :
           frs \in [1..n -> {fr \in Sample : fr.flag = "blocked" => ad = "google"}]} : n \in 0..MaxFrames}

TypeOK ==
  /\ adapter \in Adapters /\ frames \in Bodies(adapter)
  /\ IsSuffix(rest, Body(adapter, frames)) /\ IsSuffix(buffer, SubSeq(Body(adapter, frames), 1,
       Len(Body(adapter, frames)) - Len(rest)))
  /\ \A k \in DOMAIN buffer : buffer[k].half # 0
  /\ Len(data) <= 1
  /\ st.finish \in Reasons /\ st.model \in 0..MaxFrames
  /\ phase \in {"headers", "refused", "reading", "over"}
  /\ outcome \in Codes \cup {None, "ok"} /\ (outcome = None <=> phase # "over")
  /\ stopped \in BOOLEAN /\ late \in BOOLEAN

Init ==
  /\ adapter \in Adapters
  /\ frames \in Bodies(adapter)
  /\ rest = Body(adapter, frames)
  /\ buffer = <<>> /\ data = <<>>
  /\ st = Fresh(adapter)
  /\ phase = "headers" /\ refusal = <<0, "none">> /\ outcome = None
  /\ stopped = FALSE /\ late = FALSE

Over(code) == phase' = "over" /\ outcome' = code

-----------------------------------------------------------------------------
(* executeFetch: waiting for the headers, then for the text of a refusal. *)

(* Mutant of DeadlineCode: anthropic does not look at its own timer. *)
DeadlineCodeAborts(ad) == IF ad = "anthropic" THEN "REQUEST_ABORTED" ELSE "PROVIDER_UNAVAILABLE"

DeadlineCode(ad) == IF ad = "anthropic" THEN "REQUEST_TIMEOUT" ELSE "PROVIDER_UNAVAILABLE"

(* google and ollama take their listener and timers away when fetch        *)
(* returns; openai and anthropic drop the timer when the headers arrive and*)
(* keep listening.                                                         *)
Listening(ad) == ad \in {"openai", "anthropic"}
TimerRuns == phase = "headers" \/ (phase = "refused" /\ ~Listening(adapter))

HeadersArrive ==
  /\ phase = "headers"
  /\ phase' = "reading"
  /\ UNCHANGED <<adapter, frames, body, refusal, outcome, stopped, late>>

EmptyBody ==
  /\ phase = "headers"
  /\ Over("PROVIDER_UNAVAILABLE")
  /\ UNCHANGED <<adapter, frames, body, refusal, stopped, late>>

Refuse(status, hint) ==
  /\ phase = "headers"
  /\ phase' = "refused" /\ refusal' = <<status, hint>>
  /\ UNCHANGED <<adapter, frames, body, outcome, stopped, late>>

RefusalRead ==
  /\ phase = "refused"
  /\ Over(mapError(adapter, refusal[1], refusal[2]))
  /\ UNCHANGED <<adapter, frames, body, refusal, stopped, late>>

(* Whatever goes wrong while a refusal is read leaves its status. *)
RefusalLost == Over(mapError(adapter, refusal[1], "none"))

Deadline ==
  /\ TimerRuns
  /\ late' = TRUE
  /\ IF phase = "refused" THEN RefusalLost ELSE Over(DeadlineCode(adapter))
  /\ UNCHANGED <<adapter, frames, body, refusal, stopped>>

(* Mutant of NetworkFails: the catch of the stream does not look at the    *)
(* caller's signal.                                                        *)
NetworkFailsUnheard ==
  /\ phase # "over"
  /\ IF phase = "refused" THEN RefusalLost ELSE Over("PROVIDER_UNAVAILABLE")
  /\ UNCHANGED <<adapter, frames, body, refusal, stopped, late>>

(* A stop that google or ollama have not seen yet is what the failed read  *)
(* is told as; the others have left at the stop.                           *)
NetworkFails ==
  /\ phase # "over"
  /\ IF phase = "refused" THEN RefusalLost
     ELSE Over(IF stopped THEN "REQUEST_ABORTED" ELSE "PROVIDER_UNAVAILABLE")
  /\ UNCHANGED <<adapter, frames, body, refusal, stopped, late>>

(* google and ollama do not hear it once they read, but look before the    *)
(* next read.                                                              *)
Stop ==
  /\ phase # "over" /\ ~stopped
  /\ stopped' = TRUE
  /\ IF phase = "refused" THEN RefusalLost
     ELSE IF phase = "reading" /\ ~Listening(adapter) THEN UNCHANGED <<phase, outcome>>
     ELSE Over("REQUEST_ABORTED")
  /\ UNCHANGED <<adapter, frames, body, refusal, late>>

-----------------------------------------------------------------------------
(* Reading. *)

(* The generator returns at a terminal event; anthropic's goes on, but its *)
(* caller leaves at an error.                                              *)
Ended(ad, state) ==
  \E k \in DOMAIN state.out :
    state.out[k].type \in (IF ad = "anthropic" THEN {"error"} ELSE {"error", "complete"})

(* A line as it can be read from its pieces: cut short, it keeps its field.*)
Whole(pieces) ==
  IF pieces = <<>> THEN BlankLine
  ELSE IF pieces[1].half # 1 THEN Line("object", Noise)
  ELSE IF Len(pieces) = 2 THEN pieces[1].line
  ELSE Line(pieces[1].line.field, Noise)

(* Several data lines before a blank one are no frame any more. *)
Join(lines) == IF Len(lines) = 1 THEN lines[1] ELSE Noise

(* Mutant of ReadLine: an event leaves its data behind. *)
ReadLineKeeps(ad, reader, line) ==
  FirstMatch(<< <<Ended(ad, reader.st), reader>>,
                <<ad = "ollama", [reader EXCEPT !.st = FrameOf(ad, @, line.load)]>>,
                <<line.field = "data", [reader EXCEPT !.data = Append(@, line.load)]>>,
                <<line.field = "blank" /\ reader.data # <<>>,
                  [reader EXCEPT !.st = FrameOf(ad, @, Join(reader.data))]>>,
                <<TRUE, reader>> >>)

(* One line: collected, or the event before a blank line. *)
ReadLine(ad, reader, line) ==
  FirstMatch(<< <<Ended(ad, reader.st), reader>>,
                <<ad = "ollama", [reader EXCEPT !.st = FrameOf(ad, @, line.load)]>>,
                <<line.field = "data", [reader EXCEPT !.data = Append(@, line.load)]>>,
                <<line.field = "blank" /\ reader.data # <<>>,
                  [reader EXCEPT !.data = <<>>, !.st = FrameOf(ad, @, Join(reader.data))]>>,
                <<TRUE, reader>> >>)

(* split and the loop over its lines: a newline ends the line that the     *)
(* buffer holds, and what follows the last one waits there for more.       *)
ReadPiece(ad, reader, piece) ==
  IF piece.half # 0 THEN [reader EXCEPT !.buffer = Append(@, piece)]
  ELSE [ReadLine(ad, reader, Whole(reader.buffer)) EXCEPT !.buffer = <<>>]

(* Mutant of Reading: the event being assembled lives inside the read loop.*)
ReadingAfresh == [buffer |-> buffer, data |-> <<>>, st |-> st]

(* What is left from one read to the next. *)
Reading == [buffer |-> buffer, data |-> data, st |-> st]

Read(n) ==
  LET reader[k \in 0..n] == IF k = 0 THEN Reading ELSE ReadPiece(adapter, reader[k - 1], rest[k])
  IN  /\ phase = "reading"
      /\ rest' = SubSeq(rest, n + 1, Len(rest))
      /\ buffer' = reader[n].buffer /\ data' = reader[n].data /\ st' = reader[n].st
      /\ IF Ended(adapter, reader[n].st) THEN Over("ok")
         ELSE IF stopped THEN Over("REQUEST_ABORTED")
         ELSE UNCHANGED <<phase, outcome>>
      /\ UNCHANGED <<adapter, frames, refusal, stopped, late>>

(* The line that no newline ended joins the event, and the event is flushed*)
Trailing(ad, reader) ==
  LET line == Whole(reader.buffer)
      lines == reader.data \o
                 (IF line.field \in {"data", "object"} THEN <<line.load>> ELSE <<>>)
  IN  FirstMatch(<< <<ad = "ollama", ollamaTail(reader.st, line.load)>>,
                    <<lines # <<>>, FrameOf(ad, reader.st, Join(lines))>>,
                    <<TRUE, reader.st>> >>)

(* The body ends, early perhaps: a stream without an end counts as complete*)
End ==
  LET last == Trailing(adapter, Reading)
  IN  /\ phase = "reading"
      /\ st' = IF last.completed \/ Ended(adapter, last) THEN last ELSE Finish(last)
      /\ buffer' = <<>> /\ data' = <<>>
      /\ Over("ok")
      /\ UNCHANGED <<adapter, frames, rest, refusal, stopped, late>>

Next ==
  \/ HeadersArrive \/ EmptyBody \/ RefusalRead \/ Deadline \/ NetworkFails \/ Stop \/ End
  \/ \E status \in Statuses \ {200}, hint \in Hints : Refuse(status, hint)
  \/ \E n \in 1..Len(rest) : Read(n)

Spec == Init /\ [][Next]_vars

-----------------------------------------------------------------------------
(* Properties. *)

Delivered == SubSeq(Body(adapter, frames), 1, Len(Body(adapter, frames)) - Len(rest))

(* How many frames' text has arrived to its end. *)
Arrived ==
  Cardinality({k \in DOMAIN Delivered : Delivered[k].half = 2 /\ Delivered[k].line.field \in {"data", "object"}})

Unended == adapter = "ollama" /\ Delivered # <<>> /\ Last(Delivered).half = 2

(* What the first frames say, each read in one piece. *)
TakeFrame(ad, state, fr) == IF Ended(ad, state) THEN state ELSE FrameOf(ad, state, fr)
Taken(ad, frs) ==
  LET taken[k \in 0..Len(frs)] == IF k = 0 THEN Fresh(ad) ELSE TakeFrame(ad, taken[k - 1], frs[k])
  IN  taken

Reference ==
  LET taken == Taken(adapter, frames)
      all == IF Unended /\ ~Ended(adapter, taken[Arrived - 1])
             THEN ollamaTail(taken[Arrived - 1], frames[Arrived]) ELSE taken[Arrived]
  IN  IF all.completed \/ Ended(adapter, all) THEN all.out ELSE all.out \o Complete(all)

(* However the body is cut into reads, the events are those of the frames  *)
(* that arrived, each taken once and in order, and after a failure a prefix*)
(* of them: no frame is lost, doubled or invented at the seams.            *)
StreamFaithful ==
  /\ outcome = "ok" => st.out = Reference
  /\ IsPrefix(st.out, Reference)

(* A request is reported as cancelled only if its caller cancelled it, one *)
(* that was cancelled is not reported as the provider's failure, whatever  *)
(* fails after the stop, unless the provider had refused it before, and a  *)
(* deadline is a failure worth another try: the inference service stores a *)
(* cancelled reply as finished.  The client is told the same code in an    *)
(* answer as in a stream, under a status that never asks it to log in and  *)
(* that says so when another try may help.                                 *)
FailuresTold ==
  LET ex == [kind |-> "adapter", code |-> outcome, status |-> 0]
  IN  /\ outcome = "REQUEST_ABORTED" => stopped
      /\ stopped /\ phase = "over" /\ refusal[1] = 0 => outcome \in {"ok", "REQUEST_ABORTED"}
      /\ late /\ phase = "over" /\ refusal[1] = 0 => outcome \in Retryable
      /\ outcome \in Codes =>
           /\ Caught(ex, FALSE) = [status |-> mapErrorCodeToHttpStatus(outcome), code |-> outcome]
           /\ toStreamErrorPayload(ex).code = outcome
           /\ Caught(ex, FALSE).status \notin {401, 403}
           /\ toStreamErrorPayload(ex).retryable =>
                Caught(ex, FALSE).status = 429 \/ Caught(ex, FALSE).status >= 500
=============================================================================
