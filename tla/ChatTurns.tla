------------------------------ MODULE ChatTurns ------------------------------
(***************************************************************************)
(* One chat of the Glassbeetle API and the requests that work on it:       *)
(* posting a message, a completion answered in one piece, a completion     *)
(* streamed over SSE, and the compaction of the history into a summary.    *)
(*                                                                         *)
(* The API is one Node process over one synchronous SQLite connection, so  *)
(* the code between two awaits (or yields) is one action.  Requests        *)
(* interleave where a handler waits: for the provider's response headers,  *)
(* for its body, and for a slow client to drain the response.  The process *)
(* can be killed between any two SQL statements.                           *)
(*                                                                         *)
(* rows[n] is the messages row with sequence n: a row is inserted with     *)
(* MAX(sequence) + 1 in one statement and is only removed with its chat.   *)
(* Text is counted in pieces, one per text delta of the provider.          *)
(***************************************************************************)
EXTENDS Integers, FiniteSets, Sequences

CONSTANTS
  Requests,      \* slots for concurrent HTTP requests
  Models,        \* the models a request can resolve to
  NoModel,       \* the model of a slot that serves no request
  Wired,         \* models whose adapter leaves the caller's AbortSignal attached
                 \* while the response body is read (OpenAI, Anthropic)
  Preserves,     \* values of preserveRecentCount
  MaxRows,       \* bound: messages in the chat
  MaxDeltas,     \* bound: text deltas of one reply
  MaxSummaries   \* bound: compactions that report usage

ASSUME ConstantsAssumption ==
  /\ NoModel \notin Models
  /\ Wired \subseteq Models
  /\ Preserves \subseteq Nat
  /\ MaxRows \in Nat
  /\ MaxDeltas \in Nat \ {0}
  /\ MaxSummaries \in Nat

VARIABLES
  up,        \* the API process is running
  exists,    \* the chats row is there
  rows,      \* the messages rows
  summary,   \* chats.context_summary and chats.compacted_before_sequence
  models,    \* the models rows (with their provider) that are there
  usage,     \* the usage_events rows
  req        \* the requests being served, lost when the process dies

vars == <<up, exists, rows, summary, models, usage, req>>

Text == 0..MaxDeltas
InFlight == {"pending", "streaming"}

Row == [author : {"client", "model"},
        status : {"pending", "streaming", "complete", "error"},
        text   : Text]

(* before is compacted_before_sequence, 0 for NULL.  folded stands for the *)
(* text of context_summary: the messages that went into it.  overtaken and *)
(* blanked are history variables: messages below the boundary that were in *)
(* flight when the history was read, and messages folded into a summary    *)
(* that came back blank.                                                   *)
Summary == [before : Nat, folded : SUBSET Nat, overtaken : SUBSET Nat, blanked : SUBSET Nat]

NoSummary == [before |-> 0, folded |-> {}, overtaken |-> {}, blanked |-> {}]

(* at: where the handler waits.  "started": yielded message_start;         *)
(* "headers": for the response headers; "body": for the rest of the        *)
(* response; "yielded": for the client to take an event; "closing": the    *)
(* reply is settled and the closing events go out.                         *)
Request == [op    : {"idle", "complete", "stream", "compact"},
            at    : {"idle", "started", "headers", "body", "yielded", "closing"},
            model : Models \cup {NoModel},
            open  : BOOLEAN,        \* the client is connected (signal not aborted)
            row   : Nat,            \* sequence of the row reserved for the reply, or 0
            got   : Text,           \* accumulatedContent
            plan  : Summary,        \* what a compaction is going to store
            end   : {"none", "finished", "failed", "cut", "mistaken"}]

Idle == [op |-> "idle", at |-> "idle", model |-> NoModel, open |-> TRUE,
         row |-> 0, got |-> 0, plan |-> NoSummary, end |-> "none"]

(* usage_events has no message column: row is a history variable, the      *)
(* message whose reply was charged, or 0.                                  *)
UsageEvent == [event : {"chat_completion", "chat_compaction"}, row : Nat]

TypeOK ==
  /\ up \in BOOLEAN
  /\ exists \in BOOLEAN
  /\ rows \in Seq(Row)
  /\ summary \in Summary
  /\ models \subseteq Models
  /\ usage \in Seq(UsageEvent)
  /\ req \in [Requests -> Request]

Init ==
  /\ up = TRUE
  /\ exists = TRUE
  /\ rows = <<>>
  /\ summary = NoSummary
  /\ models = Models
  /\ usage = <<>>
  /\ req = [r \in Requests |-> Idle]

-----------------------------------------------------------------------------
(* Reading the database. *)

(* What the model is shown: complete messages with text. *)
Contextual(row) == row.status = "complete" /\ row.text > 0

(* The foreign keys of a usage_events row hold: chat and model exist. *)
CanCharge(r) == exists /\ req[r].model \in models

Charges(n) == Cardinality({i \in DOMAIN usage : usage[i] = [event |-> "chat_completion", row |-> n]})
Compactions == Cardinality({i \in DOMAIN usage : usage[i].event = "chat_compaction"})
               + Cardinality({r \in Requests : req[r].op = "compact"})

(* Bounds the model: a row for every reply that is still to be inserted. *)
Room == Len(rows) + Cardinality({r \in Requests : req[r].op = "complete"}) < MaxRows

-----------------------------------------------------------------------------
(* Writing the database. *)

Charge(kind, n) == usage' = Append(usage, [event |-> kind, row |-> n])

(* UPDATE messages SET status, content WHERE id: no row, no effect. *)
Flush(r, status, text) ==
  rows' = IF exists
          THEN [rows EXCEPT ![req[r].row] =
                  [author |-> @.author, status |-> status, text |-> text]]
          ELSE rows

Serve(r, request) == req' = [req EXCEPT ![r] = request]
Move(r, place) == req' = [req EXCEPT ![r].at = place]
Leave(r) == Serve(r, Idle)

(* A request that can start: the process runs, the chat exists and the     *)
(* execution chain resolves to an existing, enabled model.                 *)
Starts(r, m) == up /\ exists /\ req[r].op = "idle" /\ m \in models

-----------------------------------------------------------------------------
(* Requests served without waiting. *)

PostMessage ==
  /\ up /\ exists /\ Room
  /\ rows' = Append(rows, [author |-> "client", status |-> "complete", text |-> 1])
  /\ UNCHANGED <<up, exists, summary, models, usage, req>>

(* Messages go with their chat, usage events stay (ON DELETE SET NULL). *)
DeleteChat ==
  /\ up /\ exists
  /\ exists' = FALSE
  /\ rows' = <<>>
  /\ summary' = NoSummary
  /\ UNCHANGED <<up, models, usage, req>>

DeleteModel(m) ==
  /\ up /\ m \in models
  /\ models' = models \ {m}
  /\ UNCHANGED <<up, exists, rows, summary, usage, req>>

-----------------------------------------------------------------------------
(* The provider and the client, as the adapters and the controller see them. *)

(* Response headers arrive; the adapter's timer stops here. *)
Headers(r) ==
  /\ req[r].at = "headers" /\ req[r].open
  /\ Move(r, "body")
  /\ UNCHANGED <<up, exists, rows, summary, models, usage>>

(* The client goes away: req/res 'close' aborts the signal. *)
ClientCloses(r) ==
  /\ req[r].op # "idle" /\ req[r].open
  /\ req' = [req EXCEPT ![r].open = FALSE]
  /\ UNCHANGED <<up, exists, rows, summary, models, usage>>

(* The handler notices the abort without hearing from the provider: always,*)
(* except while the body is read through an adapter that has taken its     *)
(* listener off the signal.                                                *)
SeesAbort(r) == ~req[r].open /\ (req[r].at = "body" => req[r].model \in Wired)

-----------------------------------------------------------------------------
(* A completion in one piece. *)

StartComplete(r, m) ==
  /\ Starts(r, m) /\ Room
  /\ Serve(r, [Idle EXCEPT !.op = "complete", !.at = "headers", !.model = m])
  /\ UNCHANGED <<up, exists, rows, summary, models, usage>>

(* The reply, the chat's updated_at and the usage event in one transaction:*)
(* a foreign key that fails undoes all of it.                              *)
PersistReply(r, text) ==
  IF CanCharge(r)
  THEN /\ rows' = Append(rows, [author |-> "model", status |-> "complete", text |-> text])
       /\ Charge("chat_completion", Len(rows) + 1)
  ELSE UNCHANGED <<rows, usage>>

CompleteReturns(r) ==
  /\ req[r].op = "complete" /\ req[r].at = "body" /\ ~SeesAbort(r)
  /\ \E text \in 0..1 : PersistReply(r, text)
  /\ Leave(r)
  /\ UNCHANGED <<up, exists, summary, models>>

-----------------------------------------------------------------------------
(* The compaction of the history. *)

(* The messages not yet compacted, without the last k. *)
Uncompacted(k) == (IF summary.before = 0 THEN 1 ELSE summary.before) .. Len(rows) - k

(* Mutant of FoldPlan: the boundary passes the messages that are kept. *)
FoldPlanPastKept(k) ==
  LET range == Uncompacted(k)
  IN [before    |-> Len(rows) + 1,
      folded    |-> summary.folded \cup {n \in range : Contextual(rows[n])},
      overtaken |-> summary.overtaken \cup {n \in range : rows[n].status \in InFlight},
      blanked   |-> summary.blanked]

(* What is stored when the provider answers, from one reading of the chat  *)
(* and its messages.                                                       *)
FoldPlan(k) ==
  LET range == Uncompacted(k)
  IN [before    |-> Len(rows) - k + 1,
      folded    |-> summary.folded \cup {n \in range : Contextual(rows[n])},
      overtaken |-> summary.overtaken \cup {n \in range : rows[n].status \in InFlight},
      blanked   |-> summary.blanked]

StartCompact(r, m, k) ==
  /\ Starts(r, m)
  /\ Compactions < MaxSummaries
  /\ \E n \in Uncompacted(k) : Contextual(rows[n])
  /\ Serve(r, [Idle EXCEPT !.op = "compact", !.at = "headers", !.model = m, !.plan = FoldPlan(k)])
  /\ UNCHANGED <<up, exists, rows, summary, models, usage>>

(* A blank answer is stored too and leaves nothing of what was folded. *)
Answered(plan, blank) ==
  IF blank
  THEN [plan EXCEPT !.folded = {}, !.blanked = @ \cup plan.folded]
  ELSE plan

(* UPDATE chats and the usage event, if usage was reported, in one transaction. *)
StoreSummary(r, blank, reported) ==
  IF exists /\ (reported => req[r].model \in models)
  THEN /\ summary' = Answered(req[r].plan, blank)
       /\ IF reported THEN Charge("chat_compaction", 0) ELSE UNCHANGED usage
  ELSE UNCHANGED <<summary, usage>>

CompactReturns(r) ==
  /\ req[r].op = "compact" /\ req[r].at = "body" /\ ~SeesAbort(r)
  /\ \E blank, reported \in BOOLEAN : StoreSummary(r, blank, reported)
  /\ Leave(r)
  /\ UNCHANGED <<up, exists, rows, models>>

-----------------------------------------------------------------------------
(* A call that ends without an answer has written nothing and writes       *)
(* nothing: it fails at the provider, or by itself, on the adapter's timer *)
(* for the headers or on the abort.                                        *)

EndCall(r) ==
  /\ req[r].op \in {"complete", "compact"}
  /\ Leave(r)
  /\ UNCHANGED <<up, exists, rows, summary, models, usage>>

(* Mutant of CallGivesUp: an adapter without a timer for the headers. *)
CallGivesUpOnAbortOnly(r) == SeesAbort(r) /\ EndCall(r)

CallFails(r) == EndCall(r)
CallGivesUp(r) == (req[r].at = "headers" \/ SeesAbort(r)) /\ EndCall(r)

-----------------------------------------------------------------------------
(* A streamed completion. *)

(* The row is reserved, with its sequence, before the provider is asked. *)
StartStream(r, m) ==
  /\ Starts(r, m) /\ Room
  /\ rows' = Append(rows, [author |-> "model", status |-> "pending", text |-> 0])
  /\ Serve(r, [Idle EXCEPT !.op = "stream", !.at = "started", !.model = m, !.row = Len(rows) + 1])
  /\ UNCHANGED <<up, exists, summary, models, usage>>

(* The client has taken the last event: the handler asks for the next one. *)
Drained(r) ==
  /\ req[r].op = "stream" /\ req[r].open
  /\ \/ req[r].at = "started" /\ Move(r, "headers")
     \/ req[r].at = "yielded" /\ Move(r, "body")
  /\ UNCHANGED <<up, exists, rows, summary, models, usage>>

(* A text delta. The first one is stored at once, a later one when 200     *)
(* characters or 500 ms have gathered.                                     *)
Delta(r) ==
  /\ req[r].op = "stream" /\ req[r].at = "body" /\ req[r].open
  /\ req[r].got < MaxDeltas
  /\ \/ Flush(r, "streaming", req[r].got + 1)
     \/ req[r].got > 0 /\ UNCHANGED rows
  /\ Serve(r, [req[r] EXCEPT !.at = "yielded", !.got = @ + 1])
  /\ UNCHANGED <<up, exists, summary, models, usage>>

(* A thought delta is passed on and not stored. *)
Thought(r) ==
  /\ req[r].op = "stream" /\ req[r].at = "body" /\ req[r].open
  /\ Move(r, "yielded")
  /\ UNCHANGED <<up, exists, rows, summary, models, usage>>

Settled(r, end) == Serve(r, [req[r] EXCEPT !.at = "closing", !.end = end])

(* The provider is done: the reply is stored as complete, then the usage   *)
(* event is inserted. When that insert fails the reply is stored again, as *)
(* an error.                                                               *)
StreamFinishes(r) ==
  /\ req[r].op = "stream" /\ req[r].at = "body" /\ req[r].open
  /\ \/ /\ CanCharge(r)
        /\ Flush(r, "complete", req[r].got)
        /\ Charge("chat_completion", req[r].row)
        /\ Settled(r, "finished")
     \/ /\ ~CanCharge(r)
        /\ Flush(r, "error", req[r].got)
        /\ Settled(r, "failed")
        /\ UNCHANGED usage
  /\ UNCHANGED <<up, exists, summary, models>>

(* Mutant of Interrupted: the text gathered since the last flush is not stored. *)
InterruptedUnflushed(r, end) ==
  /\ Flush(r, IF req[r].got > 0 THEN "complete" ELSE "error",
           IF exists THEN rows[req[r].row].text ELSE 0)
  /\ Settled(r, end)

(* An interrupted reply keeps its text as complete; without text it is an error. *)
Interrupted(r, end) ==
  /\ Flush(r, IF req[r].got > 0 THEN "complete" ELSE "error", req[r].got)
  /\ Settled(r, end)

(* Mutant of StreamFails: what the provider reported before it failed is   *)
(* charged, as if the insert of the usage event stood in a finally.        *)
StreamFailsCharged(r) ==
  /\ req[r].op = "stream" /\ req[r].at \in {"headers", "body"} /\ req[r].open
  /\ \/ /\ Flush(r, "error", req[r].got) /\ Settled(r, "failed")
        /\ IF CanCharge(r) THEN Charge("chat_completion", req[r].row) ELSE UNCHANGED usage
     \/ Interrupted(r, "mistaken") /\ UNCHANGED usage
  /\ UNCHANGED <<up, exists, summary, models>>

(* The provider fails, or the adapter's timer for the headers fires. A     *)
(* failure whose text contains "abort" is taken for an interruption.       *)
StreamFails(r) ==
  /\ req[r].op = "stream" /\ req[r].at \in {"headers", "body"} /\ req[r].open
  /\ \/ Flush(r, "error", req[r].got) /\ Settled(r, "failed")
     \/ Interrupted(r, "mistaken")
  /\ UNCHANGED <<up, exists, summary, models, usage>>

StreamTimesOut(r) == req[r].at = "headers" /\ StreamFails(r)

(* The client has gone: the handler sees it by itself, or with the next    *)
(* thing it hears from the provider.                                       *)
StreamCut(r) ==
  /\ req[r].op = "stream" /\ req[r].at # "closing" /\ ~req[r].open
  /\ Interrupted(r, "cut")
  /\ UNCHANGED <<up, exists, summary, models, usage>>

(* Mutant of StreamGivesUp: no adapter listens to the abort in the body. *)
StreamGivesUpBeforeBody(r) == ~req[r].open /\ req[r].at # "body" /\ StreamCut(r)

StreamGivesUp(r) == SeesAbort(r) /\ StreamCut(r)

(* The closing events are out, or there is nobody to send them to. *)
StreamCloses(r) ==
  /\ req[r].at = "closing"
  /\ Leave(r)
  /\ UNCHANGED <<up, exists, rows, summary, models, usage>>

-----------------------------------------------------------------------------
(* The process dies, possibly between storing a finished reply and         *)
(* inserting its usage event, which are two transactions.                  *)

Crash ==
  /\ up /\ up' = FALSE
  /\ \/ UNCHANGED rows
     \/ \E r \in Requests : /\ req[r].op = "stream" /\ req[r].at = "body" /\ req[r].open
                           /\ Flush(r, "complete", req[r].got)
  /\ req' = [r \in Requests |-> Idle]
  /\ UNCHANGED <<exists, summary, models, usage>>

(* Mutants of Sweep: a status the schema does not know; the stored text is lost. *)
SweepAsInterrupted(row) ==
  IF row.status \in InFlight THEN [row EXCEPT !.status = "interrupted"] ELSE row

SweepWithText(row) ==
  IF row.status \in InFlight THEN [row EXCEPT !.status = "error", !.text = 0] ELSE row

(* sweepStrandedMessages, before the first request is served. *)
Sweep(row) == IF row.status \in InFlight THEN [row EXCEPT !.status = "error"] ELSE row

(* Mutant of Restart: no sweep. *)
RestartUnswept ==
  /\ ~up /\ up' = TRUE
  /\ UNCHANGED <<exists, rows, summary, models, usage, req>>

Restart ==
  /\ ~up /\ up' = TRUE
  /\ rows' = [n \in DOMAIN rows |-> Sweep(rows[n])]
  /\ UNCHANGED <<exists, summary, models, usage, req>>

-----------------------------------------------------------------------------
Serving(r) ==
  \/ \E m \in Models : StartComplete(r, m) \/ StartStream(r, m)
  \/ \E m \in Models, k \in Preserves : StartCompact(r, m, k)
  \/ Headers(r) \/ ClientCloses(r)
  \/ CompleteReturns(r) \/ CompactReturns(r) \/ CallFails(r) \/ CallGivesUp(r)
  \/ Drained(r) \/ Delta(r) \/ Thought(r)
  \/ StreamFinishes(r) \/ StreamFails(r) \/ StreamCut(r) \/ StreamCloses(r)

Next ==
  \/ PostMessage \/ DeleteChat
  \/ \E m \in Models : DeleteModel(m)
  \/ \E r \in Requests : Serving(r)
  \/ Crash \/ Restart

(* The handlers are driven by the event loop: timers fire, an abort that   *)
(* reaches the handler is handled. Nothing is assumed of the provider, of  *)
(* a client, or of the user who starts the application again.              *)
Fairness == \A r \in Requests :
  WF_vars(CallGivesUp(r)) /\ WF_vars(StreamGivesUp(r)) /\ WF_vars(StreamTimesOut(r))

Spec == Init /\ [][Next]_vars
FairSpec == Spec /\ Fairness

-----------------------------------------------------------------------------
(* Properties. *)

IsLive(r) == req[r].op = "stream" /\ req[r].at # "closing"

(* While the process runs, a chat's in-flight rows are exactly the rows of *)
(* the streams being served, one each: no reply hangs without a handler    *)
(* that will settle it (streamChat, sweepStrandedMessages), its status     *)
(* tells whether text has arrived, and the first text is already stored.   *)
InFlightOwned ==
  up /\ exists =>
    /\ \A n \in DOMAIN rows : rows[n].status \in InFlight =>
         \E r \in Requests : IsLive(r) /\ req[r].row = n
    /\ \A r \in Requests : IsLive(r) =>
         LET row == rows[req[r].row] IN
         /\ row.status = (IF req[r].got = 0 THEN "pending" ELSE "streaming")
         /\ row.text <= req[r].got
         /\ req[r].got > 0 => row.text > 0
         /\ \A s \in Requests : IsLive(s) /\ req[s].row = req[r].row => s = r

(* A stream that has settled left what streamChat promises for its outcome:*)
(* finished - the whole reply, charged once; cut - the text so far as a    *)
(* complete message or an error without text, not charged; failed - an     *)
(* error that keeps its text, not charged.                                 *)
OutcomeStored ==
  \A r \in Requests : exists /\ req[r].at = "closing" =>
    LET row == rows[req[r].row] IN
    /\ row.text = req[r].got
    /\ row.status = CASE req[r].end = "finished" -> "complete"
                      [] req[r].end = "failed" -> "error"
                      [] OTHER -> IF req[r].got > 0 THEN "complete" ELSE "error"
    /\ Charges(req[r].row) = (IF req[r].end = "finished" THEN 1 ELSE 0)

(* A reply is charged at most once and only if it is complete: usage_events*)
(* never counts a failed reply, also when a model or the chat is deleted   *)
(* while the reply is generated.                                           *)
ChargedAtMostOnce ==
  exists => \A n \in DOMAIN rows :
    /\ Charges(n) <= 1
    /\ Charges(n) = 1 => rows[n].author = "model" /\ rows[n].status = "complete"

(* Every message that can be shown to a model is in the summary or above   *)
(* the compaction boundary and never in both, except those the history     *)
(* variables name (compactChat, buildContextPure).                         *)
Accounted(n) == n \in summary.folded \cup summary.overtaken \cup summary.blanked

HistoryCovered ==
  /\ \A n \in DOMAIN rows : n < summary.before /\ Contextual(rows[n]) => Accounted(n)
  /\ \A n \in summary.folded : n < summary.before

(* Once the client is gone its request ends without waiting for the        *)
(* provider: for an adapter that listens to the abort while it reads the   *)
(* body, and for every adapter before that.                                *)
AbortEnds ==
  \A r \in Requests :
    (req[r].op # "idle" /\ req[r].at # "closing" /\ SeesAbort(r)) ~>
      (req[r].op = "idle" \/ req[r].at = "closing")

(* A provider that accepts a request and sends no headers holds no request *)
(* for ever (the adapters' timers).                                        *)
HeadersBounded == \A r \in Requests : (req[r].at = "headers") ~> (req[r].at # "headers")

(* The chat seen through the messages endpoint is a transcript: it grows   *)
(* at its end, replies settle once, settled messages never change.         *)
Seen(row) == [author |-> row.author, text |-> row.text,
              state  |-> IF row.status \in InFlight THEN "open" ELSE row.status]

Reader == INSTANCE Transcript WITH history <- [n \in DOMAIN rows |-> Seen(rows[n])]
IsTranscript == Reader!TSpec
=============================================================================
