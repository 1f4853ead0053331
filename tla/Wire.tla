-------------------------------- MODULE Wire --------------------------------
(***************************************************************************)
(* What the four adapters say to a provider and make of its answers, as    *)
(* functions: requests, answers in one piece, single frames of a stream,   *)
(* lists of models, and failures.  openai also serves lmstudio and         *)
(* openai_compatible.                                                      *)
(*                                                                         *)
(* Texts are abstracted: a message, a piece of text or a model's name is   *)
(* the number of the message or frame that carries it, 0 what the adapter  *)
(* fills in itself.                                                        *)
(***************************************************************************)
EXTENDS Basics

CONSTANT MaxPages   \* pages of a model list asked for after the first one

ASSUME WireAssumption == MaxPages \in Nat

Adapters == {"openai", "anthropic", "google", "ollama"}

-----------------------------------------------------------------------------
(* Failures. *)

Codes == {"AUTHENTICATION_FAILED", "AUTHORIZATION_FAILED", "RATE_LIMIT_EXCEEDED", "INVALID_REQUEST",
          "MODEL_NOT_FOUND", "CONTENT_FILTERED", "CONTEXT_LENGTH_EXCEEDED", "PROVIDER_UNAVAILABLE",
          "CONNECTION_FAILED", "REQUEST_TIMEOUT", "REQUEST_ABORTED", "UNSUPPORTED_PROVIDER_KIND",
          "UNSUPPORTED_CAPABILITY", "UNKNOWN_ERROR"}

(* The table of the filter. *)
mapErrorCodeToHttpStatus(code) ==
  FirstMatch(<< <<code \in {"AUTHENTICATION_FAILED", "AUTHORIZATION_FAILED", "CONNECTION_FAILED",
                            "UNKNOWN_ERROR"}, 502>>,
                <<code = "RATE_LIMIT_EXCEEDED", 429>>,
                <<code \in {"INVALID_REQUEST", "UNSUPPORTED_PROVIDER_KIND", "UNSUPPORTED_CAPABILITY"}, 400>>,
                <<code = "MODEL_NOT_FOUND", 404>>,
                <<code = "CONTENT_FILTERED", 422>>,
                <<code = "CONTEXT_LENGTH_EXCEEDED", 413>>,
                <<code = "PROVIDER_UNAVAILABLE", 503>>,
                <<code = "REQUEST_TIMEOUT", 504>>,
                <<code = "REQUEST_ABORTED", 499>> >>)

(* The statuses and the retryable flag that the classes carry themselves. *)
ClassStatus ==
  [code \in Codes |->
     FirstMatch(<< <<code \in {"INVALID_REQUEST", "UNSUPPORTED_PROVIDER_KIND", "UNSUPPORTED_CAPABILITY"}, 400>>,
                   <<code = "MODEL_NOT_FOUND", 404>>, <<code = "CONTEXT_LENGTH_EXCEEDED", 413>>,
                   <<code = "CONTENT_FILTERED", 422>>, <<code = "RATE_LIMIT_EXCEEDED", 429>>,
                   <<code = "REQUEST_ABORTED", 499>>, <<code = "PROVIDER_UNAVAILABLE", 503>>,
                   <<code = "REQUEST_TIMEOUT", 504>>, <<TRUE, 502>> >>)]

Retryable == {"RATE_LIMIT_EXCEEDED", "PROVIDER_UNAVAILABLE", "CONNECTION_FAILED", "REQUEST_TIMEOUT"}

(* The answers of the filter.  Besides adapters, Nest and the services     *)
(* throw statuses, perhaps with a code, body-parser refuses what is too    *)
(* long, and anything else is a defect, whose text the client never sees.  *)
HttpCodes == [status \in {400, 404, 409, 413, 422, 500, 503} |->
  FirstMatch(<< <<status = 400, "BAD_REQUEST">>, <<status = 404, "NOT_FOUND">>, <<status = 409, "CONFLICT">>,
                <<status = 413, "PAYLOAD_TOO_LARGE">>, <<status = 422, "UNPROCESSABLE_ENTITY">>,
                <<status = 500, "INTERNAL_SERVER_ERROR">>, <<TRUE, "SERVICE_UNAVAILABLE">> >>)]
codeForStatus(status) == IF status \in DOMAIN HttpCodes THEN HttpCodes[status] ELSE "HTTP_ERROR"

Exceptions ==
  [kind : {"adapter"}, code : Codes, status : {0}]
    \cup [kind : {"http"}, code : {None, "CHAT_NOT_FOUND"}, status : DOMAIN HttpCodes]
    \cup [kind : {"oversized", "defect"}, code : {None}, status : {0}]

buildBody(ex) ==
  LET body(status, code) == [status |-> status, code |-> code]
  IN  IF ex.kind = "oversized" THEN body(413, codeForStatus(413))
      ELSE IF ex.kind = "adapter" THEN body(ClassStatus[ex.code], ex.code)
      ELSE IF ex.kind = "defect" THEN body(500, codeForStatus(500))
      ELSE body(ex.status, IF ex.code # None THEN ex.code ELSE codeForStatus(ex.status))

(* Once a response has begun, the connection is cut instead. *)
Caught(ex, headersSent) == IF headersSent THEN [status |-> 0, code |-> None] ELSE buildBody(ex)

(* The same exceptions in the middle of an event stream. *)
toStreamErrorPayload(ex) ==
  IF ex.kind = "adapter" THEN [code |-> ex.code, retryable |-> ex.code \in Retryable]
  ELSE [code |-> "UNKNOWN_ERROR", retryable |-> FALSE]

(* What the text of an error and its type or code give away together. *)
Hints == {"none", "auth", "missing", "limit", "context", "invalid", "filter", "loading"}
Statuses == {200, 400, 401, 403, 404, 405, 413, 422, 429, 499, 500, 501, 503, 504, 529}

openaiError(status, hint) ==
  FirstMatch(<< <<status \in {401, 403} \/ hint = "auth", "AUTHENTICATION_FAILED">>,
                <<status = 404 \/ hint = "missing", "MODEL_NOT_FOUND">>,
                <<status = 429 \/ hint = "limit", "RATE_LIMIT_EXCEEDED">>,
                <<hint = "context", "CONTEXT_LENGTH_EXCEEDED">>,
                <<status = 400 \/ hint = "invalid", "INVALID_REQUEST">>,
                <<status \in {405, 501}, "UNSUPPORTED_CAPABILITY">>,
                <<TRUE, "PROVIDER_UNAVAILABLE">> >>)

anthropicError(status, hint) ==
  FirstMatch(<< <<status \in {401, 403} \/ hint = "auth", "AUTHENTICATION_FAILED">>,
                <<status = 404 \/ hint = "missing", "MODEL_NOT_FOUND">>,
                <<status = 429 \/ hint = "limit", "RATE_LIMIT_EXCEEDED">>,
                <<hint = "context", "CONTEXT_LENGTH_EXCEEDED">>,
                <<status = 400 \/ hint = "invalid", "INVALID_REQUEST">>,
                <<TRUE, "PROVIDER_UNAVAILABLE">> >>)

googleError(status, hint) ==
  FirstMatch(<< <<status \in {401, 403} \/ hint = "auth", "AUTHENTICATION_FAILED">>,
                <<status = 404 \/ hint = "missing", "MODEL_NOT_FOUND">>,
                <<status = 429 \/ hint = "limit", "RATE_LIMIT_EXCEEDED">>,
                <<hint = "context", "CONTEXT_LENGTH_EXCEEDED">>,
                <<status = 400 \/ hint = "invalid", "INVALID_REQUEST">>,
                <<TRUE, "PROVIDER_UNAVAILABLE">> >>)

(* The text is looked at before most statuses; 401 and 403 are not told apart. *)
ollamaError(status, hint) ==
  FirstMatch(<< <<status = 404 \/ hint = "missing", "MODEL_NOT_FOUND">>,
                <<hint = "loading", "PROVIDER_UNAVAILABLE">>,
                <<hint = "context", "CONTEXT_LENGTH_EXCEEDED">>,
                <<status = 429, "RATE_LIMIT_EXCEEDED">>,
                <<status = 400, "INVALID_REQUEST">>,
                <<TRUE, "PROVIDER_UNAVAILABLE">> >>)

mapError(adapter, status, hint) ==
  FirstMatch(<< <<adapter = "openai", openaiError(status, hint)>>,
                <<adapter = "anthropic", anthropicError(status, hint)>>,
                <<adapter = "google", googleError(status, hint)>>,
                <<TRUE, ollamaError(status, hint)>> >>)

(* Anything else that is thrown: by cause, then by text. *)
Causes == {"none", "abort", "connection", "timeout"}

byCause(status, cause) ==
  FirstMatch(<< <<status = 499 \/ cause = "abort", "REQUEST_ABORTED">>,
                <<cause = "connection", "CONNECTION_FAILED">>,
                <<status = 504 \/ cause = "timeout", "REQUEST_TIMEOUT">>,
                <<TRUE, None>> >>)

byAnswer(status, hint) ==
  FirstMatch(<< <<status = 429 \/ hint = "limit", "RATE_LIMIT_EXCEEDED">>,
                <<status = 403, "AUTHORIZATION_FAILED">>,
                <<status = 401 \/ hint = "auth", "AUTHENTICATION_FAILED">>,
                <<status = 404 \/ hint = "missing", "MODEL_NOT_FOUND">>,
                <<status = 422 \/ hint = "filter", "CONTENT_FILTERED">>,
                <<status = 413 \/ (status = 400 /\ hint = "context"), "CONTEXT_LENGTH_EXCEEDED">>,
                <<status = 400, "INVALID_REQUEST">>,
                <<status >= 500, "PROVIDER_UNAVAILABLE">>,
                <<TRUE, "UNKNOWN_ERROR">> >>)

normalizeProviderError(status, cause, hint) ==
  IF byCause(status, cause) # None THEN byCause(status, cause) ELSE byAnswer(status, hint)

-----------------------------------------------------------------------------
(* Requests.  A message is its role and whether its text is blank. *)

Message == [role : {"system", "user", "assistant", "tool"}, blank : BOOLEAN]

Indices(messages, Keep(_)) == SelectSeq([k \in 1..Len(messages) |-> k], Keep)

(* The prompt and the texts of system messages, hoisted out of the talk. *)
Hoisted(system, messages) ==
  (IF system THEN <<0>> ELSE <<>>)
    \o Indices(messages, LAMBDA k : messages[k].role = "system" /\ ~messages[k].blank)

(* Mutant of MergedTurns: the merge forgets what the turn held before. *)
MergedTurnsLast(messages) ==
  FoldLeft(LAMBDA turns, k :
             LET role == IF messages[k].role = "assistant" THEN "assistant" ELSE "user"
             IN  IF turns # <<>> /\ Last(turns).role = role
                 THEN [turns EXCEPT ![Len(turns)].of = <<k>>]
                 ELSE Append(turns, [role |-> role, of |-> <<k>>]),
           <<>>, Indices(messages, LAMBDA k : messages[k].role # "system"))

(* Neighbours of one role become one turn; tools speak as the user. *)
MergedTurns(messages) ==
  FoldLeft(LAMBDA turns, k :
             LET role == IF messages[k].role = "assistant" THEN "assistant" ELSE "user"
             IN  IF turns # <<>> /\ Last(turns).role = role
                 THEN [turns EXCEPT ![Len(turns)].of = Append(@, k)]
                 ELSE Append(turns, [role |-> role, of |-> <<k>>]),
           <<>>, Indices(messages, LAMBDA k : messages[k].role # "system"))

Filler == [role |-> "user", of |-> <<0>>]

(* The first turn is the user's, if need be a blank one. *)
anthropicMessages(messages) ==
  LET turns == MergedTurns(messages)
  IN  IF turns = <<>> \/ turns[1].role = "assistant" THEN <<Filler>> \o turns ELSE turns

googleContents(messages) ==
  LET turns == MergedTurns(messages)
  IN  IF turns = <<>> \/ turns[1].role = "assistant" THEN <<Filler>> \o turns ELSE turns

OneByOne(system, messages) ==
  (IF system THEN <<[role |-> "system", of |-> <<0>>]>> ELSE <<>>)
    \o [k \in 1..Len(messages) |-> [role |-> messages[k].role, of |-> <<k>>]]

openaiMessages(system, messages) == OneByOne(system, messages)

ollamaMessages(system, messages) ==
  IF OneByOne(system, messages) = <<>> THEN <<Filler>> ELSE OneByOne(system, messages)

(* Payload of a request: turns, and the hoisted prompt where there is one. *)
Request(adapter, system, messages) ==
  FirstMatch(<< <<adapter = "anthropic",
                  [turns |-> anthropicMessages(messages), system |-> Hoisted(system, messages)]>>,
                <<adapter = "google",
                  [turns |-> googleContents(messages), system |-> Hoisted(system, messages)]>>,
                <<adapter = "openai", [turns |-> openaiMessages(system, messages), system |-> <<>>]>>,
                <<TRUE, [turns |-> ollamaMessages(system, messages), system |-> <<>>]>> >>)

-----------------------------------------------------------------------------
(* Frames.  A frame names a model, carries thought or text, a reason for   *)
(* finishing and token counts, or is an error, a safety block, the end or  *)
(* noise; n is its place in the stream.                                    *)

(* Reasons as the wire gives them, and as the adapters report them. *)
WireReasons == {"end", "limit", "tools", "filter", "odd"}
Reasons == {"stop", "length", "tool_calls", "content_filter", "other"}

openaiReason(reason) ==
  FirstMatch(<< <<reason = "end", "stop">>, <<reason = "limit", "length">>,
                <<reason = "tools", "tool_calls">>, <<reason = "filter", "content_filter">>,
                <<TRUE, "other">> >>)
anthropicReason(reason) ==
  FirstMatch(<< <<reason = "end", "stop">>, <<reason = "limit", "length">>,
                <<reason = "tools", "tool_calls">>, <<TRUE, "other">> >>)
googleReason(reason) ==
  FirstMatch(<< <<reason = "end", "stop">>, <<reason = "limit", "length">>,
                <<reason = "filter", "content_filter">>, <<TRUE, "other">> >>)
ollamaReason(reason) == IF reason = "limit" THEN "length" ELSE "stop"

Flags == {"plain", "error", "blocked", "done", "junk"}
Frame == [n : Nat, model : BOOLEAN, thought : BOOLEAN, text : BOOLEAN, finish : WireReasons \cup {None},
          tin : Nat \cup {None}, tout : Nat \cup {None}, flag : Flags, hint : Hints]

Event(type, of, finish, tin, tout) ==
  [type |-> type, of |-> of, finish |-> finish, tin |-> tin, tout |-> tout]
Thought(fr) == IF fr.thought THEN <<Event("thought", fr.n, None, None, None)>> ELSE <<>>
Text(fr) == IF fr.text THEN <<Event("text", fr.n, None, None, None)>> ELSE <<>>
Failed(code) == <<Event("error", 0, code, None, None)>>
Usage(st) == <<Event("usage", 0, None, st.tin, st.tout)>>

(* What a stream has said so far; counts start at 0 where the adapter      *)
(* reports them in any case, and are unknown elsewhere.                    *)
Fresh(adapter) ==
  LET none == IF adapter \in {"anthropic", "google"} THEN 0 ELSE None
  IN  [model |-> 0, finish |-> "stop", tin |-> none, tout |-> none, completed |-> FALSE, out |-> <<>>]

Complete(st) == <<Event("complete", st.model, st.finish, st.tin, st.tout)>>
Finish(st) == [st EXCEPT !.completed = TRUE, !.out = @ \o Complete(st)]
Counted(fr) == fr.tin # None \/ fr.tout # None
Say(st, events) == [st EXCEPT !.out = @ \o events]

Named(st, fr) == IF fr.model THEN [st EXCEPT !.model = fr.n] ELSE st
Reasoned(st, fr, Reason(_)) == IF fr.finish # None THEN [st EXCEPT !.finish = Reason(fr.finish)] ELSE st

(* Counts a frame leaves out are 0, or keep their value. *)
Replaced(st, fr) ==
  IF Counted(fr) THEN [st EXCEPT !.tin = Or0(fr.tin), !.tout = Or0(fr.tout)] ELSE st
Merged(st, fr) ==
  [st EXCEPT !.tin = IF fr.tin # None THEN fr.tin ELSE @, !.tout = IF fr.tout # None THEN fr.tout ELSE @]

(* openai: [DONE] ends; counts come before the text of the same chunk. *)
openaiFrame(st, fr) ==
  LET counted == Replaced(Named(st, fr), fr)
  IN  FirstMatch(<< <<fr.flag = "junk", st>>,
                    <<fr.flag = "done", Finish(st)>>,
                    <<fr.flag \in {"error", "blocked"}, Say(st, Failed(openaiError(500, fr.hint)))>>,
                    <<TRUE, Reasoned(Say(counted, (IF Counted(fr) THEN Usage(counted) ELSE <<>>)
                                                    \o Text(fr) \o Thought(fr)), fr, openaiReason)>> >>)

(* anthropic: each frame has a type and only that type's fields count.     *)
messageStart(st, fr) ==
  LET counted == [Named(st, fr) EXCEPT !.tin = Or0(fr.tin), !.tout = Or0(fr.tout)]
  IN  IF Counted(fr) THEN Say(counted, Usage(counted)) ELSE Named(st, fr)
messageDelta(st, fr) ==
  LET reasoned == Reasoned(st, fr, anthropicReason)
      counted == [reasoned EXCEPT !.tout = fr.tout]
  IN  IF fr.tout # None THEN Say(counted, Usage(counted)) ELSE reasoned
anthropicFrame(st, fr) ==
  FirstMatch(<< <<fr.flag = "junk", st>>,
                <<fr.flag = "done", Finish(st)>>,
                <<fr.flag \in {"error", "blocked"}, Say(st, Failed(anthropicError(500, fr.hint)))>>,
                <<fr.model, messageStart(st, fr)>>,
                <<fr.text, Say(st, Text(fr))>>,
                <<fr.thought, Say(st, Thought(fr))>>,
                <<TRUE, messageDelta(st, fr)>> >>)

(* google: a block by the safety filters is an error of its own. *)
googleFrame(st, fr) ==
  LET counted == Merged(Reasoned(Say(Named(st, fr), Thought(fr) \o Text(fr)), fr, googleReason), fr)
  IN  FirstMatch(<< <<fr.flag = "junk", st>>,
                    <<fr.flag = "done", Finish(st)>>,
                    <<fr.flag = "error", Say(st, Failed(googleError(500, fr.hint)))>>,
                    <<fr.flag = "blocked", Say(Named(st, fr), Failed("INVALID_REQUEST"))>>,
                    <<TRUE, IF Counted(fr) THEN Say(counted, Usage(counted)) ELSE counted>> >>)

(* ollama: one object per line; the last one also says done. *)
ollamaFrame(st, fr) ==
  LET said == Replaced(Reasoned(Say(Named(st, fr), Thought(fr) \o Text(fr)), fr, ollamaReason), fr)
      counted == IF Counted(fr) THEN Say(said, Usage(said)) ELSE said
  IN  FirstMatch(<< <<fr.flag = "junk", st>>,
                    <<fr.flag \in {"error", "blocked"}, Say(st, Failed(ollamaError(200, fr.hint)))>>,
                    <<fr.flag = "done", Finish(counted)>>,
                    <<TRUE, counted>> >>)

(* Of a last line that nothing ends, only text, counts and done are taken. *)
ollamaTail(st, fr) ==
  LET said == Replaced(Say(st, Text(fr)), fr)
      counted == IF Counted(fr) THEN Say(said, Usage(said)) ELSE said
  IN  IF fr.flag = "junk" THEN st
      ELSE IF fr.flag = "done" THEN Finish([Named(counted, fr) EXCEPT !.finish = ollamaReason(fr.finish)])
      ELSE counted

FrameOf(adapter, st, fr) ==
  FirstMatch(<< <<adapter = "openai", openaiFrame(st, fr)>>,
                <<adapter = "anthropic", anthropicFrame(st, fr)>>,
                <<adapter = "google", googleFrame(st, fr)>>,
                <<TRUE, ollamaFrame(st, fr)>> >>)

-----------------------------------------------------------------------------
(* Answers in one piece: a frame that holds everything, or a failure. *)

Reply(fr, finish) ==
  [code |-> "ok", text |-> fr.text, thought |-> fr.thought, finish |-> finish,
   tin |-> Or0(fr.tin), tout |-> Or0(fr.tout)]
NoReply(code) ==
  [code |-> code, text |-> FALSE, thought |-> FALSE, finish |-> None, tin |-> 0, tout |-> 0]

openaiComplete(fr) == Reply(fr, openaiReason(fr.finish))
anthropicComplete(fr) == Reply(fr, anthropicReason(fr.finish))
(* Nothing said, and no ordinary end: a failure, not an empty reply. *)
googleComplete(fr) ==
  IF fr.flag = "blocked" \/ (~fr.text /\ fr.finish # "end") THEN NoReply("INVALID_REQUEST")
  ELSE Reply(fr, googleReason(fr.finish))
ollamaComplete(fr) ==
  IF fr.flag = "error" THEN NoReply(ollamaError(200, fr.hint))
  ELSE Reply(fr, ollamaReason(fr.finish))

CompleteOf(adapter, fr) ==
  FirstMatch(<< <<adapter = "openai", openaiComplete(fr)>>,
                <<adapter = "anthropic", anthropicComplete(fr)>>,
                <<adapter = "google", googleComplete(fr)>>,
                <<TRUE, ollamaComplete(fr)>> >>)

-----------------------------------------------------------------------------
(* Lists of models.  A page holds items and says whether there are more,   *)
(* or is no JSON; an item has a name or none, and generates text or not.   *)

Item == [id : Nat, named : BOOLEAN, generates : BOOLEAN]
Page == [items : Seq(Item), more : BOOLEAN, readable : BOOLEAN]

(* anthropic and google: the pages that are asked for. *)
Asked(pages) ==
  CHOOSE k \in 1..Len(pages) :
    /\ k = Len(pages) \/ k = MaxPages + 1 \/ ~pages[k].more \/ ~pages[k].readable
    /\ \A j \in 1..(k - 1) : pages[j].more /\ pages[j].readable

Listing(pages, Keep(_)) ==
  FlattenSeq([k \in 1..Asked(pages) |->
    IF pages[k].readable THEN SelectSeq(pages[k].items, Keep) ELSE <<>>])

(* Only anthropic does not catch a page it cannot read. *)
anthropicDiscover(pages) ==
  IF pages[Asked(pages)].readable THEN Listing(pages, LAMBDA item : item.named) ELSE None
googleDiscover(pages) == Listing(pages, LAMBDA item : item.named /\ item.generates)
openaiDiscover(pages) == Listing(SubSeq(pages, 1, 1), LAMBDA item : item.named)
ollamaDiscover(pages) == Listing(SubSeq(pages, 1, 1), LAMBDA item : item.named)

DiscoverOf(adapter, pages) ==
  FirstMatch(<< <<adapter = "openai", openaiDiscover(pages)>>,
                <<adapter = "anthropic", anthropicDiscover(pages)>>,
                <<adapter = "google", googleDiscover(pages)>>,
                <<TRUE, ollamaDiscover(pages)>> >>)

(* A list that is not there is a capability that is not there. *)
discoverError(adapter, status, hint) ==
  LET code == mapError(adapter, status, hint)
  IN  IF code = "MODEL_NOT_FOUND" /\ adapter \in {"openai", "google"} THEN "UNSUPPORTED_CAPABILITY"
      ELSE code
=============================================================================
