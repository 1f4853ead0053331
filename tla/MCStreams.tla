----------------------------- MODULE MCStreams ------------------------------
(* The frames of the instance of Streams that TLC checks, and what the     *)
(* functions beside the streams are for.                                   *)
EXTENDS Streams

(* Text, thought with counts, a first frame, a last frame, an end that also *)
(* carries counts, a failure, a block and noise.                            *)
MCSample ==
  {[Noise EXCEPT !.flag = "plain", !.text = TRUE],
   [Noise EXCEPT !.flag = "plain", !.thought = TRUE, !.text = TRUE, !.tout = 2],
   [Noise EXCEPT !.flag = "plain", !.model = TRUE, !.tin = 1],
   [Noise EXCEPT !.flag = "plain", !.finish = "limit", !.tout = 3],
   [Noise EXCEPT !.flag = "done", !.text = TRUE, !.tin = 2],
   [Noise EXCEPT !.flag = "error", !.hint = "limit"],
   [Noise EXCEPT !.flag = "blocked"],
   Noise}

(* The frames in which a provider streams what it could say in one piece. *)
Streamed(ad, fr) ==
  LET done == [Noise EXCEPT !.flag = "done"]
      only(part) == [part EXCEPT !.flag = "plain", !.n = 1]
  IN  FirstMatch(<<
        <<ad = "anthropic",
          <<only([Noise EXCEPT !.model = TRUE, !.tin = Or0(fr.tin)])>>
            \o (IF fr.thought THEN <<only([Noise EXCEPT !.thought = TRUE])>> ELSE <<>>)
            \o (IF fr.text THEN <<only([Noise EXCEPT !.text = TRUE])>> ELSE <<>>)
            \o <<only([Noise EXCEPT !.finish = fr.finish, !.tout = fr.tout]), done>> >>,
        <<ad = "ollama", <<[fr EXCEPT !.flag = "done"]>> >>,
        <<TRUE, <<fr, done>> >> >>)

WholeAnswers ==
  [n : {1}, model : {TRUE}, thought : BOOLEAN, text : BOOLEAN, finish : WireReasons, tin : {None, 1},
   tout : {None, 2}, flag : {"plain", "blocked", "error"}, hint : {"limit"}]

(* complete and stream of an adapter make the same of the same answer: its *)
(* text, thought, reason and counts.  Only google differs: an answer that  *)
(* says nothing and did not end by itself is a failure in one piece, and a *)
(* finished empty reply as a stream.                                       *)
ASSUME WholeAsStreamed ==
  \A ad \in Adapters, fr \in WholeAnswers :
    LET whole == CompleteOf(ad, fr)
        out == FoldLeft(LAMBDA state, part : IF Ended(ad, state) THEN state ELSE FrameOf(ad, state, part),
                        Fresh(ad), IF fr.flag = "plain" THEN Streamed(ad, fr) ELSE <<fr>>).out
        says(type) == \E k \in DOMAIN out : out[k].type = type
    IN  /\ (fr.flag = "blocked" /\ ad = "google") \/ (fr.flag = "error" /\ ad = "ollama") =>
             out = Failed(whole.code)
        /\ fr.flag = "plain" /\ whole.code = "ok" =>
             /\ whole.text <=> says("text")
             /\ whole.thought <=> says("thought")
             /\ Last(out).type = "complete" /\ Last(out).finish = whole.finish
             /\ Or0(Last(out).tin) = whole.tin /\ Or0(Last(out).tout) = whole.tout
        /\ fr.flag = "plain" /\ whole.code # "ok" => ad = "google" /\ ~says("text") /\ fr.finish # "end"

(* PageLists of up to one page more than is asked for, two models to a page. *)
MCItems(k) ==
  <<[id |-> 2 * k, named |-> TRUE, generates |-> TRUE], [id |-> 2 * k + 1, named |-> k # 2, generates |-> k = 1]>>
PageLists ==
  UNION {{[k \in 1..n |-> [items |-> MCItems(k), more |-> k < n \/ endless, readable |-> k \notin bad]] :
            endless \in BOOLEAN, bad \in SUBSET (1..n)} : n \in 1..(MaxPages + 2)}

(* A discovery that ends in an answer has every usable model of the pages  *)
(* up to the bound or the first that cannot be read, in the provider's     *)
(* order and none twice; one bad page never hides the models before it     *)
(* except from anthropic, which reports a failure.                         *)
ASSUME ListsDiscovered ==
  \A ad \in Adapters, pages \in PageLists :
    LET found == DiscoverOf(ad, pages)
        paged == ad \in {"anthropic", "google"}
        bad   == {k \in DOMAIN pages : ~pages[k].readable}
        shown == {k \in DOMAIN pages : /\ k <= (IF paged THEN MaxPages + 1 ELSE 1)
                                        /\ \A j \in bad : k < j}
        usable(item) == item.named /\ (ad = "google" => item.generates)
    IN  IF found = None
        THEN ad = "anthropic" /\ \E k \in bad : k <= MaxPages + 1
        ELSE /\ {found[i].id : i \in DOMAIN found} =
                  UNION {{pages[k].items[i].id : i \in {j \in 1..2 : usable(pages[k].items[j])}} : k \in shown}
             /\ \A i, j \in DOMAIN found : i < j => found[i].id < found[j].id

(* A provider without a list of models is told apart from one that fails,  *)
(* whatever its refusal says of a model.                                   *)
ASSUME ListMissing ==
  \A ad \in {"openai", "google"}, hint \in Hints \ {"auth"} :
    discoverError(ad, 404, hint) = "UNSUPPORTED_CAPABILITY" /\ discoverError(ad, 503, "none") \in Retryable

(* What no adapter has classified is a cancellation only when it is one,   *)
(* and every outcome has a row in the table of statuses.                   *)
ASSUME NormalizedSoundly ==
  \A status \in Statuses \cup {0}, cause \in Causes, hint \in Hints :
    LET code == normalizeProviderError(status, cause, hint)
    IN  /\ code \in Codes /\ mapErrorCodeToHttpStatus(code) = ClassStatus[code]
        /\ code = "REQUEST_ABORTED" <=> cause = "abort" \/ status = 499

(* Whatever is thrown, a client that is still waiting gets an answer with a*)
(* status and a code, and the text of a defect is never among them.        *)
ASSUME EveryFailureAnswered ==
  \A ex \in Exceptions :
    /\ buildBody(ex).status >= 400 /\ buildBody(ex).code # None
    /\ Caught(ex, TRUE).status = 0
    /\ ex.kind = "defect" => toStreamErrorPayload(ex).code = "UNKNOWN_ERROR"
=============================================================================
