--------------------------- MODULE ChatViewProofs ---------------------------
(***************************************************************************)
(* What holds of the chat screen for every set of chats, every page size   *)
(* and every number of messages, in whatever order the answers arrive.     *)
(*                                                                         *)
(* ScreenSound and NothingHidden are not inductive: whether an older page  *)
(* joins the messages that are there depends on what its request was made  *)
(* for, and on the server's chat being no shorter by then.  Addressed says *)
(* whom the requests under way are for, Shown how far the messages on      *)
(* screen reach and what a request for older ones finds when it arrives.   *)
(***************************************************************************)
EXTENDS ChatView, TLAPS, SequenceTheorems

(* The requests under way, and what the screen has before any is made. *)
Addressed ==
  /\ \A k \in Calls : UnderWay(k) => call[k].chat \in Chats /\ at # NoChat
  /\ \A k \in Calls : call[k].size <= MaxMessages
  /\ UnderWay("chat") => call["chat"].chat = at
  /\ UnderWay("page") => call["page"].chat = at /\ call["page"].before = 0
  /\ call["page"].state = "answered" => call["page"].size <= size[at]
  /\ UnderWay("save") /\ call["save"].fresh => call["save"].chat = at
  /\ at = NoChat => header = NoChat /\ failure = "none" /\ messages = <<>> /\ total = 0

(* A request for older messages that is still of the screen it was made on. *)
Awaited == UnderWay("older") /\ call["older"].fresh

Shown ==
  "older" \notin strayed =>
    /\ OfOneChat
    /\ messages # <<>> => messages[1].sequence + Len(messages) - 1 <= total
    /\ at # NoChat => total <= size[at]
    /\ Awaited => /\ ~UnderWay("page")
                  /\ messages # <<>>
                  /\ call["older"].chat = at
                  /\ call["older"].before = messages[1].sequence
                  /\ call["older"].state = "answered" =>
                       total <= call["older"].size /\ call["older"].size <= size[at]

IInv == TypeOK /\ Addressed /\ Shown /\ HeaderSound

-----------------------------------------------------------------------------
(* A page ends before its cursor, or with the chat. *)

PageEnd(c) == IF c.before = 0 THEN c.size ELSE Lower(c.before - 1, c.size)

LEMMA PageShows ==
  ASSUME NEW c \in Call, c.chat \in Chats
  PROVE  /\ Page(c) \in Seq(Turn)
         /\ PageEnd(c) \in Nat /\ Len(Page(c)) \in Nat /\ Len(Page(c)) <= PageEnd(c)
         /\ \A i \in 1..Len(Page(c)) :
              Page(c)[i].chat = c.chat /\ Page(c)[i].sequence = PageEnd(c) - Len(Page(c)) + i
<1> DEFINE end == PageEnd(c)
           n == Lower(PageSize, end)
<1>1. end \in Nat BY DEF PageEnd, Lower, Call
<1>2. n \in Nat /\ n <= end BY <1>1, ChatViewAssumption DEF Lower
<1>3. Page(c) = [i \in 1..n |-> [chat |-> c.chat, sequence |-> end - n + i]] BY DEF Page, PageEnd
<1> HIDE DEF end, n
<1>4. \A i \in 1..n : end - n + i \in Nat \ {0} BY <1>1, <1>2
<1>5. Page(c) \in [1..n -> Turn] BY <1>3, <1>4 DEF Turn
<1>6. Page(c) \in Seq(Turn) BY <1>2, <1>5, SeqDef
<1>7. Len(Page(c)) = n BY <1>2, <1>5, <1>6, LenProperties
<1> QED BY <1>1, <1>2, <1>3, <1>6, <1>7 DEF end

LEMMA NoCallTyped == NoCall \in Call /\ \A c \in Chats \cup {NoChat}, n \in Nat :
                       /\ Sent(c, n) \in Call /\ Sent(c, n).state = "sent" /\ Sent(c, n).chat = c
                       /\ Sent(c, n).before = n /\ Sent(c, n).size = 0 /\ Sent(c, n).fresh
BY DEF NoCall, Call, Sent

(* What load() leaves of the requests. *)
LEMMA LoadLeaves ==
  ASSUME TypeOK, NEW c \in Chats, Load(c)
  PROVE  /\ call' \in [Calls -> Call]
         /\ call'["chat"] = Sent(c, 0) /\ call'["page"] = Sent(c, 0)
         /\ \A k \in {"older", "save"} :
              /\ call'[k].state = call[k].state /\ call'[k].chat = call[k].chat
              /\ call'[k].before = call[k].before /\ call'[k].size = call[k].size
         /\ call'["older"].fresh <=> ~UnderWay("older")
         /\ call'["save"].fresh <=> ~UnderWay("save") \/ (call["save"].fresh /\ c = at)
<1> DEFINE older == [call["older"] EXCEPT !.fresh = ~UnderWay("older")]
           save == [call["save"] EXCEPT !.fresh = ~UnderWay("save") \/ (@ /\ c = at)]
<1>1. /\ call["older"] \in Call /\ call["save"] \in Call /\ call \in [Calls -> Call]
      /\ Sent(c, 0) \in Call
  BY NoCallTyped DEF TypeOK, Calls
<1>2. /\ call'["older"] = older /\ call'["save"] = save
      /\ call'["chat"] = Sent(c, 0) /\ call'["page"] = Sent(c, 0)
      /\ DOMAIN call' = Calls
  BY <1>1 DEF Load, Calls
<1>3. /\ older \in Call /\ older.state = call["older"].state /\ older.chat = call["older"].chat
      /\ older.before = call["older"].before /\ older.size = call["older"].size
      /\ older.fresh = ~UnderWay("older")
  BY <1>1 DEF Call
<1>4. /\ save \in Call /\ save.state = call["save"].state /\ save.chat = call["save"].chat
      /\ save.before = call["save"].before /\ save.size = call["save"].size
      /\ save.fresh = (~UnderWay("save") \/ (call["save"].fresh /\ c = at))
  BY <1>1 DEF Call
<1> HIDE DEF older, save
<1>5. call' \in [Calls -> Call]
  <2>1. \A k \in Calls : call'[k] \in Call BY <1>1, <1>2, <1>3, <1>4 DEF Calls
  <2>2. call' = [k \in Calls |-> call'[k]] BY <1>1, <1>2 DEF Load
  <2> QED BY <2>1, <2>2
<1> QED BY <1>2, <1>3, <1>4, <1>5

-----------------------------------------------------------------------------
(* One request is made, answered or over. *)
LEMMA Puts ==
  ASSUME TypeOK, NEW k \in Calls, NEW c \in Call, call' = [call EXCEPT ![k] = c]
  PROVE  call' \in [Calls -> Call] /\ \A j \in Calls : call'[j] = IF j = k THEN c ELSE call[j]
BY DEF TypeOK

LEMMA Typed ==
  TypeOK => /\ call \in [Calls -> Call] /\ \A k \in Calls : call[k] \in Call
            /\ messages \in Seq(Turn) /\ Len(messages) \in Nat /\ DOMAIN messages = 1..Len(messages)
            /\ \A i \in 1..Len(messages) : messages[i] \in Turn
            /\ total \in Nat /\ total <= MaxMessages /\ MaxMessages \in Nat
            /\ \A c \in Chats : size[c] \in Nat /\ size[c] <= MaxMessages
<1> SUFFICES ASSUME TypeOK
             PROVE  /\ call \in [Calls -> Call] /\ \A k \in Calls : call[k] \in Call
                    /\ messages \in Seq(Turn) /\ Len(messages) \in Nat /\ DOMAIN messages = 1..Len(messages)
                    /\ \A i \in 1..Len(messages) : messages[i] \in Turn
                    /\ total \in Nat /\ total <= MaxMessages /\ MaxMessages \in Nat
                    /\ \A c \in Chats : size[c] \in Nat /\ size[c] <= MaxMessages
  OBVIOUS
<1>1. Len(messages) \in Nat /\ DOMAIN messages = 1..Len(messages) BY LenProperties DEF TypeOK
<1>2. \A i \in 1..Len(messages) : messages[i] \in Turn BY <1>1, ElementOfSeq DEF TypeOK
<1> QED BY <1>1, <1>2, ChatViewAssumption DEF TypeOK

LEMMA InitIInv == Init => IInv
<1> SUFFICES ASSUME Init PROVE IInv
  OBVIOUS
<1>1. NoCall \in Call /\ NoCall.state = "none" /\ NoCall.size = 0 /\ NoCall.fresh BY DEF NoCall, Call
<1>2. messages \in Seq(Turn) /\ DOMAIN messages = {} BY EmptySeq DEF Init
<1>3. \A k \in Calls : call[k] = NoCall /\ ~UnderWay(k) BY <1>1 DEF Init, UnderWay
<1>4. "chat" \in Calls /\ "page" \in Calls /\ "older" \in Calls /\ "save" \in Calls BY DEF Calls
<1>5. TypeOK
  <2>1. call \in [Calls -> Call] BY <1>1 DEF Init
  <2>2. 0 \in 0..MaxMessages BY ChatViewAssumption
  <2> QED BY ONLY Init, <1>2, <2>1, <2>2 DEF Init, TypeOK
<1>0. 0 <= MaxMessages BY ChatViewAssumption
<1>6. Addressed BY <1>0, <1>1, <1>3, <1>4 DEF Init, Addressed
<1>7. Shown BY <1>2, <1>3, <1>4 DEF Init, Shown, OfOneChat, Awaited
<1>8. HeaderSound BY DEF Init, HeaderSound
<1> QED BY <1>5, <1>6, <1>7, <1>8 DEF IInv

(* The component is made or destroyed. *)
LEMMA ClosedIInv ==
  ASSUME IInv, Close, TypeOK', UNCHANGED <<size>>
  PROVE  IInv'
<1>1. NoCall.state = "none" /\ NoCall.size = 0 BY DEF NoCall
<1>2. DOMAIN messages' = {} BY EmptySeq DEF Close, Emptied
<1>3. \A k \in Calls : call'[k] = NoCall /\ ~UnderWay(k)' BY <1>1 DEF Close, UnderWay
<1>4. "chat" \in Calls /\ "page" \in Calls /\ "older" \in Calls /\ "save" \in Calls BY DEF Calls
<1>0. 0 <= MaxMessages BY ChatViewAssumption
<1>6. Addressed' BY <1>0, <1>1, <1>3, <1>4 DEF Close, Emptied, Addressed
<1>7. Shown' BY <1>2, <1>3, <1>4 DEF Close, Emptied, Shown, OfOneChat, Awaited
<1>8. HeaderSound' BY DEF Close, HeaderSound
<1> QED BY <1>6, <1>7, <1>8 DEF IInv

LEMMA ClosedTyped ==
  ASSUME TypeOK, Close, UNCHANGED size, there' \subseteq Chats, removing' \subseteq Chats
  PROVE  TypeOK'
<1>1. messages' \in Seq(Turn) BY EmptySeq DEF Close, Emptied
<1>2. call' \in [Calls -> Call] BY NoCallTyped DEF Close
<1>3. 0 \in 0..MaxMessages BY ChatViewAssumption
<1> QED BY ONLY TypeOK, Close, UNCHANGED size, there' \subseteq Chats, removing' \subseteq Chats, <1>1, <1>2, <1>3
        DEF Close, Emptied, TypeOK

(* The screen turns to a chat, the one it shows or another. *)
LEMMA LoadedIInv ==
  ASSUME IInv, NEW c \in Chats, Load(c), at' = c, UNCHANGED <<size, there, header, removing, strayed>>
  PROVE  IInv'
<1>1. TypeOK BY DEF IInv
<1>2. /\ call' \in [Calls -> Call]
      /\ call'["chat"] = Sent(c, 0) /\ call'["page"] = Sent(c, 0)
      /\ \A k \in {"older", "save"} :
           /\ call'[k].state = call[k].state /\ call'[k].chat = call[k].chat
           /\ call'[k].before = call[k].before /\ call'[k].size = call[k].size
      /\ call'["older"].fresh <=> ~UnderWay("older")
      /\ call'["save"].fresh <=> ~UnderWay("save") \/ (call["save"].fresh /\ c = at)
  BY <1>1, LoadLeaves
<1>3. /\ Sent(c, 0).state = "sent" /\ Sent(c, 0).chat = c /\ Sent(c, 0).before = 0 /\ Sent(c, 0).size = 0
  BY NoCallTyped, ChatViewAssumption
<1>4. {"chat", "page", "older", "save"} = Calls BY DEF Calls
<1>5. messages' = <<>> /\ messages' \in Seq(Turn) /\ DOMAIN messages' = {} /\ total' = 0 /\ failure' = "none"
      /\ unread' = FALSE
  BY EmptySeq DEF Load, Emptied
<1>6. /\ UnderWay("chat")' /\ UnderWay("page")' /\ UnderWay("older")' = UnderWay("older")
      /\ UnderWay("save")' = UnderWay("save")
  BY <1>2, <1>3 DEF UnderWay
<1>7. TypeOK'
  <2>1. call' \in [Calls -> Call] BY <1>2
  <2>2. 0 \in 0..MaxMessages BY ChatViewAssumption
  <2> QED BY ONLY <1>1, <1>5, <2>1, <2>2, c \in Chats, at' = c,
                  UNCHANGED <<size, there, header, removing, strayed>> DEF TypeOK
<1>8. Addressed'
  <2>1. ASSUME NEW k \in Calls PROVE (UnderWay(k) => call[k].chat \in Chats /\ at # NoChat)' /\ call'[k].size <= MaxMessages
    <3>1. CASE k \in {"chat", "page"} BY <1>2, <1>3, <3>1, ChatViewAssumption
    <3>2. CASE k \in {"older", "save"}
      BY <1>2, <1>4, <1>6, <3>2, ChatViewAssumption DEF IInv, Addressed
    <3> QED BY <1>4, <3>1, <3>2
  <2>2. UnderWay("save")' /\ call'["save"].fresh => call'["save"].chat = at'
    BY <1>2, <1>6 DEF IInv, Addressed
  <2> QED BY <1>2, <1>3, <2>1, <2>2, ChatViewAssumption DEF Addressed
<1>9. Shown'
  <2>1. 0 <= size[c] BY <1>1, Typed
  <2>2. ~Awaited' BY <1>2, <1>6 DEF Awaited
  <2> QED BY <1>5, <2>1, <2>2 DEF Shown, OfOneChat
<1>10. HeaderSound' BY <1>6 DEF HeaderSound
<1> QED BY <1>7, <1>8, <1>9, <1>10 DEF IInv

-----------------------------------------------------------------------------
(* The server: a chat only grows, so that a page that was asked for is     *)
(* still there when the request is answered.                               *)
LEMMA ServerIInv ==
  ASSUME IInv, NEW c \in Chats, AppendMessage(c) \/ DeleteChat(c)
  PROVE  IInv'
<1>1. UNCHANGED <<screen, call, removing, strayed>> BY DEF AppendMessage, DeleteChat
<1>2. TypeOK BY DEF IInv
<1>3. size' \in [Chats -> 0..MaxMessages] /\ \A x \in Chats : size[x] <= size'[x]
  <2>1. CASE AppendMessage(c)
    <3>1. size[c] + 1 \in 0..MaxMessages /\ size[c] \in Nat BY <1>2, <2>1, Typed DEF AppendMessage
    <3>2. size' = [size EXCEPT ![c] = size[c] + 1] BY <2>1 DEF AppendMessage
    <3>3. size \in [Chats -> 0..MaxMessages] /\ \A x \in Chats : size[x] \in Nat BY <1>2, Typed DEF TypeOK
    <3> QED BY <3>1, <3>2, <3>3
  <2>2. CASE DeleteChat(c)
    <3>1. \A x \in Chats : size[x] \in Nat BY <1>2, Typed
    <3> QED BY <1>2, <2>2, <3>1 DEF DeleteChat, TypeOK
  <2> QED BY <2>1, <2>2
<1>4. there' \subseteq Chats BY <1>2 DEF AppendMessage, DeleteChat, TypeOK
<1>5. TypeOK' BY <1>1, <1>2, <1>3, <1>4 DEF TypeOK, screen
<1>6. /\ \A x \in Chats : size[x] \in Nat /\ size'[x] \in Nat /\ size[x] <= size'[x]
      /\ total \in Nat /\ \A k \in Calls : call[k].size \in Nat
  BY <1>2, <1>3, Typed DEF Call
<1>7. at # NoChat => at \in Chats BY <1>2 DEF TypeOK
<1>8. "page" \in Calls /\ "older" \in Calls BY DEF Calls
<1>9. Addressed'
  <2>1. call["page"].state = "answered" => call["page"].size <= size'[at]
    <3> SUFFICES ASSUME call["page"].state = "answered" PROVE call["page"].size <= size'[at]
      OBVIOUS
    <3>1. call["page"].size <= size[at] /\ at \in Chats BY <1>7, <1>8 DEF IInv, Addressed, UnderWay
    <3> QED BY <1>6, <1>8, <3>1
  <2> QED BY <1>1, <2>1 DEF IInv, Addressed, UnderWay, screen
<1>10. Shown'
  <2>1. at # NoChat /\ total <= size[at] => total <= size'[at] BY <1>6, <1>7
  <2>2. at # NoChat /\ call["older"].size <= size[at] => call["older"].size <= size'[at] BY <1>6, <1>7, <1>8
  <2>3. Awaited => at # NoChat BY <1>8 DEF IInv, Addressed, Awaited
  <2> QED BY <1>1, <2>1, <2>2, <2>3 DEF IInv, Shown, OfOneChat, Awaited, UnderWay, screen
<1>11. HeaderSound' BY <1>1 DEF IInv, HeaderSound, UnderWay, screen
<1> QED BY <1>5, <1>9, <1>10, <1>11 DEF IInv

LEMMA AnswerIInv ==
  ASSUME IInv, NEW k \in {"page", "older"}, Answer(k)
  PROVE  IInv'
<1>1. TypeOK /\ k \in Calls /\ "chat" \in Calls /\ "page" \in Calls /\ "older" \in Calls /\ "save" \in Calls
  BY DEF IInv, Calls
<1>2. UNCHANGED <<server, screen, removing, strayed>> /\ call[k].state = "sent" BY DEF Answer
<1>3. /\ call[k] \in Call /\ \A j \in Calls : call[j] \in Call
      /\ call[k].chat \in Chats /\ size[call[k].chat] \in Nat /\ size[call[k].chat] <= MaxMessages
  BY <1>1, <1>2, Typed DEF IInv, Addressed, UnderWay
<1>4. PICK c \in Call : /\ call' = [call EXCEPT ![k] = c]
                        /\ c.chat = call[k].chat /\ c.before = call[k].before /\ c.fresh = call[k].fresh
                        /\ \/ c.state = "answered" /\ c.size = size[call[k].chat]
                           \/ c.state = "refused" /\ c.size = call[k].size
  <2>1. CASE call' = [call EXCEPT ![k].state = "refused"]
    <3> DEFINE c == [call[k] EXCEPT !.state = "refused"]
    <3>1. /\ c \in Call /\ c.chat = call[k].chat /\ c.before = call[k].before /\ c.fresh = call[k].fresh
          /\ c.state = "refused" /\ c.size = call[k].size
      BY <1>3 DEF Call
    <3>2. call' = [call EXCEPT ![k] = c] BY <1>1, <2>1, Typed
    <3> HIDE DEF c
    <3> QED BY <3>1, <3>2
  <2>2. CASE call' = [call EXCEPT ![k].state = "answered", ![k].size = size[call[k].chat]]
    <3> DEFINE c == [call[k] EXCEPT !.state = "answered", !.size = size[call[k].chat]]
    <3>1. /\ c \in Call /\ c.chat = call[k].chat /\ c.before = call[k].before /\ c.fresh = call[k].fresh
          /\ c.state = "answered" /\ c.size = size[call[k].chat]
      BY <1>3 DEF Call
    <3>2. call' = [call EXCEPT ![k] = c] BY <1>1, <2>2, Typed
    <3> HIDE DEF c
    <3> QED BY <3>1, <3>2
  <2> QED BY <2>1, <2>2 DEF Answer
<1>5. call' \in [Calls -> Call] /\ \A j \in Calls : call'[j] = IF j = k THEN c ELSE call[j]
  BY <1>1, <1>4, Puts
<1>6. \A j \in Calls : /\ UnderWay(j)' <=> UnderWay(j)
                       /\ call'[j].chat = call[j].chat /\ call'[j].before = call[j].before
                       /\ call'[j].fresh = call[j].fresh
                       /\ j # k => call'[j] = call[j]
  BY <1>2, <1>4, <1>5 DEF UnderWay
<1>7. TypeOK' BY <1>1, <1>2, <1>5 DEF TypeOK, server, screen
<1>8. Addressed'
  <2>1. \A j \in Calls : call'[j].size <= MaxMessages
    BY <1>1, <1>3, <1>4, <1>5 DEF IInv, Addressed
  <2>2. call'["page"].state = "answered" => call'["page"].size <= size[at]
    <3>1. CASE k = "page"
      <4>1. call[k].chat = at /\ call'["page"] = c BY <1>1, <1>2, <1>5, <3>1 DEF IInv, Addressed, UnderWay
      <4> QED BY <1>3, <1>4, <4>1
    <3>2. CASE k # "page" BY <1>1, <1>6, <3>2 DEF IInv, Addressed
    <3> QED BY <3>1, <3>2
  <2> QED BY <1>1, <1>2, <1>6, <2>1, <2>2 DEF IInv, Addressed, server, screen
<1>9. Shown'
  <2> SUFFICES ASSUME "older" \notin strayed, Awaited'
               PROVE  call'["older"].state = "answered" =>
                        total <= call'["older"].size /\ call'["older"].size <= size[at]
    BY <1>1, <1>2, <1>6 DEF IInv, Shown, OfOneChat, Awaited, server, screen
  <2>1. Awaited /\ call["older"].chat = at /\ at # NoChat
    BY <1>1, <1>6 DEF IInv, Shown, Awaited, Addressed
  <2>2. CASE k = "older"
    <3>1. total <= size[at] /\ call'["older"] = c /\ call[k].chat = at BY <1>1, <1>5, <2>1, <2>2 DEF IInv, Shown
    <3> QED BY <1>3, <1>4, <3>1
  <2>3. CASE k # "older" BY <1>1, <1>6, <2>1, <2>3 DEF IInv, Shown
  <2> QED BY <2>2, <2>3
<1>10. HeaderSound' BY <1>1, <1>2, <1>6 DEF IInv, HeaderSound, screen
<1> QED BY <1>7, <1>8, <1>9, <1>10 DEF IInv

-----------------------------------------------------------------------------
(* The user. *)
LEMMA UserIInv ==
  ASSUME IInv, (\E c \in Chats : Navigate(c)) \/ Reload \/ Leave \/ LoadOlder \/ Save \/ Remove
  PROVE  IInv'
<1>0. TypeOK /\ "chat" \in Calls /\ "page" \in Calls /\ "older" \in Calls /\ "save" \in Calls
  BY DEF IInv, Calls
<1>1. ASSUME NEW c \in Chats, Navigate(c) PROVE IInv'
  BY <1>1, LoadedIInv DEF Navigate, server
<1>2. CASE Reload
  <2>1. at \in Chats BY <1>0, <1>2 DEF Reload, Visible, IInv, Addressed, TypeOK
  <2> QED BY <1>2, <2>1, LoadedIInv DEF Reload, server
<1>3. CASE Leave
  <2>1. TypeOK' BY <1>0, <1>3, ClosedTyped DEF Leave, server, TypeOK
  <2> QED BY <1>3, <2>1, ClosedIInv DEF Leave, server
<1>4. CASE LoadOlder
  <2>1. /\ at \in Chats /\ messages # <<>> /\ ~UnderWay("page") /\ ~UnderWay("older")
        /\ UNCHANGED <<server, screen, removing, strayed>>
    BY <1>0, <1>4 DEF LoadOlder, Visible, TypeOK
  <2>2. messages[1].sequence \in Nat
    <3>1. Len(messages) > 0 BY <1>0, <2>1, EmptySeq DEF TypeOK
    <3> QED BY <1>0, <3>1, Typed DEF Turn
  <2>3. PICK c \in Call : /\ c = Sent(at, messages[1].sequence) /\ c.state = "sent" /\ c.chat = at
                          /\ c.before = messages[1].sequence /\ c.size = 0 /\ c.fresh
    BY <2>1, <2>2, NoCallTyped
  <2>4. call' = [call EXCEPT !["older"] = c] BY <1>4, <2>3 DEF LoadOlder
  <2>5. call' \in [Calls -> Call] /\ \A j \in Calls : call'[j] = IF j = "older" THEN c ELSE call[j]
    BY <1>0, <2>4, Puts
  <2>6. \A j \in Calls : j # "older" => call'[j] = call[j] /\ UnderWay(j)' = UnderWay(j)
    BY <2>5 DEF UnderWay
  <2>7. TypeOK' BY <1>0, <2>1, <2>5 DEF TypeOK, server, screen
  <2>8. Addressed'
    <3>1. \A k \in Calls : UnderWay(k)' => call'[k].chat \in Chats /\ at # NoChat
      BY <1>0, <2>1, <2>3, <2>5, <2>6, ChatViewAssumption DEF IInv, Addressed
    <3>2. \A k \in Calls : call'[k].size <= MaxMessages
      BY <2>3, <2>5, <2>6, ChatViewAssumption DEF IInv, Addressed
    <3> QED BY <1>0, <2>1, <2>6, <3>1, <3>2 DEF IInv, Addressed, server, screen
  <2>9. Shown'
    BY <1>0, <2>1, <2>3, <2>5, <2>6 DEF IInv, Shown, OfOneChat, Awaited, server, screen
  <2>10. HeaderSound' BY <1>0, <2>1, <2>6 DEF IInv, HeaderSound, screen
  <2> QED BY <2>7, <2>8, <2>9, <2>10 DEF IInv
<1>5. CASE Save
  <2>1. at \in Chats /\ header \in Chats /\ UNCHANGED <<server, screen, removing, strayed>>
    BY <1>0, <1>5 DEF Save, Visible, TypeOK
  <2> DEFINE sent == [Sent(header, 0) EXCEPT !.fresh = (header = at)]
  <2>2. sent \in Call /\ sent.state = "sent" /\ sent.chat = header /\ sent.size = 0 /\ sent.fresh = (header = at)
    <3>1. Sent(header, 0) \in Call /\ Sent(header, 0).state = "sent" /\ Sent(header, 0).chat = header
          /\ Sent(header, 0).size = 0
      BY <2>1, NoCallTyped, ChatViewAssumption
    <3> QED BY <3>1 DEF Call
  <2>4. call' = [call EXCEPT !["save"] = sent] BY <1>5 DEF Save
  <2> HIDE DEF sent
  <2>5. call' \in [Calls -> Call] /\ \A j \in Calls : call'[j] = IF j = "save" THEN sent ELSE call[j]
    BY <1>0, <2>2, <2>4, Puts
  <2>6. \A j \in Calls : j # "save" => call'[j] = call[j] /\ UnderWay(j)' = UnderWay(j)
    BY <2>5 DEF UnderWay
  <2>7. TypeOK' BY <1>0, <2>1, <2>5 DEF TypeOK, server, screen
  <2>8. Addressed'
    <3>1. \A k \in Calls : UnderWay(k)' => call'[k].chat \in Chats /\ at # NoChat
      BY <1>0, <2>1, <2>2, <2>5, <2>6, ChatViewAssumption DEF IInv, Addressed
    <3>2. \A k \in Calls : call'[k].size <= MaxMessages
      BY <2>2, <2>5, <2>6, ChatViewAssumption DEF IInv, Addressed
    <3>3. call'["save"].fresh => call'["save"].chat = at BY <1>0, <2>2, <2>5
    <3> QED BY <1>0, <2>1, <2>6, <3>1, <3>2, <3>3 DEF IInv, Addressed, server, screen
  <2>9. Shown' BY <1>0, <2>1, <2>6 DEF IInv, Shown, OfOneChat, Awaited, server, screen
  <2>10. HeaderSound' BY <1>0, <2>1, <2>6 DEF IInv, HeaderSound, screen
  <2> QED BY <2>7, <2>8, <2>9, <2>10 DEF IInv
<1>6. CASE Remove
  <2>1. TypeOK' BY <1>0, <1>6 DEF Remove, Visible, TypeOK, server, screen
  <2>2. UNCHANGED <<size, at, header, failure, messages, unread, total, call, strayed>>
    BY <1>6 DEF Remove, server, screen
  <2>3. Addressed' BY <2>2 DEF IInv, Addressed, UnderWay
  <2>4. Shown' BY <2>2 DEF IInv, Shown, OfOneChat, Awaited, UnderWay
  <2>5. HeaderSound' BY <2>2 DEF IInv, HeaderSound, UnderWay
  <2> QED BY <2>1, <2>3, <2>4, <2>5 DEF IInv
<1> QED BY <1>1, <1>2, <1>3, <1>4, <1>5, <1>6

-----------------------------------------------------------------------------
(* The answers. *)

(* A request is over. *)
LEMMA OverLeaves ==
  ASSUME IInv, NEW k \in Calls, Done(k)
  PROVE  /\ call' \in [Calls -> Call] /\ ~UnderWay(k)' /\ ~(k = "older" /\ Awaited')
         /\ call'[k].state = "none"
         /\ \A j \in Calls : call'[j].size <= MaxMessages
         /\ \A j \in Calls : j # k => call'[j] = call[j] /\ UnderWay(j)' = UnderWay(j)
         /\ \A j \in Calls : UnderWay(j)' => UnderWay(j) /\ call'[j] = call[j]
<1>1. NoCall \in Call /\ NoCall.state = "none" /\ NoCall.size = 0 BY NoCallTyped DEF NoCall
<1>2. call' \in [Calls -> Call] /\ \A j \in Calls : call'[j] = IF j = k THEN NoCall ELSE call[j]
  BY <1>1, Puts DEF IInv, Done
<1>3. ~UnderWay(k)' /\ \A j \in Calls : j # k => call'[j] = call[j] /\ UnderWay(j)' = UnderWay(j)
  BY <1>1, <1>2 DEF UnderWay
<1>4. \A j \in Calls : call'[j].size <= MaxMessages
  BY <1>1, <1>2, ChatViewAssumption DEF IInv, Addressed
<1> QED BY <1>1, <1>2, <1>3, <1>4 DEF Awaited

LEMMA ChatAnswersIInv ==
  ASSUME IInv, ChatArrives \/ OlderRefused
  PROVE  IInv'
<1>0. TypeOK /\ "chat" \in Calls /\ "page" \in Calls /\ "older" \in Calls /\ "save" \in Calls
  BY DEF IInv, Calls
<1>1. CASE ChatArrives
  <2>1. /\ call' \in [Calls -> Call] /\ ~UnderWay("chat")'
        /\ \A j \in Calls : call'[j].size <= MaxMessages
        /\ \A j \in Calls : j # "chat" => call'[j] = call[j] /\ UnderWay(j)' = UnderWay(j)
        /\ \A j \in Calls : UnderWay(j)' => UnderWay(j) /\ call'[j] = call[j]
    BY <1>0, <1>1, OverLeaves DEF ChatArrives
  <2>2. /\ UNCHANGED <<server, at, messages, unread, total, removing, strayed>>
        /\ at # NoChat /\ call["chat"].chat = at
    BY <1>0, <1>1 DEF ChatArrives, IInv, Addressed, UnderWay
  <2>3. header' \in {at, NoChat} BY <1>1, <2>2 DEF ChatArrives
  <2>4. failure' \in {"none", "missing", "failed"} BY <1>1 DEF ChatArrives
  <2>5. TypeOK' BY <1>0, <2>1, <2>2, <2>3, <2>4 DEF TypeOK, server
  <2>6. Addressed' BY <1>0, <2>1, <2>2 DEF IInv, Addressed, server
  <2>7. Shown' BY <1>0, <2>1, <2>2 DEF IInv, Shown, OfOneChat, Awaited, server
  <2>8. HeaderSound' BY <2>2, <2>3 DEF HeaderSound
  <2> QED BY <2>5, <2>6, <2>7, <2>8 DEF IInv
<1>2. CASE OlderRefused
  <2>1. /\ call' \in [Calls -> Call] /\ ~UnderWay("older")' /\ ~Awaited'
        /\ \A j \in Calls : call'[j].size <= MaxMessages
        /\ \A j \in Calls : j # "older" => call'[j] = call[j] /\ UnderWay(j)' = UnderWay(j)
        /\ \A j \in Calls : UnderWay(j)' => UnderWay(j) /\ call'[j] = call[j]
    BY <1>0, <1>2, OverLeaves DEF OlderRefused
  <2>2. UNCHANGED <<server, screen, removing, strayed>> BY <1>2 DEF OlderRefused
  <2>5. TypeOK' BY <1>0, <2>1, <2>2 DEF TypeOK, server, screen
  <2>6. Addressed' BY <1>0, <2>1, <2>2 DEF IInv, Addressed, server, screen
  <2>7. Shown' BY <1>0, <2>1, <2>2 DEF IInv, Shown, OfOneChat, server, screen
  <2>8. HeaderSound' BY <1>0, <2>1, <2>2 DEF IInv, HeaderSound, screen
  <2> QED BY <2>5, <2>6, <2>7, <2>8 DEF IInv
<1> QED BY <1>1, <1>2

LEMMA PageArrivesIInv ==
  ASSUME IInv, PageArrives
  PROVE  IInv'
<1>0. TypeOK /\ "chat" \in Calls /\ "page" \in Calls /\ "older" \in Calls /\ "save" \in Calls
  BY DEF IInv, Calls
<1>1. /\ call' \in [Calls -> Call] /\ ~UnderWay("page")' /\ call'["page"].state = "none"
      /\ \A j \in Calls : call'[j].size <= MaxMessages
      /\ \A j \in Calls : j # "page" => call'[j] = call[j] /\ UnderWay(j)' = UnderWay(j)
      /\ \A j \in Calls : UnderWay(j)' => UnderWay(j) /\ call'[j] = call[j]
  BY <1>0, OverLeaves DEF PageArrives
<1>2. /\ UNCHANGED <<server, at, header, failure, removing, strayed>>
      /\ UnderWay("page") /\ at # NoChat /\ at \in Chats /\ call["page"].chat = at /\ call["page"].before = 0
      /\ call["page"] \in Call /\ call["page"].size \in Nat /\ call["page"].size <= MaxMessages
  BY <1>0, Typed DEF PageArrives, IInv, Addressed, UnderWay, Call, TypeOK
(* Nobody awaits older messages of a page that was not there yet. *)
<1>3. "older" \notin strayed => ~Awaited' BY <1>0, <1>1, <1>2 DEF IInv, Shown, Awaited
<1>4. 0 <= size[at] /\ 0 \in 0..MaxMessages BY <1>0, <1>2, Typed, ChatViewAssumption
<1>5. CASE call["page"].state = "answered"
  <2>1. messages' = Page(call["page"]) /\ total' = call["page"].size /\ unread' = FALSE
    BY <1>5 DEF PageArrives
  <2>2. call["page"].size <= size[at] /\ PageEnd(call["page"]) = call["page"].size
    BY <1>2, <1>5 DEF IInv, Addressed, PageEnd
  <2>3. /\ messages' \in Seq(Turn) /\ Len(messages') \in Nat /\ Len(messages') <= total'
        /\ \A i \in 1..Len(messages') :
             messages'[i].chat = at /\ messages'[i].sequence = total' - Len(messages') + i
    BY <1>2, <2>1, <2>2, PageShows
  <2>4. DOMAIN messages' = 1..Len(messages') BY <2>3, LenProperties
  <2>5. total' \in Nat /\ total' <= MaxMessages BY <1>2, <2>1
  <2>6. messages' # <<>> => 1 \in 1..Len(messages') BY <2>3, EmptySeq
  <2>7. OfOneChat' BY <1>2, <2>3, <2>4, <2>5 DEF OfOneChat
  <2>8. messages' # <<>> => messages'[1].sequence + Len(messages') - 1 <= total' BY <2>3, <2>5, <2>6
  <2>9. TypeOK'
    <3>1. total' \in 0..MaxMessages BY <2>5, ChatViewAssumption
    <3> QED BY <1>0, <1>1, <1>2, <2>1, <2>3, <3>1 DEF TypeOK, server
  <2>10. Addressed' BY <1>0, <1>1, <1>2 DEF IInv, Addressed, server
  <2>11. Shown' BY <1>2, <1>3, <2>1, <2>2, <2>7, <2>8 DEF Shown, server
  <2>12. HeaderSound' BY <1>0, <1>1, <1>2 DEF IInv, HeaderSound
  <2> QED BY <2>9, <2>10, <2>11, <2>12 DEF IInv
<1>6. CASE call["page"].state = "refused"
  <2>1. messages' = <<>> /\ total' = 0 /\ unread' = TRUE BY <1>6 DEF PageArrives
  <2>2. messages' \in Seq(Turn) /\ DOMAIN messages' = {} BY <2>1, EmptySeq
  <2>9. TypeOK' BY <1>0, <1>1, <1>2, <1>4, <2>1, <2>2 DEF TypeOK, server
  <2>10. Addressed' BY <1>0, <1>1, <1>2 DEF IInv, Addressed, server
  <2>11. Shown' BY <1>2, <1>3, <1>4, <2>1, <2>2 DEF Shown, OfOneChat, server
  <2>12. HeaderSound' BY <1>0, <1>1, <1>2 DEF IInv, HeaderSound
  <2> QED BY <2>9, <2>10, <2>11, <2>12 DEF IInv
<1> QED BY <1>5, <1>6 DEF PageArrives

(* The older messages end where those on screen begin. *)
LEMMA OlderJoins ==
  ASSUME IInv, "older" \notin strayed, Awaited, call["older"].state = "answered",
         messages' = Page(call["older"]) \o messages, total' = call["older"].size, at' = at
  PROVE  /\ OfOneChat'
         /\ messages' # <<>> => messages'[1].sequence + Len(messages') - 1 <= total'
<1> DEFINE c == call["older"]
           page == Page(c)
           first == messages[1].sequence
<1>0. TypeOK /\ "older" \in Calls BY DEF IInv, Calls
<1>1. /\ c \in Call /\ c.chat = at /\ at \in Chats /\ c.before = first /\ messages # <<>>
      /\ total <= c.size /\ c.size \in Nat
  BY <1>0, Typed DEF IInv, Shown, Addressed, Awaited, TypeOK, Call
<1>2. /\ Len(messages) \in Nat /\ Len(messages) > 0 /\ DOMAIN messages = 1..Len(messages)
      /\ messages \in Seq(Turn) /\ first \in Nat /\ first > 0 /\ total \in Nat
  <2>1. Len(messages) \in Nat /\ Len(messages) > 0 BY <1>0, <1>1, Typed, EmptySeq
  <2>2. messages[1] \in Turn BY <1>0, <2>1, Typed
  <2> QED BY <1>0, <2>1, <2>2, Typed DEF Turn
<1>3. /\ first + Len(messages) - 1 <= total
      /\ \A i \in 1..Len(messages) : messages[i].chat = at /\ messages[i].sequence = first + i - 1
  BY <1>1, <1>2 DEF IInv, Shown, OfOneChat
<1>4. PageEnd(c) = first - 1 BY <1>1, <1>2, <1>3 DEF PageEnd, Lower
<1>5. /\ page \in Seq(Turn) /\ Len(page) \in Nat /\ Len(page) <= first - 1
      /\ \A i \in 1..Len(page) : page[i].chat = at /\ page[i].sequence = first - 1 - Len(page) + i
  BY <1>1, <1>4, PageShows
<1>6. messages' = page \o messages /\ total' = c.size OBVIOUS
<1> HIDE DEF c, page, first
<1>7. /\ messages' \in Seq(Turn) /\ Len(messages') = Len(page) + Len(messages)
      /\ \A i \in 1..Len(page) : messages'[i] = page[i]
      /\ \A i \in 1..Len(messages) : messages'[Len(page) + i] = messages[i]
  BY <1>2, <1>5, <1>6, ConcatProperties
<1>8. \A i \in 1..Len(messages') : messages'[i].chat = at /\ messages'[i].sequence = first - 1 - Len(page) + i
  <2> SUFFICES ASSUME NEW i \in 1..Len(messages')
               PROVE  messages'[i].chat = at /\ messages'[i].sequence = first - 1 - Len(page) + i
    OBVIOUS
  <2>1. CASE i <= Len(page)
    <3>1. i \in 1..Len(page) BY <1>5, <1>7, <2>1
    <3> QED BY ONLY <1>5, <1>7, <3>1
  <2>2. CASE i > Len(page)
    <3>1. PICK j \in 1..Len(messages) : i = Len(page) + j
      <4>1. i - Len(page) \in 1..Len(messages) /\ i = Len(page) + (i - Len(page)) BY <1>2, <1>5, <1>7, <2>2
      <4> QED BY <4>1
    <3>2. messages'[i] = messages[j] BY <1>7, <3>1
    <3> QED BY <1>2, <1>3, <1>5, <3>1, <3>2
  <2> QED BY <1>2, <1>5, <1>7, <2>1, <2>2
<1>9. DOMAIN messages' = 1..Len(messages') /\ 1 \in 1..Len(messages')
  BY <1>2, <1>5, <1>7, LenProperties
<1>10. messages'[1].sequence = first - Len(page) BY <1>2, <1>5, <1>8, <1>9
<1>11. OfOneChat'
  <2>1. \A i \in 1..Len(messages') :
          messages'[i].chat = at /\ messages'[i].sequence = (first - Len(page)) + i - 1
    <3>1. \A i \in 1..Len(messages') : first - 1 - Len(page) + i = (first - Len(page)) + i - 1 BY <1>2, <1>5
    <3> QED BY ONLY <1>8, <3>1
  <2>2. \A i \in DOMAIN messages' :
          messages'[i].chat = at' /\ messages'[i].sequence = messages'[1].sequence + i - 1
    BY ONLY <1>9, <1>10, <2>1, at' = at
  <2> QED BY <2>2 DEF OfOneChat
<1>12. messages'[1].sequence + Len(messages') - 1 <= total' BY <1>1, <1>2, <1>3, <1>5, <1>6, <1>7, <1>10
<1> QED BY <1>11, <1>12

LEMMA OlderArrivesIInv ==
  ASSUME IInv, OlderArrives
  PROVE  IInv'
<1>0. TypeOK /\ "chat" \in Calls /\ "page" \in Calls /\ "older" \in Calls /\ "save" \in Calls
  BY DEF IInv, Calls
<1>1. /\ call' \in [Calls -> Call] /\ ~UnderWay("older")' /\ ~Awaited'
      /\ \A j \in Calls : call'[j].size <= MaxMessages
      /\ \A j \in Calls : j # "older" => call'[j] = call[j] /\ UnderWay(j)' = UnderWay(j)
      /\ \A j \in Calls : UnderWay(j)' => UnderWay(j) /\ call'[j] = call[j]
  BY <1>0, OverLeaves DEF OlderArrives
<1>2. /\ UNCHANGED <<server, at, header, failure, unread, removing>>
      /\ call["older"].state = "answered" /\ UnderWay("older")
      /\ messages' = Page(call["older"]) \o messages /\ total' = call["older"].size
  BY DEF OlderArrives, UnderWay
<1>3. /\ call["older"] \in Call /\ call["older"].chat \in Chats /\ at # NoChat
      /\ total' \in Nat /\ total' <= MaxMessages
  BY <1>0, <1>2, Typed DEF IInv, Addressed, Call
<1>4. strayed' = IF call["older"].fresh THEN strayed ELSE strayed \cup {"older"} BY DEF OlderArrives, Used
<1>5. messages' \in Seq(Turn)
  BY <1>0, <1>2, <1>3, PageShows, Typed, ConcatProperties
<1>6. TypeOK'
  <2>1. strayed' \subseteq {"older", "save"} BY <1>0, <1>4 DEF TypeOK
  <2>2. total' \in 0..MaxMessages BY <1>3, ChatViewAssumption
  <2> QED BY <1>0, <1>1, <1>2, <1>5, <2>1, <2>2 DEF TypeOK, server
<1>7. Addressed' BY <1>0, <1>1, <1>2, <1>3 DEF IInv, Addressed, server
<1>8. Shown'
  <2> SUFFICES ASSUME "older" \notin strayed' PROVE Shown'
    BY DEF Shown
  <2>1. "older" \notin strayed /\ Awaited BY <1>2, <1>4 DEF Awaited
  <2>2. OfOneChat' /\ (messages' # <<>> => messages'[1].sequence + Len(messages') - 1 <= total')
    BY <1>2, <2>1, OlderJoins
  <2>3. total' <= size[at] BY <1>2, <2>1 DEF IInv, Shown
  <2> QED BY <1>1, <1>2, <2>2, <2>3 DEF Shown, server
<1>9. HeaderSound' BY <1>0, <1>1, <1>2, <1>4 DEF IInv, HeaderSound
<1> QED BY <1>6, <1>7, <1>8, <1>9 DEF IInv

LEMMA EditIInv ==
  ASSUME IInv, SaveArrives \/ \E c \in Chats : RemovalArrives(c)
  PROVE  IInv'
<1>0. TypeOK /\ "chat" \in Calls /\ "page" \in Calls /\ "older" \in Calls /\ "save" \in Calls
  BY DEF IInv, Calls
<1>1. CASE SaveArrives
  <2>1. /\ call' \in [Calls -> Call] /\ ~UnderWay("save")'
        /\ \A j \in Calls : call'[j].size <= MaxMessages
        /\ \A j \in Calls : j # "save" => call'[j] = call[j] /\ UnderWay(j)' = UnderWay(j)
        /\ \A j \in Calls : UnderWay(j)' => UnderWay(j) /\ call'[j] = call[j]
    BY <1>0, <1>1, OverLeaves DEF SaveArrives
  <2>2. /\ UNCHANGED <<server, at, failure, messages, unread, total, removing>>
        /\ call["save"].chat \in Chats /\ at # NoChat /\ UnderWay("save")
    BY <1>0, <1>1 DEF SaveArrives, IInv, Addressed, UnderWay
  <2>3. \/ UNCHANGED <<header, strayed>>
        \/ /\ header' = call["save"].chat
           /\ strayed' = IF call["save"].fresh THEN strayed ELSE strayed \cup {"save"}
    BY <1>1 DEF SaveArrives, Used
  <2>4. header' \in Chats \cup {NoChat} /\ strayed' \subseteq {"older", "save"}
        /\ ("older" \notin strayed' => "older" \notin strayed)
    BY <1>0, <2>2, <2>3 DEF TypeOK
  <2>5. TypeOK' BY <1>0, <2>1, <2>2, <2>4 DEF TypeOK, server
  <2>6. Addressed' BY <1>0, <2>1, <2>2 DEF IInv, Addressed, server
  <2>7. Shown' BY <1>0, <2>1, <2>2, <2>4 DEF IInv, Shown, OfOneChat, Awaited, server
  <2>8. HeaderSound'
    BY <1>0, <2>1, <2>2, <2>3 DEF IInv, Addressed, HeaderSound
  <2> QED BY <2>5, <2>6, <2>7, <2>8 DEF IInv
<1>2. ASSUME NEW c \in Chats, RemovalArrives(c) PROVE IInv'
  <2>1. there' \subseteq Chats /\ removing' \subseteq Chats /\ UNCHANGED size
    BY <1>0, <1>2 DEF RemovalArrives, TypeOK
  <2>2. CASE Close BY <1>0, <2>1, <2>2, ClosedTyped, ClosedIInv
  <2>3. CASE UNCHANGED <<there, screen, call, strayed>>
    <3>1. TypeOK' BY <1>0, <2>1, <2>3 DEF TypeOK, screen
    <3>2. Addressed' BY <2>1, <2>3 DEF IInv, Addressed, UnderWay, screen
    <3>3. Shown' BY <2>1, <2>3 DEF IInv, Shown, OfOneChat, Awaited, UnderWay, screen
    <3>4. HeaderSound' BY <2>3 DEF IInv, HeaderSound, UnderWay, screen
    <3> QED BY <3>1, <3>2, <3>3, <3>4 DEF IInv
  <2> QED BY <1>2, <2>2, <2>3 DEF RemovalArrives
<1> QED BY <1>1, <1>2

LEMMA NextIInv == IInv /\ [Next]_vars => IInv'
<1> SUFFICES ASSUME IInv, [Next]_vars PROVE IInv'
  OBVIOUS
<1>1. CASE ServerStep BY <1>1, ServerIInv DEF ServerStep
<1>2. CASE Moving BY <1>2, UserIInv, ChatAnswersIInv, AnswerIInv, PageArrivesIInv DEF Moving
<1>3. CASE Paging BY <1>3, UserIInv, ChatAnswersIInv, AnswerIInv, OlderArrivesIInv DEF Paging
<1>4. CASE Writing BY <1>4, UserIInv, EditIInv DEF Writing
<1>5. CASE UNCHANGED vars
  <2>1. UNCHANGED <<size, there, at, header, failure, messages, unread, total, call, removing, strayed>>
    BY <1>5 DEF vars, server, screen
  <2>2. TypeOK' BY <2>1 DEF IInv, TypeOK
  <2>3. Addressed' BY <2>1 DEF IInv, Addressed, UnderWay
  <2>4. Shown' BY <2>1 DEF IInv, Shown, OfOneChat, Awaited, UnderWay
  <2>5. HeaderSound' BY <2>1 DEF IInv, HeaderSound, UnderWay
  <2> QED BY <2>2, <2>3, <2>4, <2>5 DEF IInv
<1> QED BY <1>1, <1>2, <1>3, <1>4, <1>5 DEF Next

-----------------------------------------------------------------------------
(* The signals keep their types (ChatDetail and its subscriptions). *)
THEOREM TypeInvariant == Spec => []TypeOK
<1>1. IInv => TypeOK BY DEF IInv
<1> QED BY <1>1, InitIInv, NextIInv, PTL DEF Spec

(* Pages join without a gap or a repetition, whatever is appended to the   *)
(* chat between two of them, wherever the user goes meanwhile and whatever *)
(* the size of a page: unless a late answer to loadOlder() is used, which  *)
(* nothing but the history variable excludes (load, loadOlder).            *)
THEOREM TheScreenIsSound == Spec => []ScreenSound
<1>1. IInv => ScreenSound BY DEF IInv, Shown, ScreenSound
<1> QED BY <1>1, InitIInv, NextIInv, PTL DEF Spec

(* When the button for earlier messages is gone, the first message of the  *)
(* chat is on screen: the total that hasOlder counts with never lags behind*)
(* the last message that is shown.                                         *)
THEOREM NothingIsHidden == Spec => []NothingHidden
<1>1. IInv => NothingHidden
  <2> SUFFICES ASSUME IInv, "older" \notin strayed, messages # <<>>, ~hasOlder
               PROVE  messages[1].sequence = 1
    BY DEF NothingHidden
  <2>1. TypeOK BY DEF IInv
  <2>2. Len(messages) \in Nat /\ Len(messages) > 0 /\ total \in Nat BY <2>1, Typed, EmptySeq
  <2>3. messages[1].sequence \in Nat \ {0} BY <2>1, <2>2, Typed DEF Turn
  <2>4. messages[1].sequence + Len(messages) - 1 <= total BY DEF IInv, Shown
  <2>5. total <= Len(messages) BY <2>2 DEF hasOlder
  <2> QED BY <2>2, <2>3, <2>4, <2>5
<1> QED BY <1>1, InitIInv, NextIInv, PTL DEF Spec

(* The header that has been loaded is that of the chat in the URL, however *)
(* fast the user moves: unless a late answer to save() is used (load, save,*)
(* remove).                                                                *)
THEOREM TheHeaderIsSound == Spec => []HeaderSound
<1>1. IInv => HeaderSound BY DEF IInv
<1> QED BY <1>1, InitIInv, NextIInv, PTL DEF Spec
=============================================================================
