------------------------------ MODULE ChatView ------------------------------
(***************************************************************************)
(* The chat screen of the web application (ChatDetail): which chat's       *)
(* header and messages it shows while its requests are answered in any     *)
(* order, the user moves from chat to chat, and the chats grow.            *)
(*                                                                         *)
(* The component stays while only the chat in the URL changes. Of the two  *)
(* requests that load() makes only the latest counts (switchMap); the      *)
(* answers to loadOlder(), save() and remove() are used whenever they      *)
(* arrive. A flag such as loadingOlder holds while its call is under way.  *)
(*                                                                         *)
(* A chat of n messages has the sequences 1..n (MessagesService.create).   *)
(***************************************************************************)
EXTENDS Integers, Sequences

CONSTANTS
  Chats,
  NoChat,       \* the chat list is shown; no chat
  PageSize,     \* MESSAGE_PAGE_SIZE
  MaxMessages   \* bound: messages of a chat

ASSUME ChatViewAssumption ==
  /\ NoChat \notin Chats
  /\ PageSize \in Nat \ {0}
  /\ MaxMessages \in Nat

VARIABLES
  size,       \* the messages of each chat, on the server
  there,      \* the chats that exist, on the server
  at,         \* chatId: the chat in the URL
  header,     \* the id in the chat signal
  failure,    \* the error signal
  messages,   \* the messages signal
  unread,     \* the messagesError signal is set
  total,      \* messageTotal
  call,       \* the requests under way
  removing,   \* the DELETE requests under way
  strayed     \* history: calls whose answer was used after the screen had moved on

server == <<size, there>>
screen == <<at, header, failure, messages, unread, total>>
vars == <<server, screen, call, removing, strayed>>

Calls == {"chat", "page", "older", "save"}

(* before is the cursor, 0 for none; size what the chat had when it was    *)
(* read, of which both the page and its total follow. fresh is a history   *)
(* variable: the screen has not moved on since the request was made.       *)
Call == [state  : {"none", "sent", "answered", "refused"},
         chat   : Chats \cup {NoChat},
         before : Nat,
         size   : Nat,
         fresh  : BOOLEAN]

NoCall == [state |-> "none", chat |-> NoChat, before |-> 0, size |-> 0, fresh |-> TRUE]
Sent(c, before) == [NoCall EXCEPT !.state = "sent", !.chat = c, !.before = before]
UnderWay(k) == call[k].state # "none"

Turn == [chat : Chats, sequence : Nat \ {0}]

TypeOK ==
  /\ size \in [Chats -> 0..MaxMessages]
  /\ there \subseteq Chats
  /\ at \in Chats \cup {NoChat}
  /\ header \in Chats \cup {NoChat}
  /\ failure \in {"none", "missing", "failed"}
  /\ messages \in Seq(Turn)
  /\ unread \in BOOLEAN
  /\ total \in 0..MaxMessages
  /\ call \in [Calls -> Call]
  /\ removing \subseteq Chats
  /\ strayed \subseteq {"older", "save"}

Init ==
  /\ size \in [Chats -> 0..MaxMessages]
  /\ there = Chats
  /\ at = NoChat /\ header = NoChat /\ failure = "none"
  /\ messages = <<>> /\ unread = FALSE /\ total = 0
  /\ call = [k \in Calls |-> NoCall]
  /\ removing = {}
  /\ strayed = {}

-----------------------------------------------------------------------------
(* The server: other clients, and the answers. *)

AppendMessage(c) ==
  /\ c \in there /\ size[c] < MaxMessages
  /\ size' = [size EXCEPT ![c] = @ + 1]
  /\ UNCHANGED <<there, screen, call, removing, strayed>>

DeleteChat(c) ==
  /\ c \in there
  /\ there' = there \ {c}
  /\ UNCHANGED <<size, screen, call, removing, strayed>>

(* A page is read, or the request does not get through. What was read can  *)
(* be out of date when it arrives.                                         *)
Answer(k) ==
  /\ call[k].state = "sent"
  /\ LET c == call[k].chat
     IN \/ /\ c \in there
           /\ call' = [call EXCEPT ![k].state = "answered", ![k].size = size[c]]
        \/ call' = [call EXCEPT ![k].state = "refused"]
  /\ UNCHANGED <<server, screen, removing, strayed>>

-----------------------------------------------------------------------------
(* What the user does. *)

Emptied == failure' = "none" /\ messages' = <<>> /\ unread' = FALSE /\ total' = 0

(* Mutant of Load: requests under way are not given up (exhaustMap).       *)
LoadBusy(c) ==
  /\ call' = [call EXCEPT !["chat"] = IF UnderWay("chat") THEN @ ELSE Sent(c, 0),
                          !["page"] = IF UnderWay("page") THEN @ ELSE Sent(c, 0),
                          !["older"].fresh = ~UnderWay("older"),
                          !["save"].fresh  = ~UnderWay("save") \/ (@ /\ c = at)]
  /\ Emptied

(* load(): a request for the chat and one for its newest page take the     *)
(* place of those under way. The chat signal stays.                        *)
Load(c) ==
  /\ call' = [call EXCEPT !["chat"] = Sent(c, 0), !["page"] = Sent(c, 0),
                          !["older"].fresh = ~UnderWay("older"),
                          !["save"].fresh  = ~UnderWay("save") \/ (@ /\ c = at)]
  /\ Emptied

(* From the list a new component is made, from another chat it is kept.    *)
Navigate(c) ==
  /\ c # at
  /\ Load(c)
  /\ at' = c
  /\ UNCHANGED <<server, header, removing, strayed>>

Visible == at # NoChat /\ header # NoChat /\ failure = "none"

Reload ==
  /\ Visible \/ failure = "failed"
  /\ Load(at)
  /\ UNCHANGED <<server, at, header, removing, strayed>>

(* The component is destroyed with its signals and subscriptions.          *)
Close ==
  /\ at' = NoChat /\ header' = NoChat /\ Emptied
  /\ call' = [k \in Calls |-> NoCall]
  /\ strayed' = {}

Leave ==
  /\ at # NoChat
  /\ Close
  /\ UNCHANGED <<server, removing>>

(* Mutant of hasOlder: one off, the last message to load is never offered.  *)
hasOlderButOne == Len(messages) + 1 < total

hasOlder == Len(messages) < total

LoadOlder ==
  /\ Visible /\ ~UnderWay("page") /\ ~unread
  /\ messages # <<>> /\ hasOlder
  /\ ~UnderWay("older")
  /\ call' = [call EXCEPT !["older"] = Sent(at, messages[1].sequence)]
  /\ UNCHANGED <<server, screen, removing, strayed>>

(* save() and detachProject(). *)
Save ==
  /\ Visible /\ ~UnderWay("save")
  /\ call' = [call EXCEPT !["save"] = [Sent(header, 0) EXCEPT !.fresh = (header = at)]]
  /\ UNCHANGED <<server, screen, removing, strayed>>

(* remove(), after the user has confirmed. *)
Remove ==
  /\ Visible
  /\ removing' = removing \cup {header}
  /\ UNCHANGED <<server, screen, call, strayed>>

-----------------------------------------------------------------------------
(* The answers arrive. *)

Lower(a, b) == IF a < b THEN a ELSE b
Higher(a, b) == IF a > b THEN a ELSE b

(* Mutant of Page: the page is counted from the end of the chat, by the    *)
(* number of messages that are there already (an offset).                  *)
PageByOffset(c) ==
  LET end == Higher(0, c.size - (IF c.before = 0 THEN 0 ELSE Len(messages)))
      n   == Lower(PageSize, end)
  IN [i \in 1..n |-> [chat |-> c.chat, sequence |-> end - n + i]]

(* Mutant of Page: sequences counted from zero.                            *)
PageFromZero(c) ==
  LET end == IF c.before = 0 THEN c.size ELSE Lower(c.before - 1, c.size)
      n   == Lower(PageSize, end)
  IN [i \in 1..n |-> [chat |-> c.chat, sequence |-> end - n + i - 1]]

(* The newest messages below the cursor, oldest first.                     *)
Page(c) ==
  LET end == IF c.before = 0 THEN c.size ELSE Lower(c.before - 1, c.size)
      n   == Lower(PageSize, end)
  IN [i \in 1..n |-> [chat |-> c.chat, sequence |-> end - n + i]]

Done(k) == call' = [call EXCEPT ![k] = NoCall]

(* Marks an answer that is used although the screen has moved on.          *)
Used(k) == strayed' = IF call[k].fresh THEN strayed ELSE strayed \cup {k}

ChatArrives ==
  /\ call["chat"].state = "sent"
  /\ \/ /\ call["chat"].chat \in there
        /\ header' = call["chat"].chat /\ failure' = "none"
     \/ /\ call["chat"].chat \notin there
        /\ header' = NoChat /\ failure' = "missing"
     \/ header' = NoChat /\ failure' = "failed"
  /\ Done("chat")
  /\ UNCHANGED <<server, at, messages, unread, total, removing, strayed>>

PageArrives ==
  /\ \/ /\ call["page"].state = "answered"
        /\ messages' = Page(call["page"]) /\ total' = call["page"].size /\ unread' = FALSE
     \/ /\ call["page"].state = "refused"
        /\ messages' = <<>> /\ total' = 0 /\ unread' = TRUE
  /\ Done("page")
  /\ UNCHANGED <<server, at, header, failure, removing, strayed>>

OlderArrives ==
  /\ call["older"].state = "answered"
  /\ messages' = Page(call["older"]) \o messages
  /\ total' = call["older"].size
  /\ Used("older")
  /\ Done("older")
  /\ UNCHANGED <<server, at, header, failure, unread, removing>>

(* A failure of either is only notified. *)
OlderRefused ==
  /\ call["older"].state = "refused"
  /\ Done("older")
  /\ UNCHANGED <<server, screen, removing, strayed>>

SaveArrives ==
  /\ call["save"].state = "sent"
  /\ \/ call["save"].chat \in there /\ header' = call["save"].chat /\ Used("save")
     \/ UNCHANGED <<header, strayed>>
  /\ Done("save")
  /\ UNCHANGED <<server, at, failure, messages, unread, total, removing>>

(* Wherever the user is by now, the chat list is shown after the removal.  *)
RemovalArrives(c) ==
  /\ c \in removing
  /\ removing' = removing \ {c}
  /\ \/ c \in there /\ there' = there \ {c} /\ Close
     \/ UNCHANGED <<there, screen, call, strayed>>
  /\ UNCHANGED size

-----------------------------------------------------------------------------
ServerStep == \E c \in Chats : AppendMessage(c) \/ DeleteChat(c)

(* Moving and loading; the messages; what the user writes. *)
Moving ==
  \/ \E c \in Chats : Navigate(c)
  \/ Reload \/ Leave \/ ChatArrives \/ Answer("page") \/ PageArrives
Paging == LoadOlder \/ Answer("older") \/ OlderArrives \/ OlderRefused
Writing ==
  \/ Save \/ SaveArrives \/ Remove
  \/ \E c \in Chats : RemovalArrives(c)

Next == ServerStep \/ Moving \/ Paging \/ Writing

Spec == Init /\ [][Next]_vars

-----------------------------------------------------------------------------
(* Properties. *)

(* The messages on screen are of the chat in the URL, in order and without *)
(* a gap or a repetition.                                                  *)
OfOneChat ==
  \A i \in DOMAIN messages :
    /\ messages[i].chat = at
    /\ messages[i].sequence = messages[1].sequence + i - 1

(* While no late answer to loadOlder() is used, the screen shows a part of *)
(* the chat in the URL, whatever is appended between two pages and in      *)
(* whatever order the answers arrive ("a sequence cursor addresses the     *)
(* same turns either way").                                                *)
ScreenSound == "older" \notin strayed => OfOneChat

(* What is not offered as earlier messages is on screen: without a button  *)
(* to load more, the first message is the first of the chat.               *)
NothingHidden ==
  "older" \notin strayed /\ messages # <<>> /\ ~hasOlder => messages[1].sequence = 1

(* While no late answer to save() is used, the header that has been loaded *)
(* is that of the chat in the URL, however fast the user moves.            *)
HeaderSound == "save" \notin strayed /\ ~UnderWay("chat") => header \in {at, NoChat}
=============================================================================
