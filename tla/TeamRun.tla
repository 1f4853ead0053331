------------------------------- MODULE TeamRun -------------------------------
(***************************************************************************)
(* A chat that belongs to a team: one prompt is answered by several agents *)
(* in turn, as the strategy of the request says.  Interleaved with the     *)
(* turns are other prompts to the same chat, edits of the roster, agents,  *)
(* models and the chat being deleted, and clients that go away.            *)
(*                                                                         *)
(* A turn waits for the provider and, when it is streamed, for a slow      *)
(* client.  The code between two waits is one action: the end of one turn, *)
(* the choice of the next and its start are one step when nothing has to   *)
(* be sent in between.  ChatTurns models the inside of a turn: partial     *)
(* flushes, crashes, timers.                                               *)
(***************************************************************************)
EXTENDS Integers, FiniteSets, Sequences

CONSTANTS
  Agents,      \* agents, each with a model of its own
  NoAgent,     \* messages.agent_id is NULL; no next turn
  Runs,        \* prompts to the team
  NoRun,       \* the author of a client's message
  Strategies,  \* the strategies in use
  TurnLimits,  \* values of min(max(1, maxTurns), 10)
  Fragile,     \* bound: agents that join or leave the team, are deleted or lose their model
  MaxPosts     \* bound: messages posted by clients

ASSUME TeamAssumption ==
  /\ NoAgent \notin Agents
  /\ NoRun \notin Runs
  /\ Strategies \subseteq {"sequential", "coordinator", "broadcast", "autonomous"}
  /\ TurnLimits \subseteq 1..10 /\ TurnLimits # {}
  /\ IsFiniteSet(Agents)
  /\ Fragile \subseteq Agents
  /\ MaxPosts \in Nat

VARIABLES
  exists,   \* the chats row is there
  agents,   \* the agents rows
  chain,    \* what an agent's model, provider and credential resolve to
  roster,   \* the team_members in execution order
  rows,     \* the messages rows in sequence order
  usage,    \* the rows charged, in the order of the usage_events
  run       \* the prompts being answered

vars == <<exists, agents, chain, roster, rows, usage, run>>

InFlight == {"pending", "streaming"}

(* saw is a history variable: the messages the turn's context was built of.*)
Row == [run    : Runs \cup {NoRun},
        agent  : Agents \cup {NoAgent},
        status : {"pending", "streaming", "complete", "error"},
        said   : BOOLEAN,
        saw    : SUBSET Nat]

(* at: "started", "yielded", "turned": waits for the client to take        *)
(* message_start, a token, message_complete; "provider": for the provider. *)
Run == [at       : {"idle", "started", "provider", "yielded", "turned", "over"},
        streams  : BOOLEAN,
        strategy : {"sequential", "coordinator", "broadcast", "autonomous"},
        members  : Seq(Agents),              \* the roster as it was read
        limit    : TurnLimits,               \* boundedMaxTurns
        upto     : Nat,                      \* preBroadcastMaxSequence
        turn     : Nat,
        who      : Agents \cup {NoAgent},
        saw      : SUBSET Nat,
        row      : Nat,                      \* the turn's row, 0 before it is inserted
        said     : BOOLEAN,                  \* accumulatedContent is not empty
        next     : Agents \cup {NoAgent},    \* who the finished turn hands on to
        open     : BOOLEAN,                  \* the client is connected
        end      : {"none", "finished", "failed", "cut", "dropped", "stranded"}]

TypeOK ==
  /\ exists \in BOOLEAN
  /\ agents \subseteq Agents
  /\ chain \in [Agents -> {"runnable", "disabled", "deleted"}]
  /\ roster \in Seq(agents)
  /\ rows \in Seq(Row)
  /\ \A n \in DOMAIN rows : rows[n].agent \in agents \cup {NoAgent}
  /\ usage \in Seq(Nat)
  /\ run \in [Runs -> Run]

Idle == [at |-> "idle", streams |-> TRUE, strategy |-> "sequential", members |-> <<>>,
         limit |-> CHOOSE n \in TurnLimits : TRUE, upto |-> 0, turn |-> 0, who |-> NoAgent,
         saw |-> {}, row |-> 0, said |-> FALSE, next |-> NoAgent, open |-> TRUE, end |-> "none"]

Prompt == [run |-> NoRun, agent |-> NoAgent, status |-> "complete", said |-> TRUE, saw |-> {}]

Distinct(s) == \A i, j \in DOMAIN s : s[i] = s[j] => i = j

Init ==
  /\ exists = TRUE
  /\ agents = Agents
  /\ chain = [a \in Agents |-> "runnable"]
  /\ roster \in {s \in [1..Cardinality(Agents) -> Agents] : Distinct(s)}
  /\ rows = <<Prompt>>
  /\ usage = <<>>
  /\ run = [r \in Runs |-> Idle]

-----------------------------------------------------------------------------
(* Other requests. *)

Posts == Cardinality({n \in DOMAIN rows : rows[n].run = NoRun})

PostMessage ==
  /\ exists /\ Posts < MaxPosts
  /\ rows' = Append(rows, Prompt)
  /\ UNCHANGED <<exists, agents, chain, roster, usage, run>>

DeleteChat ==
  /\ exists /\ exists' = FALSE
  /\ rows' = <<>>
  /\ UNCHANGED <<agents, chain, roster, usage, run>>

AddMember(a) ==
  /\ a \in agents /\ \A i \in DOMAIN roster : roster[i] # a
  /\ roster' = Append(roster, a)
  /\ UNCHANGED <<exists, agents, chain, rows, usage, run>>

(* The roster without an agent, who is on it once at most: those behind it *)
(* move up.                                                                *)
Without(a) ==
  LET k == CHOOSE i \in DOMAIN roster : roster[i] = a
  IN  IF \A i \in DOMAIN roster : roster[i] # a THEN roster
      ELSE [i \in 1..(Len(roster) - 1) |-> roster[IF i < k THEN i ELSE i + 1]]

RemoveMember(a) ==
  /\ \E i \in DOMAIN roster : roster[i] = a
  /\ roster' = Without(a)
  /\ UNCHANGED <<exists, agents, chain, rows, usage, run>>

(* Mutant of DeleteAgent: messages keep the id of the deleted agent. *)
DeleteAgentAttributed(a) ==
  /\ a \in agents
  /\ agents' = agents \ {a}
  /\ roster' = Without(a)
  /\ UNCHANGED <<exists, chain, rows, usage, run>>

(* Its memberships go with it, its messages stay without an author. *)
DeleteAgent(a) ==
  /\ a \in agents
  /\ agents' = agents \ {a}
  /\ roster' = Without(a)
  /\ rows' = [n \in DOMAIN rows |-> [rows[n] EXCEPT !.agent = IF @ = a THEN NoAgent ELSE @]]
  /\ UNCHANGED <<exists, chain, usage, run>>

(* The agent's model or provider is disabled or loses its credential, or   *)
(* the model is deleted.                                                   *)
BreakChain(a) ==
  /\ chain[a] = "runnable"
  /\ \E how \in {"disabled", "deleted"} : chain' = [chain EXCEPT ![a] = how]
  /\ UNCHANGED <<exists, agents, roster, rows, usage, run>>

ClientCloses(r) ==
  /\ run[r].at \notin {"idle", "over"} /\ run[r].open
  /\ run' = [run EXCEPT ![r].open = FALSE]
  /\ UNCHANGED <<exists, agents, chain, roster, rows, usage>>

-----------------------------------------------------------------------------
(* The turns. *)

Resolves(a) == a \in agents /\ chain[a] = "runnable"

(* The foreign keys of the usage event: chat, agent and model. *)
CanCharge(a) == exists /\ a \in agents /\ chain[a] # "deleted"

(* Mutant of Shown: a broadcast turn sees what is there when it starts. *)
ShownNow(u, rs) ==
  {n \in DOMAIN rs : rs[n].status = "complete" /\ rs[n].said}

(* The messages a turn's context is built of, up to the boundary that a    *)
(* broadcast reads once.                                                   *)
Shown(u, rs) ==
  {n \in DOMAIN rs : /\ rs[n].status = "complete" /\ rs[n].said
                     /\ u.strategy = "broadcast" => n <= u.upto}

Turn(r, u, status, said) ==
  [run |-> r, agent |-> u.who, status |-> status, said |-> said, saw |-> u.saw]

Over(u, end) == [u EXCEPT !.at = "over", !.end = end]
Becomes(r, u) == run' = [run EXCEPT ![r] = u]

(* A turn that fails in one piece leaves an error row if turns came before *)
(* it; the insert may fail too, and nobody notices.                        *)
FailWhole(r, u, rs) ==
  /\ rows' = IF u.turn > 1 /\ exists /\ u.who \in agents
             THEN Append(rs, Turn(r, u, "error", FALSE))
             ELSE rs
  /\ Becomes(r, Over(u, "failed"))

(* The turn of u.who begins, rs being the messages. In one piece nothing   *)
(* is stored before the answer. Streamed, the row is reserved and          *)
(* message_start yielded; the controller stops taking events once the      *)
(* client has gone, and then the row stays as it is.                       *)
Begin(r, u, rs) ==
  LET begun == [u EXCEPT !.turn = @ + 1, !.saw = Shown(u, rs), !.row = 0,
                         !.said = FALSE, !.next = NoAgent, !.at = "provider"]
      reserved == [begun EXCEPT !.at = "started", !.row = Len(rs) + 1]
  IN IF u.streams
     THEN IF exists /\ Resolves(u.who)
          THEN /\ rows' = Append(rs, Turn(r, begun, "pending", FALSE))
               /\ Becomes(r, IF u.open THEN reserved ELSE Over(reserved, "stranded"))
          ELSE rows' = rs /\ Becomes(r, Over(begun, "dropped"))
     ELSE IF Resolves(u.who) /\ u.open
          THEN rows' = rs /\ Becomes(r, begun)
          ELSE FailWhole(r, begun, rs)

preValidateTeamMembers == \A i \in DOMAIN roster : Resolves(roster[i])

(* The request reads the roster once and finds every member runnable. The  *)
(* coordinator is a flagged member, or one with a telling role, or the     *)
(* first.                                                                  *)
StartTeam(r, strategy, limit, streams) ==
  /\ exists /\ run[r].at = "idle"
  /\ roster # <<>> /\ preValidateTeamMembers
  /\ \E lead \in DOMAIN roster :
       /\ strategy \in {"sequential", "broadcast"} => lead = 1
       /\ Begin(r, [Idle EXCEPT !.strategy = strategy, !.limit = limit, !.streams = streams,
                                !.members = roster, !.upto = Len(rows), !.who = roster[lead]],
                rows)
  /\ UNCHANGED <<exists, agents, chain, roster, usage>>

(* Mutant of TurnsLeft: one turn more than the limit allows. *)
TurnsLeftPastLimit(u) == u.turn <= u.limit

TurnsLeft(u) == u.turn < u.limit

Colleagues(u) == {u.members[i] : i \in DOMAIN u.members} \ {u.who}

(* Whom a finished turn can hand on to: the texts of the replies are not   *)
(* modelled, so a reply may or may not say that it is finished or delegate.*)
DownTheRoster(u) ==
  {u.members[i] : i \in {j \in DOMAIN u.members : j = u.turn + 1 /\ TurnsLeft(u)}}

AfterBroadcast(u) ==
  IF DownTheRoster(u) = {} THEN {NoAgent} ELSE DownTheRoster(u)

AfterSequential(u) == {NoAgent} \cup DownTheRoster(u)

(* The coordinator delegates once at most. *)
AfterCoordinator(u) ==
  {NoAgent} \cup {a \in Colleagues(u) : u.turn = 1 /\ u.limit >= 2}

AfterAutonomous(u) == {NoAgent} \cup {a \in Colleagues(u) : TurnsLeft(u)}

HandsOnTo(u) ==
  CASE u.strategy = "sequential"  -> AfterSequential(u)
    [] u.strategy = "broadcast"   -> AfterBroadcast(u)
    [] u.strategy = "coordinator" -> AfterCoordinator(u)
    [] u.strategy = "autonomous"  -> AfterAutonomous(u)

(* After a turn: the end, or the next turn. All but the coordinator look   *)
(* at the signal first.                                                    *)
GoOn(r, u, rs) ==
  IF u.next = NoAgent THEN rows' = rs /\ Becomes(r, Over(u, "finished"))
  ELSE IF ~u.open /\ u.strategy # "coordinator" THEN rows' = rs /\ Becomes(r, Over(u, "cut"))
  ELSE Begin(r, [u EXCEPT !.who = u.next], rs)

-----------------------------------------------------------------------------
(* A team answered in one piece. *)

Whole(r) == run[r].at = "provider" /\ ~run[r].streams

(* Mutant of Persist: the reply is kept when its usage event is refused. *)
PersistSplit(r, said) ==
  LET u == run[r]
  IN IF CanCharge(u.who)
     THEN \E next \in HandsOnTo(u) :
            /\ usage' = Append(usage, Len(rows) + 1)
            /\ GoOn(r, [u EXCEPT !.row = Len(rows) + 1, !.said = said, !.next = next],
                    Append(rows, Turn(r, u, "complete", said)))
     ELSE /\ FailWhole(r, u, IF exists /\ u.who \in agents
                             THEN Append(rows, Turn(r, u, "complete", said)) ELSE rows)
          /\ UNCHANGED usage

(* Reply and usage event are one transaction; then the team goes on. *)
Persist(r, said) ==
  LET u == run[r]
  IN IF CanCharge(u.who)
     THEN \E next \in HandsOnTo(u) :
            /\ usage' = Append(usage, Len(rows) + 1)
            /\ GoOn(r, [u EXCEPT !.row = Len(rows) + 1, !.said = said, !.next = next],
                    Append(rows, Turn(r, u, "complete", said)))
     ELSE FailWhole(r, u, rows) /\ UNCHANGED usage

WholeReturns(r) ==
  /\ Whole(r)
  /\ \E said \in BOOLEAN : Persist(r, said)
  /\ UNCHANGED <<exists, agents, chain, roster>>

(* The provider fails, or the adapter sees the abort. *)
WholeFails(r) ==
  /\ Whole(r)
  /\ FailWhole(r, run[r], rows)
  /\ UNCHANGED <<exists, agents, chain, roster, usage>>

-----------------------------------------------------------------------------
(* A team streamed over SSE. *)

Streaming(r) == run[r].at \in {"started", "provider", "yielded"} /\ run[r].streams
Heard(r) == run[r].at = "provider" /\ run[r].streams /\ run[r].open

Flush(r, status) ==
  rows' = IF exists
          THEN [rows EXCEPT ![run[r].row] = [@ EXCEPT !.status = status, !.said = run[r].said]]
          ELSE rows

Drained(r) ==
  /\ Streaming(r) /\ run[r].at # "provider" /\ run[r].open
  /\ Becomes(r, [run[r] EXCEPT !.at = "provider"])
  /\ UNCHANGED <<exists, agents, chain, roster, rows, usage>>

(* The first text of a turn; later tokens change nothing that is modelled. *)
Delta(r) ==
  /\ Heard(r) /\ ~run[r].said
  /\ Becomes(r, [run[r] EXCEPT !.said = TRUE, !.at = "yielded"])
  /\ rows' = IF exists
             THEN [rows EXCEPT ![run[r].row] = [@ EXCEPT !.status = "streaming", !.said = TRUE]]
             ELSE rows
  /\ UNCHANGED <<exists, agents, chain, roster, usage>>

(* The reply is stored as complete, then its usage event is inserted. A    *)
(* foreign key that fails there leaves the generator, and the response     *)
(* ends without another event.                                             *)
TurnFinishes(r) ==
  /\ Heard(r)
  /\ Flush(r, "complete")
  /\ IF CanCharge(run[r].who)
     THEN \E next \in HandsOnTo(run[r]) :
            /\ usage' = Append(usage, run[r].row)
            /\ Becomes(r, [run[r] EXCEPT !.at = "turned", !.next = next])
     ELSE Becomes(r, Over(run[r], "dropped")) /\ UNCHANGED usage
  /\ UNCHANGED <<exists, agents, chain, roster>>

TurnFails(r) ==
  /\ Heard(r)
  /\ Flush(r, "error")
  /\ Becomes(r, Over(run[r], "failed"))
  /\ UNCHANGED <<exists, agents, chain, roster, usage>>

(* Mutant of TurnCut: the generator returns before the last flush. *)
TurnCutUnsettled(r) ==
  /\ Streaming(r) /\ ~run[r].open
  /\ Becomes(r, Over(run[r], "cut"))
  /\ UNCHANGED <<exists, agents, chain, roster, rows, usage>>

(* The signal is aborted: what was said is kept as complete. *)
TurnCut(r) ==
  /\ Streaming(r) /\ ~run[r].open
  /\ Flush(r, IF run[r].said THEN "complete" ELSE "error")
  /\ Becomes(r, Over(run[r], "cut"))
  /\ UNCHANGED <<exists, agents, chain, roster, usage>>

(* message_complete is taken, or the client went away meanwhile. *)
StreamGoesOn(r) ==
  /\ run[r].at = "turned"
  /\ GoOn(r, run[r], rows)
  /\ UNCHANGED <<exists, agents, chain, roster, usage>>

-----------------------------------------------------------------------------
Answering(r) ==
  \/ \E strategy \in Strategies, limit \in TurnLimits, streams \in BOOLEAN :
       StartTeam(r, strategy, limit, streams)
  \/ ClientCloses(r) \/ WholeReturns(r) \/ WholeFails(r)
  \/ Drained(r) \/ Delta(r) \/ TurnFinishes(r) \/ TurnFails(r) \/ TurnCut(r) \/ StreamGoesOn(r)

Next ==
  \/ PostMessage \/ DeleteChat
  \/ \E a \in Fragile : AddMember(a) \/ RemoveMember(a) \/ DeleteAgent(a) \/ BreakChain(a)
  \/ \E r \in Runs : Answering(r)

Spec == Init /\ [][Next]_vars

-----------------------------------------------------------------------------
(* Properties. *)

TurnsOf(r) == {n \in DOMAIN rows : rows[n].run = r}
TurnIn(r, n) == Cardinality({m \in TurnsOf(r) : m <= n})
LastOf(r, n) == \A m \in TurnsOf(r) : m <= n

(* The in-flight messages are exactly the turns that streamed requests are *)
(* working on. Only a coordinator's delegate can be left behind, when the  *)
(* client goes while message_complete is sent (streamCoordinatorTeamChat). *)
TurnsOwned ==
  exists =>
    /\ \A n \in DOMAIN rows : rows[n].status \in InFlight =>
         LET r == rows[n].run IN
         /\ r # NoRun
         /\ run[r].row = n
         /\ \/ Streaming(r)
            \/ run[r].end = "stranded" /\ run[r].strategy = "coordinator"
    /\ \A r \in Runs : Streaming(r) =>
         /\ run[r].row \in TurnsOf(r) /\ LastOf(r, run[r].row)
         /\ rows[run[r].row].status = (IF run[r].said THEN "streaming" ELSE "pending")

(* The turns of one prompt are in the order its strategy gives, by the     *)
(* roster it read whatever happens to the roster since, and within its     *)
(* limit: also when turns of other prompts are stored in between.          *)
TurnsFollowStrategy ==
  \A r \in Runs :
    LET u == run[r] IN
    /\ Cardinality(TurnsOf(r)) <= (IF u.strategy = "coordinator" THEN 2 ELSE u.limit)
    /\ \A n \in TurnsOf(r) :
         /\ u.strategy \in {"sequential", "broadcast"} =>
              rows[n].agent \in {u.members[TurnIn(r, n)], NoAgent}
         /\ \A m \in TurnsOf(r) : TurnIn(r, n) = TurnIn(r, m) + 1 =>
              rows[n].agent # rows[m].agent \/ rows[n].agent = NoAgent

(* Members of a broadcast answer independently: none sees another's reply. *)
(* Under every other strategy a turn sees all that was said before it in   *)
(* the same prompt (buildContext's maxSequence).                           *)
TurnsSee ==
  \A r \in Runs : \A n \in TurnsOf(r), m \in TurnsOf(r) :
    IF run[r].strategy = "broadcast" THEN m \notin rows[n].saw
    ELSE m < n /\ rows[m].said => m \in rows[n].saw

(* Every turn but the last of a prompt is a complete reply, charged once;  *)
(* the last is charged exactly when it is complete and the request was     *)
(* neither cut nor dropped in it.                                          *)
TurnsKept ==
  \A r \in Runs : \A n \in TurnsOf(r) :
    LET charges == Cardinality({i \in DOMAIN usage : usage[i] = n})
        ended   == LastOf(r, n) /\ (Streaming(r) \/ run[r].end \in {"failed", "cut", "dropped", "stranded"})
    IN exists => /\ charges <= 1
                 /\ charges = 1 => rows[n].status = "complete"
                 /\ ~ended => rows[n].status = "complete" /\ charges = 1

(* "the current message row is finalized, and subsequent queued team       *)
(* members are skipped" when the client goes away: no turn is left open.   *)
NoneStranded == \A r \in Runs : run[r].end # "stranded"
=============================================================================
