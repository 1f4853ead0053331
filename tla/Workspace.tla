----------------------------- MODULE Workspace ------------------------------
(***************************************************************************)
(* The rows a user arranges: agents, the system prompts they share, their  *)
(* private memories, the shared memories, teams with their rosters,        *)
(* projects and chats.  Every request is one synchronous transaction, so   *)
(* one request is one step; what makes it hard is what the foreign keys do *)
(* behind the back of the services (CASCADE, SET NULL and one CHECK that   *)
(* refuses), in every order of requests.                                   *)
(*                                                                         *)
(* Texts are left out: an edit of a text shows only as the row's updated_at*)
(* being written.  A refused request changes nothing and is not a step.    *)
(***************************************************************************)
EXTENDS Integers, FiniteSets, Tables

CONSTANTS
  Agents,       \* ids of agents; integers, for they order equal positions
  Teams, Projects, Chats, Prompts,
  Memories,     \* ids of private memories
  Shared,       \* ids of shared memories
  MaxPosition,  \* bound: highest position on a roster
  None          \* NULL

ASSUME WorkspaceAssumption ==
  /\ Agents \subseteq Int /\ IsFiniteSet(Agents)
  /\ MaxPosition \in Nat
  /\ None \notin Agents \cup Teams \cup Projects \cup Prompts

VARIABLES
  agents,    \* the agents that exist, with their system_prompt_id
  prompts, teams, projects, shared,  \* the rows that exist
  members,   \* team_members: for each team its agents with their position
  chats,     \* the chats that exist, with owner and project
  memories,  \* the private memories that exist, with their agent
  touched,   \* the rows whose updated_at the last step wrote
  cut        \* history: the teams a deleted agent left since their positions were last rewritten

vars == <<agents, prompts, teams, projects, shared, members, chats, memories, touched, cut>>

Chat == [agent : Agents \cup {None}, team : Teams \cup {None}, project : Projects \cup {None}]

Row(kind, id) == <<kind, id>>
Rows(kind, ids) == {Row(kind, id) : id \in ids}
AllRows == Rows("agent", Agents) \cup Rows("prompt", Prompts) \cup Rows("team", Teams)
           \cup Rows("project", Projects) \cup Rows("chat", Chats)
           \cup Rows("memory", Memories) \cup Rows("shared", Shared)

TypeOK ==
  /\ agents \in Table(Agents, Prompts \cup {None})
  /\ prompts \subseteq Prompts /\ teams \subseteq Teams
  /\ projects \subseteq Projects /\ shared \subseteq Shared
  /\ members \in [Teams -> Table(Agents, 0..MaxPosition)]
  /\ chats \in Table(Chats, Chat)
  /\ memories \in Table(Memories, Agents)
  /\ touched \subseteq AllRows
  /\ cut \subseteq Teams

Init ==
  /\ agents = Empty /\ prompts = {} /\ teams = {} /\ projects = {} /\ shared = {}
  /\ members = [t \in Teams |-> Empty]
  /\ chats = Empty /\ memories = Empty
  /\ touched = {} /\ cut = {}

-----------------------------------------------------------------------------
(* System prompts. *)

PromptCreate(p) ==
  /\ p \notin prompts
  /\ prompts' = prompts \cup {p}
  /\ touched' = {Row("prompt", p)}
  /\ UNCHANGED <<agents, teams, projects, shared, members, chats, memories, cut>>

(* An update that differs from the row in some field; any other writes nothing. *)
PromptUpdate(p) ==
  /\ p \in prompts
  /\ touched' = {Row("prompt", p)}
  /\ UNCHANGED <<agents, prompts, teams, projects, shared, members, chats, memories, cut>>

(* agents.system_prompt_id ON DELETE SET NULL. *)
PromptDelete(p) ==
  /\ p \in prompts
  /\ prompts' = prompts \ {p}
  /\ agents' = [a \in DOMAIN agents |-> IF agents[a] = p THEN None ELSE agents[a]]
  /\ touched' = {}
  /\ UNCHANGED <<teams, projects, shared, members, chats, memories, cut>>

-----------------------------------------------------------------------------
(* Agents. *)

(* The prompt is absent or exists: the service answers 422 before it inserts. *)
PromptValid(p) == p = None \/ p \in prompts

AgentCreate(a, p) ==
  /\ a \notin DOMAIN agents
  /\ PromptValid(p)
  /\ agents' = Insert(agents, a, p)
  /\ touched' = {Row("agent", a)}
  /\ UNCHANGED <<prompts, teams, projects, shared, members, chats, memories, cut>>

(* A field that is absent stays, null clears it, an equal one is no change: *)
(* p is the prompt after the update, text whether another field differs.    *)
ApplyAgentUpdates(a, p, text) ==
  /\ p # agents[a] \/ text
  /\ agents' = [agents EXCEPT ![a] = p]
  /\ touched' = {Row("agent", a)}

AgentUpdate(a, p, text) ==
  /\ a \in DOMAIN agents
  /\ PromptValid(p)
  /\ ApplyAgentUpdates(a, p, text)
  /\ UNCHANGED <<prompts, teams, projects, shared, members, chats, memories, cut>>

(* Mutant of ChatsAllow: the table has no CHECK. *)
ChatsAllowAll(owned) == TRUE

(* agent_memories and team_members go with the agent; a chat of the agent  *)
(* would be left without an owner, which its CHECK refuses.                *)
ChatsAllow(owned) == \A c \in DOMAIN chats : ~owned[c]

AgentDelete(a) ==
  /\ a \in DOMAIN agents
  /\ ChatsAllow([c \in DOMAIN chats |-> chats[c].agent = a])
  /\ agents' = Delete(agents, {a})
  /\ memories' = Delete(memories, {m \in DOMAIN memories : memories[m] = a})
  /\ members' = [t \in Teams |-> Delete(members[t], {a})]
  /\ cut' = cut \cup {t \in Teams : a \in DOMAIN members[t]}
  /\ touched' = {}
  /\ UNCHANGED <<prompts, teams, projects, shared, chats>>

-----------------------------------------------------------------------------
(* Memories.  A private memory is reached through its agent only. *)

MemoryCreate(a, m) ==
  /\ a \in DOMAIN agents /\ m \notin DOMAIN memories
  /\ memories' = Insert(memories, m, a)
  /\ touched' = {Row("memory", m)}
  /\ UNCHANGED <<agents, prompts, teams, projects, shared, members, chats, cut>>

Scoped(a, m) == a \in DOMAIN agents /\ m \in DOMAIN memories /\ memories[m] = a

MemoryUpdate(a, m) ==
  /\ Scoped(a, m)
  /\ touched' = {Row("memory", m)}
  /\ UNCHANGED <<agents, prompts, teams, projects, shared, members, chats, memories, cut>>

MemoryRemove(a, m) ==
  /\ Scoped(a, m)
  /\ memories' = Delete(memories, {m})
  /\ touched' = {}
  /\ UNCHANGED <<agents, prompts, teams, projects, shared, members, chats, cut>>

MemoryRemoveAll(a) ==
  /\ a \in DOMAIN agents
  /\ memories' = Delete(memories, {m \in DOMAIN memories : memories[m] = a})
  /\ touched' = {}
  /\ UNCHANGED <<agents, prompts, teams, projects, shared, members, chats, cut>>

SharedCreate(m) ==
  /\ m \notin shared
  /\ shared' = shared \cup {m}
  /\ touched' = {Row("shared", m)}
  /\ UNCHANGED <<agents, prompts, teams, projects, members, chats, memories, cut>>

(* Unlike a private memory, a field set to the value it has counts as a change. *)
SharedUpdate(m) ==
  /\ m \in shared
  /\ touched' = {Row("shared", m)}
  /\ UNCHANGED <<agents, prompts, teams, projects, shared, members, chats, memories, cut>>

SharedRemove(m) ==
  /\ m \in shared
  /\ shared' = shared \ {m}
  /\ touched' = {}
  /\ UNCHANGED <<agents, prompts, teams, projects, members, chats, memories, cut>>

SharedRemoveAll ==
  /\ shared' = {}
  /\ touched' = {}
  /\ UNCHANGED <<agents, prompts, teams, projects, members, chats, memories, cut>>

-----------------------------------------------------------------------------
(* Teams and their rosters. *)

TeamCreate(t) ==
  /\ t \notin teams
  /\ teams' = teams \cup {t}
  /\ touched' = {Row("team", t)}
  /\ UNCHANGED <<agents, prompts, projects, shared, members, chats, memories, cut>>

(* Name, description, strategy or turn limit differ from the row. *)
TeamUpdate(t) ==
  /\ t \in teams
  /\ touched' = {Row("team", t)}
  /\ UNCHANGED <<agents, prompts, teams, projects, shared, members, chats, memories, cut>>

TeamDelete(t) ==
  /\ t \in teams
  /\ ChatsAllow([c \in DOMAIN chats |-> chats[c].team = t])
  /\ teams' = teams \ {t}
  /\ members' = [members EXCEPT ![t] = Empty]
  /\ cut' = cut \ {t}
  /\ touched' = {}
  /\ UNCHANGED <<agents, prompts, projects, shared, chats, memories>>

(* Mutant of Touch: the roster changes, the team does not. *)
TouchNot(t) == touched' = {}

Touch(t) == touched' = {Row("team", t)}

(* COALESCE(MAX(position) + 1, 0). *)
NextPosition(roster) ==
  IF DOMAIN roster = {} THEN 0
  ELSE 1 + (CHOOSE n \in 0..MaxPosition :
              (\E a \in DOMAIN roster : roster[a] = n) /\ \A a \in DOMAIN roster : roster[a] <= n)

MemberAdd(t, a) ==
  /\ t \in teams /\ a \in DOMAIN agents /\ a \notin DOMAIN members[t]
  /\ NextPosition(members[t]) <= MaxPosition
  /\ members' = [members EXCEPT ![t] = Insert(@, a, NextPosition(@))]
  /\ Touch(t)
  /\ UNCHANGED <<agents, prompts, teams, projects, shared, chats, memories, cut>>

(* The role changes; a role equal to the row's writes nothing. *)
MemberUpdate(t, a) ==
  /\ t \in teams /\ a \in DOMAIN members[t]
  /\ Touch(t)
  /\ UNCHANGED <<agents, prompts, teams, projects, shared, members, chats, memories, cut>>

(* Mutant of Before: rows come in the order of agent_id only. *)
BeforeById(roster, b, a) == b < a

(* Mutants of Renumber: it is forgotten; it counts from one too low. *)
RenumberNot(roster) == roster
RenumberFromBelow(roster) ==
  [a \in DOMAIN roster |-> Cardinality({b \in DOMAIN roster : roster[b] < roster[a]}) - 1]

(* Positions 0..n-1 in the order the rows had. *)
Before(roster, b, a) == roster[b] < roster[a] \/ (roster[b] = roster[a] /\ b < a)
Renumber(roster) ==
  [a \in DOMAIN roster |-> Cardinality({b \in DOMAIN roster : Before(roster, b, a)})]

MemberRemove(t, a) ==
  /\ t \in teams /\ a \in DOMAIN members[t]
  /\ members' = [members EXCEPT ![t] = Renumber(Delete(@, {a}))]
  /\ cut' = cut \ {t}
  /\ Touch(t)
  /\ UNCHANGED <<agents, prompts, teams, projects, shared, chats, memories>>

(* The request is any list of agents a client could send, read from an     *)
(* older roster or not; it must name every member once and nobody else.    *)
Matches(roster, requested) ==
  /\ \A i, j \in DOMAIN requested : requested[i] = requested[j] => i = j
  /\ {requested[i] : i \in DOMAIN requested} = DOMAIN roster

MemberReorder(t, requested) ==
  /\ t \in teams
  /\ Matches(members[t], requested)
  /\ members' = [members EXCEPT ![t] =
                   [a \in DOMAIN @ |-> (CHOOSE i \in DOMAIN requested : requested[i] = a) - 1]]
  /\ cut' = cut \ {t}
  /\ Touch(t)
  /\ UNCHANGED <<agents, prompts, teams, projects, shared, chats, memories>>

-----------------------------------------------------------------------------
(* Projects (their image is modelled in Pictures) and chats. *)

ProjectCreate(p) ==
  /\ p \notin projects
  /\ projects' = projects \cup {p}
  /\ touched' = {Row("project", p)}
  /\ UNCHANGED <<agents, prompts, teams, shared, members, chats, memories, cut>>

ProjectUpdate(p) ==
  /\ p \in projects
  /\ touched' = {Row("project", p)}
  /\ UNCHANGED <<agents, prompts, teams, projects, shared, members, chats, memories, cut>>

(* chats.project_id ON DELETE SET NULL. *)
ProjectDelete(p) ==
  /\ p \in projects
  /\ projects' = projects \ {p}
  /\ chats' = [c \in DOMAIN chats |->
                 IF chats[c].project = p THEN [chats[c] EXCEPT !.project = None] ELSE chats[c]]
  /\ touched' = {}
  /\ UNCHANGED <<agents, prompts, teams, shared, members, memories, cut>>

(* Exactly one owner; each id that is named exists. *)
OwnerRule(chat) == (chat.agent = None) # (chat.team = None)
ChatRefs(chat) ==
  /\ chat.agent \in DOMAIN agents \cup {None}
  /\ chat.team \in teams \cup {None}
  /\ chat.project \in projects \cup {None}

ChatCreate(c, chat) ==
  /\ c \notin DOMAIN chats
  /\ OwnerRule(chat) /\ ChatRefs(chat)
  /\ chats' = Insert(chats, c, chat)
  /\ touched' = {Row("chat", c)}
  /\ UNCHANGED <<agents, prompts, teams, projects, shared, members, memories, cut>>

(* The title or the project; an owner in the request is refused. *)
ApplyChatUpdates(c, project, title) ==
  /\ project # chats[c].project \/ title
  /\ chats' = [chats EXCEPT ![c].project = project]
  /\ touched' = {Row("chat", c)}

ChatUpdate(c, project, title) ==
  /\ c \in DOMAIN chats
  /\ project \in projects \cup {None}
  /\ ApplyChatUpdates(c, project, title)
  /\ UNCHANGED <<agents, prompts, teams, projects, shared, members, memories, cut>>

ChatDelete(c) ==
  /\ c \in DOMAIN chats
  /\ chats' = Delete(chats, {c})
  /\ touched' = {}
  /\ UNCHANGED <<agents, prompts, teams, projects, shared, members, memories, cut>>

ChatRemoveAll ==
  /\ chats' = Empty
  /\ touched' = {}
  /\ UNCHANGED <<agents, prompts, teams, projects, shared, members, memories, cut>>

-----------------------------------------------------------------------------
Requests(n) == UNION {[1..k -> Agents] : k \in 1..n}

PromptRequest == \E p \in Prompts : PromptCreate(p) \/ PromptUpdate(p) \/ PromptDelete(p)

AgentRequest ==
  \/ \E a \in Agents, p \in Prompts \cup {None} :
       AgentCreate(a, p) \/ \E text \in BOOLEAN : AgentUpdate(a, p, text)
  \/ \E a \in Agents : AgentDelete(a)

MemoryRequest ==
  \/ \E a \in Agents : MemoryRemoveAll(a)
  \/ \E a \in Agents, m \in Memories :
       MemoryCreate(a, m) \/ MemoryUpdate(a, m) \/ MemoryRemove(a, m)

SharedRequest ==
  \/ \E m \in Shared : SharedCreate(m) \/ SharedUpdate(m) \/ SharedRemove(m)
  \/ SharedRemoveAll

TeamRequest == \E t \in Teams : TeamCreate(t) \/ TeamUpdate(t) \/ TeamDelete(t)

RosterRequest ==
  \/ \E t \in Teams, a \in Agents : MemberAdd(t, a) \/ MemberUpdate(t, a) \/ MemberRemove(t, a)
  \/ \E t \in Teams, requested \in Requests(Cardinality(Agents)) : MemberReorder(t, requested)

ProjectRequest == \E p \in Projects : ProjectCreate(p) \/ ProjectUpdate(p) \/ ProjectDelete(p)

ChatRequest ==
  \/ \E c \in Chats, chat \in Chat : ChatCreate(c, chat)
  \/ \E c \in Chats, p \in Projects \cup {None}, title \in BOOLEAN : ChatUpdate(c, p, title)
  \/ \E c \in Chats : ChatDelete(c)
  \/ ChatRemoveAll

Next ==
  \/ PromptRequest \/ AgentRequest \/ MemoryRequest \/ SharedRequest
  \/ TeamRequest \/ RosterRequest \/ ProjectRequest \/ ChatRequest

Spec == Init /\ [][Next]_vars

-----------------------------------------------------------------------------
(* Properties. *)

(* Whatever was deleted in whatever order, no row names a row that is gone,*)
(* and every chat has exactly one owner: the code reads a chat's agent or  *)
(* team, an agent's prompt and a roster's agents without looking again.    *)
(* That no chat outlives its owner is the doing of the CHECK of chats.sql, *)
(* where the comments of the chats module expect the opposite: OwnersCanGo.*)
ReferencesExist ==
  /\ \A a \in DOMAIN agents : PromptValid(agents[a])
  /\ \A m \in DOMAIN memories : memories[m] \in DOMAIN agents
  /\ \A t \in Teams : DOMAIN members[t] \subseteq DOMAIN agents
  /\ \A t \in Teams \ teams : members[t] = Empty
  /\ \A c \in DOMAIN chats : OwnerRule(chats[c]) /\ ChatRefs(chats[c])

(* What the chats module's comments say of the same deletions: an agent or *)
(* a team can be deleted although it owns chats, which stay without owner  *)
(* (chat.mapper.ts, chats.service.ts).  The code refuses: the owner of a   *)
(* chat can only be deleted after the chat.                                *)
OwnersCanGo ==
  /\ \A a \in DOMAIN agents : ENABLED AgentDelete(a)
  /\ \A t \in teams : ENABLED TeamDelete(t)

Dense(roster) == {roster[a] : a \in DOMAIN roster} = 0..(Cardinality(DOMAIN roster) - 1)

(* A roster's positions tell its members apart, and they are 0..n-1 unless *)
(* an agent of the team was deleted since the positions were last rewritten*)
(* (team-members.service: add, remove, reorder, renumber).                 *)
RosterOrdered ==
  \A t \in Teams :
    /\ \A a, b \in DOMAIN members[t] : members[t][a] = members[t][b] => a = b
    /\ t \notin cut => Dense(members[t])

(* Members who stay on a team keep their turn order, whoever joins, leaves *)
(* or is deleted; a step that turns two of them round has rewritten all    *)
(* positions from a request that names every member, and no member is lost.*)
TurnOrderKept ==
  [][\A t \in Teams :
       (\E a, b \in DOMAIN members[t] \cap DOMAIN members'[t] :
          members[t][a] < members[t][b] /\ members'[t][a] >= members'[t][b])
       => DOMAIN members'[t] = DOMAIN members[t] /\ Dense(members'[t])]_members

(* "Recently changed" is honest: a team whose roster changed, an agent     *)
(* whose prompt changed or a chat that was moved has a new updated_at, save*)
(* for what the deletion of another row did to it.                         *)
Deleted == \/ DOMAIN agents \ DOMAIN agents' # {} \/ prompts \ prompts' # {}
           \/ projects \ projects' # {}
ChangesTouch ==
  [][Deleted \/
     /\ \A t \in teams \cap teams' : members'[t] # members[t] => Row("team", t) \in touched'
     /\ \A a \in DOMAIN agents \cap DOMAIN agents' :
          agents'[a] # agents[a] => Row("agent", a) \in touched'
     /\ \A c \in DOMAIN chats \cap DOMAIN chats' :
          chats'[c] # chats[c] => Row("chat", c) \in touched']_vars
=============================================================================
