---------------------------- MODULE MCFunctions -----------------------------
(***************************************************************************)
(* The functions of Context, Wire, Records and Budget against what they    *)
(* are for, over small inputs, and the streams of the adapters over theirs.*)
(* A behaviour is about one family: one of functions, of which it chooses  *)
(* an input and stops, or the streams, which run as Streams says.          *)
(***************************************************************************)
EXTENDS MCStreams, Context, Records, Budget

VARIABLES
  family,  \* what the input is chosen from
  case     \* the input that was chosen, None before

MCMonthStarts == <<0, 9, 12, 20>>

(* The one step of a behaviour that is about these inputs. *)
Of(inputs) == family = inputs /\ case = None /\ UNCHANGED <<family, vars>>

Chosen(kind) == case # None /\ case.kind = kind

-----------------------------------------------------------------------------
(* Contexts: chats of up to three messages. *)

Speech(role, length, status, agent) == [role |-> role, length |-> length, status |-> status, agent |-> agent]
Speeches ==
  {Speech("user", 4, "complete", None), Speech("user", 0, "complete", None),
   Speech("assistant", 8, "complete", 1), Speech("assistant", 4, "complete", 2),
   Speech("assistant", 4, "failed", 1), Speech("system", 4, "complete", None)}

Agent(id) == [id |-> id, template |-> 4, personality |-> 0, instructions |-> IF id = 1 THEN 4 ELSE 0, window |-> 18]
Roster == << [agent |-> Agent(1), role |-> 0], [agent |-> Agent(2), role |-> 3] >>

Strategies == {"truncate_oldest", "refuse"}
Contexts(team, strategy) ==
  [chat : [team : {team}, agent : {Agent(1)}, roster : {IF team THEN Roster ELSE <<>>}, summary : {0, 4},
           before : {None, 2}, messages : UNION {[1..n -> Speeches] : n \in 0..3}],
   options : [memories : {0}, window : {None, 14}, strategy : {strategy},
              before : {None}, upto : {None, 2}, target : {2}]]

ChooseContext ==
  \E team \in BOOLEAN, strategy \in Strategies :
    /\ Of(<<"context", team, strategy>>)
    /\ \E input \in Contexts(team, strategy) :
         case' = [kind |-> "context", chat |-> input.chat, options |-> input.options]

(* What the service hands to the pure function. *)
Speaker == IF case.chat.team THEN TargetMember(case.chat.roster, case.options.target)
           ELSE [agent |-> case.chat.agent, role |-> 0]
Shown == buildByChatId(case.chat, case.options)

(* The cost of showing messages, from the lengths alone. *)
CostOf(seqs) ==
  CalculateTotal([sources |-> [template |-> Speaker.agent.template, personality |-> 0,
                               instructions |-> IF Speaker.role = 0 THEN Speaker.agent.instructions
                                                ELSE WithRole(Speaker.agent.instructions, Speaker.role),
                               memories |-> 0, summary |-> case.chat.summary],
                  messages |-> case.chat.messages, team |-> case.chat.team, speaker |-> Speaker.agent.id],
                 seqs)

(* A turn is shown the longest run of the newest messages that counts and  *)
(* fits the window of the model, with at least the newest one; whatever it *)
(* is not shown is reported once, with a reason; and it is refused only    *)
(* when nothing that may be shown fits.                                    *)
ContextFits ==
  Chosen("context") =>
    LET messages == case.chat.messages
        count == SelectSeq([k \in DOMAIN messages |-> k],
                   LAMBDA k : /\ messages[k].status = "complete" /\ messages[k].length > 0
                              /\ k >= Or0(case.chat.before)
                              /\ case.options.upto = None \/ k <= Or0(case.options.upto))
        window == Given(case.options.window, Speaker.agent.window)
        newest(n) == SubSeq(count, Len(count) - n + 1, Len(count))
        fits(n) == CostOf(newest(n)) <= window
        cuts == case.options.strategy = "truncate_oldest"
        least == IF count = <<>> THEN 0 ELSE 1
        n == Len(Shown.shown)
    IN  IF Shown.code = "ok"
        THEN /\ Shown.shown = newest(n) /\ fits(n) /\ n >= least
             /\ n = Len(count) \/ (cuts /\ ~fits(n + 1))
             /\ {e[1] : e \in Shown.excluded} = DOMAIN messages \ {Shown.shown[k] : k \in 1..n}
             /\ Cardinality(Shown.excluded) = Len(messages) - n
        ELSE /\ Shown.code = "CONTEXT_LENGTH_EXCEEDED"
             /\ IF cuts THEN ~fits(least) ELSE ~fits(Len(count))

(* Every provider is told the whole of what was to be shown, each message  *)
(* once and in its order, in the form it accepts: Anthropic and Google     *)
(* take turns that alternate from the user on and the system's words apart.*)
ConversationSurvives ==
  Chosen("context") =>
    LET built == Shown
        told(turns) == SelectSeq(FlattenSeq([k \in DOMAIN turns |-> turns[k].of]), LAMBDA k : k # 0)
        those(Keep(_)) == SelectSeq([k \in DOMAIN built.messages |-> k], Keep)
        system(k) == built.messages[k].role = "system"
    IN  built.code = "ok" =>
          \A ad \in Adapters :
            LET request == Request(ad, built.layers # <<>>, built.messages)
            IN  IF ad \in {"anthropic", "google"}
                THEN /\ told(request.turns) = those(LAMBDA k : ~system(k))
                     /\ SelectSeq(request.system, LAMBDA k : k # 0) = those(system)
                     /\ request.turns[1].role = "user"
                     /\ \A k \in 2..Len(request.turns) : request.turns[k].role # request.turns[k - 1].role
                ELSE /\ told(request.turns) = those(LAMBDA k : TRUE)
                     /\ (built.layers # <<>>) = (request.turns[1].role = "system" /\ request.turns[1].of = <<0>>)
                     /\ \A k \in DOMAIN request.turns : request.turns[k].of # <<0>> =>
                          request.turns[k].role = built.messages[request.turns[k].of[1]].role

-----------------------------------------------------------------------------
(* Lists: a database with ties, NULLs and names made of wildcards. *)

A == 97
B == 98
Odd == <<A, Percent, Backslash>>
Row(id, at) == [id |-> <<id>>, created |-> <<at>>, updated |-> <<3 - at>>]

DB ==
  [agents |-> {Row(1, 1) @@ [name |-> <<65, B>>, model |-> None, prompt |-> <<1>>, picture |-> None],
               Row(2, 1) @@ [name |-> Odd, model |-> <<1>>, prompt |-> None, picture |-> <<1>>],
               Row(3, 2) @@ [name |-> <<B, Underscore, A>>, model |-> <<1>>, prompt |-> <<1>>, picture |-> None]},
   chats |-> {Row(1, 1) @@ [title |-> None, project |-> <<1>>, agent |-> <<1>>, team |-> None, before |-> None],
              Row(2, 1) @@ [title |-> Odd, project |-> None, agent |-> None, team |-> <<1>>, before |-> <<2>>],
              Row(3, 2) @@ [title |-> <<A>>, project |-> <<1>>, agent |-> <<2>>, team |-> None, before |-> None]},
   teams |-> {Row(1, 1) @@ [name |-> <<A, B>>], Row(2, 1) @@ [name |-> Odd]},
   members |-> {[team |-> <<1>>, agent |-> <<2>>, position |-> <<0>>],
                [team |-> <<1>>, agent |-> <<1>>, position |-> <<1>>],
                [team |-> <<2>>, agent |-> <<1>>, position |-> <<0>>]},
   projects |-> {Row(1, 1) @@ [name |-> <<65>>, image |-> None], Row(2, 1) @@ [name |-> Odd, image |-> <<1>>]},
   prompts |-> {Row(1, 2) @@ [name |-> <<B>>], Row(2, 1) @@ [name |-> Odd], Row(3, 1) @@ [name |-> <<B, A>>]},
   artifacts |-> {Row(1, 1) @@ [title |-> Odd, type |-> <<A>>, version |-> <<1>>, project |-> <<1>>, chat |-> None,
                                agent |-> <<1>>, content |-> <<A>>, file |-> None],
                  Row(2, 1) @@ [title |-> <<A, B>>, type |-> <<B>>, version |-> <<2>>, project |-> None, chat |-> <<1>>,
                                agent |-> <<1>>, content |-> None, file |-> <<1>>],
                  Row(3, 2) @@ [title |-> <<65>>, type |-> <<A>>, version |-> <<1>>, project |-> <<1>>, chat |-> <<1>>,
                                agent |-> None, content |-> <<B>>, file |-> None]},
   providers |-> {Row(1, 1) @@ [name |-> <<A>>, kind |-> <<A>>, enabled |-> <<1>>, isLocal |-> <<0>>],
                  Row(2, 1) @@ [name |-> <<B>>, kind |-> <<B>>, enabled |-> <<0>>, isLocal |-> <<0>>],
                  Row(3, 2) @@ [name |-> <<B>>, kind |-> <<A>>, enabled |-> <<1>>, isLocal |-> <<1>>]},
   models |-> {Row(1, 1) @@ [provider |-> <<1>>, name |-> <<A>>, source |-> <<A>>, enabled |-> <<1>>, window |-> None],
               Row(2, 1) @@ [provider |-> <<1>>, name |-> <<B>>, source |-> <<B>>, enabled |-> <<1>>, window |-> <<8>>],
               Row(3, 1) @@ [provider |-> <<2>>, name |-> <<B>>, source |-> <<B>>, enabled |-> <<0>>, window |-> <<4>>]},
   memories |-> {Row(1, 1) @@ [agent |-> <<1>>, content |-> Odd, tags |-> <<<<A>>, <<B>>>>],
                 Row(2, 1) @@ [agent |-> <<1>>, content |-> <<65>>, tags |-> <<<<65, Blank>>, <<A>>, <<Blank>>>>],
                 Row(3, 2) @@ [agent |-> <<1>>, content |-> <<B>>, tags |-> None],
                 Row(4, 2) @@ [agent |-> <<2>>, content |-> <<B>>, tags |-> <<<<B>>>>]}]

(* Memories hold their tags as they were written; shared ones are the same.*)
Written == {[row EXCEPT !.tags = normalizeTagsOnWrite(@)] : row \in DB.memories}
Stored == [DB EXCEPT !.memories = Written]
            @@ [shared |-> {[c \in DOMAIN row \ {"agent"} |-> row[c]] : row \in Written}]

NoQuery ==
  [f \in {"text", "search", "modelId", "systemPromptId", "projectId", "agentId", "teamId", "chatId", "type", "kind",
          "enabled", "isLocal", "providerId", "source", "tags", "tag", "tagMode", "sort", "sortBy", "order",
          "limit", "offset"} |-> None]

(* For every list: its table, the column that is searched, and the filters *)
(* it knows with the columns they are about.                               *)
Lists ==
  [agents |-> [table |-> "agents", text |-> "name", by |-> [modelId |-> "model", systemPromptId |-> "prompt"]],
   chats |-> [table |-> "chats", text |-> "title",
              by |-> [projectId |-> "project", agentId |-> "agent", teamId |-> "team"]],
   teams |-> [table |-> "teams", text |-> "name", by |-> <<>>],
   members |-> [table |-> "members", text |-> None, by |-> <<>>],
   projects |-> [table |-> "projects", text |-> "name", by |-> <<>>],
   prompts |-> [table |-> "prompts", text |-> "name", by |-> <<>>],
   artifacts |-> [table |-> "artifacts", text |-> "title",
                  by |-> [projectId |-> "project", chatId |-> "chat", agentId |-> "agent", type |-> "type"]],
   providers |-> [table |-> "providers", text |-> None,
                  by |-> [kind |-> "kind", enabled |-> "enabled", isLocal |-> "isLocal"]],
   ownModels |-> [table |-> "models", text |-> None, by |-> [enabled |-> "enabled", source |-> "source"]],
   models |-> [table |-> "models", text |-> None,
               by |-> [providerId |-> "provider", enabled |-> "enabled", source |-> "source"]],
   memories |-> [table |-> "memories", text |-> "content", by |-> <<>>],
   shared |-> [table |-> "shared", text |-> "content", by |-> <<>>]]

Flags01 == {"enabled", "isLocal"}
Searches == {None, <<Blank>>, <<A>>, <<Blank, 65>>, <<Percent>>, <<Underscore>>, <<Backslash>>, <<A, Percent>>}
TagInputs == {None, <<Comma>>, <<65>>, <<A, Comma, Blank, B>>}

(* A search or tags are combined with two orders, and one search with     *)
(* filters and tags.                                                        *)
ChooseList ==
  \E list \in DOMAIN Lists : Of(<<"list", list>>) /\
    \E search \in (IF Lists[list].text = None THEN {None} ELSE Searches),
       tags \in (IF list \in {"memories", "shared"} THEN TagInputs ELSE {None}), mode \in {"any", "all"},
       by \in {None} \cup DOMAIN Lists[list].by, sort \in {None, "createdAt", "name", "window", "position"},
       order \in {None, "asc"} :
      \E value \in (IF by = None THEN {None} ELSE IF by \in Flags01 THEN BOOLEAN
                     ELSE IF by \in {"type", "kind", "source"} THEN {<<A>>}
                     ELSE IF by = "providerId" THEN {<<1>>} ELSE {<<1>>, NullWord}) :
        /\ tags = None => mode = "any"
        /\ order = "asc" => sort = "createdAt"
        /\ search # None => sort \in {None, "createdAt"}
        /\ search \notin {None, <<A>>} => by = None /\ tags = None
        /\ tags # None => sort \in {None, "createdAt"}
        /\ case' = [kind |-> "list", list |-> list, by |-> by, value |-> value,
                    query |-> [NoQuery EXCEPT !.search = search, !.tags = tags, !.tagMode = mode,
                                              !.sort = sort, !.order = order]]

(* The request of a case, the set of answers it can get, and the one row.  *)
Asking(limit, offset) ==
  [(IF case.by = None THEN case.query ELSE [case.query EXCEPT ![case.by] = case.value])
     EXCEPT !.limit = limit, !.offset = offset]

Answers(query) ==
  CASE case.list = "agents" -> findAllAgents(Stored, query)
    [] case.list = "chats" -> findAllChats(Stored, query)
    [] case.list = "teams" -> findAllTeams(Stored, query)
    [] case.list = "members" -> findAllTeamMembers(Stored, <<1>>, query)
    [] case.list = "projects" -> findAllProjects(Stored, query)
    [] case.list = "prompts" -> findAllSystemPrompts(Stored, query)
    [] case.list = "artifacts" -> findAllArtifacts(Stored, query)
    [] case.list = "providers" -> findAllProviders(Stored, query)
    [] case.list = "ownModels" -> listByProvider(Stored, <<1>>, query)
    [] case.list = "models" -> listAll(Stored, query)
    [] case.list = "memories" -> findAllAgentMemories(Stored, <<1>>, query)
    [] case.list = "shared" -> findAllSharedMemories(Stored, query)

One(id) ==
  CASE case.list = "agents" -> findOneAgent(Stored, id)
    [] case.list = "chats" -> findOneChat(Stored, id)
    [] case.list = "teams" -> findOneTeam(Stored, id)
    [] case.list = "members" -> findOneTeamMember(Stored, <<1>>, id)
    [] case.list = "projects" -> findOneProject(Stored, id)
    [] case.list = "prompts" -> findOneSystemPrompt(Stored, id)
    [] case.list = "artifacts" -> findOneArtifact(Stored, id)
    [] case.list = "providers" -> findOneProvider(Stored, id)
    [] case.list \in {"ownModels", "models"} -> findOneModel(Stored, id)
    [] case.list = "memories" -> findOneAgentMemory(Stored, <<1>>, id)
    [] case.list = "shared" -> findOneSharedMemory(Stored, id)

Key == IF case.list = "members" THEN "agent" ELSE "id"

(* What a query means: values agree, texts contain the term as it stands   *)
(* but for its case and the blanks around it, and tags are the same word.  *)
Holds(text, term) ==
  \/ term = <<>>
  \/ text # None /\ \E k \in 0..(Len(text) - Len(term)) :
       toLowerCase(SubSeq(text, k + 1, k + Len(term))) = toLowerCase(term)
Words(tags) == {toLowerCase(trim(tags[k])) : k \in DOMAIN tags} \ {<<>>}
Sought(tags) ==
  IF tags = None \/ tags = <<Comma>> THEN {} ELSE IF Len(tags) = 1 THEN {<<A>>} ELSE {<<A>>, <<B>>}

Meant(row) ==
  LET info == Lists[case.list]
      raw == IF info.table = "memories" \/ info.table = "shared"
             THEN Words(Given((CHOOSE r \in DB.memories : r.id = row.id).tags, <<>>)) ELSE {}
      wanted == Sought(case.query.tags)
  IN  /\ case.list = "members" => row.team = <<1>>
      /\ case.list = "ownModels" => row.provider = <<1>>
      /\ case.list = "memories" => row.agent = <<1>>
      /\ info.text # None => Holds(row[info.text], trim(Given(case.query.search, <<>>)))
      /\ wanted = {} \/ (IF case.query.tagMode = "any" THEN wanted \cap raw # {} ELSE wanted \subseteq raw)
      /\ case.by # None =>
           row[info.by[case.by]] =
             (IF case.by \in Flags01 THEN (IF case.value THEN <<1>> ELSE <<0>>)
              ELSE IF case.value = NullWord THEN None ELSE case.value)

(* A client that walks through the pages of a list, of whatever size, sees *)
(* every row its query means exactly once, none besides, with the total on *)
(* every page, in the order of the column it asked for; and sees of a row  *)
(* what the row's own address shows.                                       *)
ListsExact ==
  Chosen("list") =>
    LET rows == {row \in Stored[Lists[case.list].table] : Meant(row)}
    IN  \A limit \in {1, 2} :
          LET pages == 0..(Cardinality(rows) \div limit)
              page(k) == Answers(Asking(limit, k * limit))
          IN  \/ page(0) = {Refusal(400)}
              \/ \A walk \in {w \in [pages -> UNION {page(k) : k \in pages}] : \A k \in pages : w[k] \in page(k)} :
                   LET items == FlattenSeq([k \in 1..Cardinality(pages) |-> walk[k - 1].items])
                   IN  /\ Len(items) = Cardinality(rows)
                       /\ {items[k][Key] : k \in DOMAIN items} = {row[Key] : row \in rows}
                       /\ \A k \in pages : walk[k].total = Cardinality(rows)
                       /\ \A k \in DOMAIN items : LET one == One(items[k][Key]) IN
                            \A c \in DOMAIN items[k] \cap DOMAIN one : one[c] = items[k][c]
                       /\ case.query.sort = "createdAt" => \A k \in 2..Len(items) :
                            IF case.query.order = "asc" THEN ~Before(items[k].created, items[k - 1].created)
                            ELSE ~Before(items[k - 1].created, items[k].created)

-----------------------------------------------------------------------------
(* Patches of up to two fields, of one or two rows for each table. *)

Base == [id |-> <<1>>, created |-> <<1>>, updated |-> <<1>>]
Patchable ==
  [teams |-> {"name", "description", "strategy", "turns"}, projects |-> {"name", "description"},
   prompts |-> {"name", "content"}, budget |-> {"limit", "period"},
   profile |-> {"name", "pronouns", "about", "locale", "timezone", "inPrompts"},
   memories |-> {"content", "tags"}, shared |-> {"content", "tags"},
   artifacts |-> {"title", "type", "mime", "project", "chat", "agent", "content", "file"}]
Required == [table \in DOMAIN Patchable |->
  CASE table \in {"teams", "projects"} -> {"name", "strategy"} [] table = "prompts" -> {"name", "content"}
    [] table = "budget" -> {"period"} [] table \in {"memories", "shared"} -> {"content"}
    [] table = "artifacts" -> {"title", "type"} [] OTHER -> {}]

TagLists == {None, <<>>, <<<<B>>, <<65, Blank>>, <<A>>>>, <<<<A>>, <<B>>>>}
Values(table, c) ==
  CASE c = "inPrompts" -> BOOLEAN [] c = "tags" -> TagLists
    [] OTHER -> {<<A>>, <<B>>} \cup (IF c \in Required[table] THEN {} ELSE {None})
Forms(table) ==
  UNION {{[k \in {c} |-> v] : v \in Values(table, c)} : c \in Patchable[table]}
    \cup UNION {{[k \in {c[1], c[2]} |-> IF k = c[1] THEN v ELSE w] :
                    v \in Values(table, c[1]), w \in Values(table, c[2])} :
                c \in {p \in Patchable[table] \X Patchable[table] : p[1] # p[2]}}

PatchRows(table) ==
  LET plain == [c \in Patchable[table] |-> <<A>>] @@ Base
      extra == IF table = "profile" THEN [plain EXCEPT !.inPrompts = <<1>>] @@ [picture |-> None]
               ELSE IF table \in {"memories", "shared"} THEN [plain EXCEPT !.tags = <<<<A>>, <<B>>>>]
               ELSE IF table = "artifacts" THEN [plain EXCEPT !.file = None] @@ [version |-> <<1>>]
               ELSE plain
  IN  {extra, IF table = "artifacts" THEN [extra EXCEPT !.content = None, !.file = <<A>>]
              ELSE IF table \in {"memories", "shared"} THEN [extra EXCEPT !.tags = None] ELSE extra}

ChoosePatch ==
  \E table \in DOMAIN Patchable : Of(<<"patch", table>>) /\ \E row \in PatchRows(table), form \in Forms(table) :
    case' = [kind |-> "patch", table |-> table, row |-> row, form |-> form]

Apply(row, edits, now) ==
  CASE case.table = "teams" -> applyTeamUpdates(row, edits, now)
    [] case.table = "projects" -> applyProjectUpdates(row, edits, now)
    [] case.table = "prompts" -> applySystemPromptUpdates(row, edits, now)
    [] case.table = "budget" -> applyBudgetUpdates(row, edits, now)
    [] case.table = "profile" -> applyUserProfileUpdates(row, edits, now)
    [] case.table = "memories" -> applyAgentMemoryUpdates(row, edits, now)
    [] case.table = "shared" -> updateSharedMemory(row, edits, now)
    [] case.table = "artifacts" -> applyArtifactUpdates(row, edits, now).row

Tell(row) ==
  CASE case.table = "profile" -> mapUserProfileRowToResponse(row)
    [] case.table \in {"memories", "shared"} -> mapMemoryRowToResponse(row)
    [] case.table = "artifacts" -> mapArtifactRowToResponse(row, TRUE)
    [] OTHER -> row

(* A form shows what a row says and sends it back: what the user changed is*)
(* shown afterwards and nothing else is, the time moves just when something*)
(* shown did, and sending a form unedited or twice changes nothing more    *)
(* (shared memories always take the new time).  An artifact keeps exactly  *)
(* one of its content and its file, and gives a file up to be deleted only *)
(* when the row stops naming it.                                           *)
PatchExact ==
  Chosen("patch") =>
    LET before == Tell(case.row)
        row == Apply(case.row, case.form, <<2>>)
        after == Tell(row)
        form == [c \in DOMAIN before \cap Patchable[case.table] |-> before[c]]
        update == applyArtifactUpdates(case.row, case.form, <<2>>)
        refused == case.table = "artifacts" /\ update.code # 200
        shows(c, v) == IF c = "tags" THEN {after.tags[k] : k \in DOMAIN after.tags} = Words(Given(v, <<>>))
                       ELSE after[c] = v
        bookkeeping == {"updated", "version", "hasFile"}
    IN  /\ refused => row = case.row
        /\ ~refused => \A c \in DOMAIN case.form \cap DOMAIN after : shows(c, case.form[c])
        /\ \A c \in DOMAIN after \ (DOMAIN case.form \cup bookkeeping) : after[c] = before[c]
        /\ case.table # "shared" =>
             /\ (after.updated = <<2>>) <=> \E c \in DOMAIN row \ bookkeeping : row[c] # case.row[c]
             /\ Apply(case.row, form, <<2>>) = case.row
             /\ Apply(row, case.form, <<3>>) = row
        /\ case.table = "artifacts" =>
             /\ (row.content = None) # (row.file = None)
             /\ update.unlinked # None => update.unlinked = case.row.file /\ row.file # case.row.file
             /\ row.version[1] = 1 + (IF after.updated = <<2>> THEN 1 ELSE 0)

-----------------------------------------------------------------------------
(* Spending: zones whose clocks change once, by at most one unit. *)

Zones == {zone \in [at : 44..52, before : -2..2, after : -2..2] : zone.after - zone.before \in -1..1}
Instants == 36..63

ChooseZone ==
  \E period \in Periods : Of(<<"spend", period>>) /\ \E zone \in Zones \cup {None} :
    case' = [kind |-> "spend", zone |-> zone, period |-> period]

(* The change of the clocks skips a midnight or repeats one. *)
Skips(zone) == \E day \in 7..18 : zone.at + zone.before <= utcDate(day) /\ utcDate(day) < zone.at + zone.after
Repeats(zone) == \E day \in 7..18 : zone.at + zone.after <= utcDate(day) /\ utcDate(day) < zone.at + zone.before
AtMidnight(zone) == (Skips(zone) /\ zone.before < 0) \/ (Repeats(zone) /\ zone.before > 0)

(* The windows of a period cover time without a gap or an overlap, so that *)
(* every charge is in exactly one of them; and the present is in its own,  *)
(* whose charges are those of the local days it spans, unless the clocks of*)
(* the zone change at the wrong midnight.                                  *)
SpendOnce ==
  Chosen("spend") =>
    LET zone == usableZone(case.zone)
        window == [now \in Instants |-> periodWindow(case.period, now, case.zone)]
        usage == {[at |-> now, cost |-> IF now % 3 = 0 THEN None ELSE 1] : now \in Instants}
        sameDays(now) == {e \in usage :
          /\ e.cost # None
          /\ startCivilDate(case.period, civilDateIn(e.at, zone)) = startCivilDate(case.period, civilDateIn(now, zone))}
        budget == [limit |-> 4, period |-> case.period]
    IN  /\ \A now, then \in Instants :
             \/ window[now] = window[then]
             \/ window[now].end <= window[then].start
             \/ window[then].end <= window[now].start
        /\ \A now \in Instants : window[now].end \in Instants => \E then \in Instants : window[then].start = window[now].end
        /\ ~AtMidnight(zone) => \A now \in Instants :
             LET told == find(budget, usage, now, case.zone)
                 days == Cardinality(sameDays(now))
             IN  /\ window[now].start <= now /\ now < window[now].end
                 /\ told.calls = days /\ told.remaining = 4 - days

(* The comment on instantAtCivilMidnight: where the clocks jump over       *)
(* midnight, a day begins at the first instant that has its date.          *)
MidnightFirst ==
  Chosen("spend") =>
    LET zone == usableZone(case.zone)
    IN  Skips(zone) => \A day \in 9..16 :
          LET start == instantAtCivilMidnight(day, zone)
          IN  civilDateIn(start, zone) = day /\ civilDateIn(start - 1, zone) < day

-----------------------------------------------------------------------------
Families == {<<"context", team, strategy>> : team \in BOOLEAN, strategy \in Strategies}
            \cup {<<"list", list>> : list \in DOMAIN Lists}
            \cup {<<"patch", table>> : table \in DOMAIN Patchable}
            \cup {<<"spend", period>> : period \in Periods}

Streaming == <<"stream">>

MCInit ==
  /\ case = None
  /\ \/ family = Streaming /\ Init
     \/ family \in Families /\ adapter = "openai" /\ frames = <<>> /\ Init
MCNext ==
  \/ ChooseContext \/ ChooseList \/ ChoosePatch \/ ChooseZone
  \/ family = Streaming /\ Next /\ UNCHANGED <<family, case>>
MCSpec == MCInit /\ [][MCNext]_<<vars, family, case>>
=============================================================================
