------------------------------ MODULE Records -------------------------------
(***************************************************************************)
(* The rows of the workspace as the API lists, finds and patches them, as  *)
(* functions on sets of rows.  Workspace and Catalog have the operations   *)
(* that create and delete rows.                                            *)
(*                                                                         *)
(* A value is a text, a sequence of character codes, or None for NULL; a   *)
(* number, a time or an identifier is a text of one character.  A body is a*)
(* record of the fields that were sent.                                    *)
(***************************************************************************)
EXTENDS Basics, FiniteSets, TLC

CONSTANTS
  DefaultLimit, MaxLimit,   \* rows on a page
  MaxTag, MaxTags           \* characters of a tag, tags of a memory

ASSUME RecordsAssumption ==
  /\ DefaultLimit \in Nat /\ MaxLimit \in Nat /\ 1 <= DefaultLimit /\ DefaultLimit <= MaxLimit
  /\ MaxTag \in Nat \ {0} /\ MaxTags \in Nat \ {0}

Blank == 32
Percent == 37
Comma == 44
Backslash == 92
Underscore == 95
NullWord == <<110, 117, 108, 108>>   \* the word null in a query

-----------------------------------------------------------------------------
(* Texts. *)

Fold(c) == IF c \in 65..90 THEN c + 32 ELSE c
toLowerCase(text) == [k \in DOMAIN text |-> Fold(text[k])]

trim(text) ==
  LET solid == {k \in DOMAIN text : text[k] # Blank}
  IN  IF solid = {} THEN <<>>
      ELSE SubSeq(text, CHOOSE k \in solid : \A j \in solid : k <= j,
                        CHOOSE k \in solid : \A j \in solid : k >= j)

(* NULL comes first, then a text before its extensions. *)
Before(a, b) ==
  \/ a = None /\ b # None
  \/ /\ a # None /\ b # None
     /\ \E k \in 1..Len(b) :
          /\ \A j \in 1..(k - 1) : j <= Len(a) /\ a[j] = b[j]
          /\ k > Len(a) \/ a[k] < b[k]

escapeLikePattern(term) ==
  FlattenSeq([k \in DOMAIN term |->
    IF term[k] \in {Backslash, Percent, Underscore} THEN <<Backslash, term[k]>> ELSE <<term[k]>>])

(* SQLite: text LIKE pattern ESCAPE '\'. *)
Like(text, pattern) ==
  LET same(c, j) == j <= Len(text) /\ Fold(c) = Fold(text[j])
      match[i \in 1..(Len(pattern) + 2), j \in 1..(Len(text) + 1)] ==
        IF i > Len(pattern) THEN i = Len(pattern) + 1 /\ j > Len(text)
        ELSE IF pattern[i] = Percent
             THEN match[i + 1, j] \/ (j <= Len(text) /\ match[i, j + 1])
        ELSE IF pattern[i] = Backslash
             THEN i < Len(pattern) /\ same(pattern[i + 1], j) /\ match[i + 2, j + 1]
        ELSE (same(pattern[i], j) \/ (pattern[i] = Underscore /\ j <= Len(text))) /\ match[i + 1, j + 1]
  IN  match[1, 1]

(* The two kinds of filter on a column: by its value, and by a part of it. *)
Refers(value, wanted) ==
  FirstMatch(<< <<wanted = None, TRUE>>, <<wanted = NullWord, value = None>>, <<TRUE, value = wanted>> >>)
Equals(value, wanted) == wanted = None \/ value = wanted
Found(value, search) ==
  \/ search = None
  \/ trim(search) = <<>>
  \/ value # None /\ Like(value, <<Percent>> \o escapeLikePattern(trim(search)) \o <<Percent>>)

-----------------------------------------------------------------------------
(* Tags.  A column holds a sequence of them, or NULL. *)

normalizeTag(tag) ==
  LET text == toLowerCase(trim(tag))
  IN  IF text = <<>> THEN None ELSE SubSeq(text, 1, IF Len(text) < MaxTag THEN Len(text) ELSE MaxTag)

Normalized(tags) == {normalizeTag(tags[k]) : k \in DOMAIN tags} \ {None}

normalizeTagsOnWrite(tags) ==
  IF tags = None \/ Normalized(Given(tags, <<>>)) = {} THEN None
  ELSE LET sorted == SetToSortSeq(Normalized(tags), Before)
       IN  SubSeq(sorted, 1, IF Len(sorted) < MaxTags THEN Len(sorted) ELSE MaxTags)

parseTagsOnRead(tags) == Given(tags, <<>>)

(* A filter is one text with the tags between commas. *)
parseTagFilterInput(input) ==
  LET commas == {0, Len(input) + 1} \cup {k \in DOMAIN input : input[k] = Comma}
      end(k) == CHOOSE e \in commas : e > k /\ \A d \in commas : d > k => e <= d
  IN  {normalizeTag(SubSeq(input, k + 1, end(k) - 1)) : k \in commas \ {Len(input) + 1}} \ {None}

buildTagFilterPredicate(tags, input, mode) ==
  LET wanted == parseTagFilterInput(input)
      held == {parseTagsOnRead(tags)[k] : k \in DOMAIN parseTagsOnRead(tags)}
  IN  \/ wanted = {}
      \/ IF mode = "any" THEN wanted \cap held # {} ELSE wanted \subseteq held

Tagged(tags, query) ==
  LET input == Given(query.tags, query.tag)
  IN  input = None \/ trim(Given(input, <<>>)) = <<>> \/ buildTagFilterPredicate(tags, input, query.tagMode)

-----------------------------------------------------------------------------
(* Pages.  A list has columns to sort by, one of them by default, and a    *)
(* tiebreaker in the direction of the sort.                                *)

Times == [createdAt |-> "created", updatedAt |-> "updated", id |-> "id"]
Aliased == Times @@ [created_at |-> "created", updated_at |-> "updated"]

(* Mutant of buildPaginationSqlFragment: no tiebreaker. *)
buildPaginationSqlFragmentLoose(query, columns, default, order, tie) ==
  LET sort == Given(query.sort, default)
  IN  [keys |-> <<columns[sort]>>, ascending |-> Given(query.order, order) = "asc",
       limit |-> Given(query.limit, DefaultLimit), offset |-> Given(query.offset, 0)]

buildPaginationSqlFragment(query, columns, default, order, tie) ==
  LET column == columns[Given(query.sort, default)]
      clamp(n, low, high) == IF n < low THEN low ELSE IF n > high THEN high ELSE n
  IN  [keys |-> IF column = tie THEN <<column>> ELSE <<column, tie>>,
       ascending |-> Given(query.order, order) = "asc",
       limit |-> clamp(Given(query.limit, DefaultLimit), 1, MaxLimit),
       offset |-> IF Given(query.offset, 0) < 0 THEN 0 ELSE Given(query.offset, 0)]

Precedes(r, s, fragment) ==
  LET less(a, b) == IF fragment.ascending THEN Before(a, b) ELSE Before(b, a)
  IN  \E k \in DOMAIN fragment.keys :
        /\ less(r[fragment.keys[k]], s[fragment.keys[k]])
        /\ \A j \in 1..(k - 1) : r[fragment.keys[j]] = s[fragment.keys[j]]

(* SQLite: any order that the clause allows. *)
Ordered(rows, fragment) ==
  {s \in SetToSeqs(rows) : \A j, k \in DOMAIN s : j < k => ~Precedes(s[k], s[j], fragment)}

createPaginatedResponse(items, total, fragment) ==
  [code |-> 200, items |-> items, total |-> total, limit |-> fragment.limit, offset |-> fragment.offset]

Refusal(code) == [code |-> code, items |-> <<>>, total |-> 0, limit |-> 0, offset |-> 0]

(* SQLite: LIMIT and OFFSET. *)
Cut(ordered, fragment) ==
  SubSeq(ordered, fragment.offset + 1,
         IF fragment.offset + fragment.limit < Len(ordered)
         THEN fragment.offset + fragment.limit ELSE Len(ordered))

(* The answers a request for a page can get. *)
Listed(rows, query, columns, default, order, tie, Response(_)) ==
  IF query.sort # None /\ query.sort \notin DOMAIN columns THEN {Refusal(400)}
  ELSE LET fragment == buildPaginationSqlFragment(query, columns, default, order, tie)
           page(s) == Cut(s, fragment)
       IN  {createPaginatedResponse([k \in DOMAIN page(s) |-> Response(page(s)[k])], Len(s), fragment) :
              s \in Ordered(rows, fragment)}

Newest(rows, query, columns, Response(_)) ==
  Listed(rows, query, columns, "createdAt", "desc", "id", Response)

readRow(rows, id) == {r \in rows : r.id = id}

FoundOne(rows, id, Response(_)) ==
  IF readRow(rows, id) = {} THEN Refusal(404) ELSE Response(CHOOSE r \in readRow(rows, id) : TRUE)

-----------------------------------------------------------------------------
(* Rows as the API shows them; columns that only have another name there   *)
(* keep theirs.                                                            *)

toDbBoolean(flag) == IF flag THEN <<1>> ELSE <<0>>
fromDbBoolean(value) == value # None /\ value # <<0>>
DbFlag(flag) == IF flag = None THEN None ELSE toDbBoolean(flag)

(* Where a file is kept is never told, only that there is one. *)
Told(row, secret, flag) ==
  [c \in DOMAIN row \ {secret} |-> row[c]] @@ (flag :> (row[secret] # None))

mapAgentRowToResponse(row) == Told(row, "picture", "hasPicture")
mapChatRowToResponse(row) == [c \in DOMAIN row \ {"before"} |-> row[c]]
mapSystemPromptRowToResponse(row) == row
mapTeamMemberRowToResponse(row) == row
mapMemoryRowToResponse(row) == [row EXCEPT !.tags = parseTagsOnRead(@)]
mapProviderRow(row) == [row EXCEPT !.enabled = fromDbBoolean(@), !.isLocal = fromDbBoolean(@)]
mapTeamRowToResponse(row, members) ==
  row @@ [memberCount |-> Cardinality({member \in members : member.team = row.id})]
mapProjectRowToResponse(row, chats, artifacts) ==
  Told(row, "image", "hasImage")
    @@ [chatCount |-> Cardinality({chat \in chats : chat.project = row.id}),
        artifactCount |-> Cardinality({artifact \in artifacts : artifact.project = row.id})]
mapArtifactRowToResponse(row, includeContent) ==
  LET told == Told(row, "file", "hasFile")
  IN  IF includeContent THEN told ELSE [c \in DOMAIN told \ {"content"} |-> told[c]]

(* Models of every provider name the one they belong to, if it is there. *)
mapModelRow(row) == [row EXCEPT !.enabled = fromDbBoolean(@)]
WithProvider(row, providers) ==
  mapModelRow(row)
    @@ [providerName |-> IF \E p \in providers : p.id = row.provider
                         THEN (CHOOSE p \in providers : p.id = row.provider).name ELSE None]

-----------------------------------------------------------------------------
(* The lists, over a database db with a set of rows for every table. *)

findAllAgents(db, query) ==
  Newest({row \in db.agents : /\ Refers(row.model, query.modelId)
                              /\ Refers(row.prompt, query.systemPromptId)
                              /\ Found(row.name, Given(query.text, query.search))},
         query, Times @@ [name |-> "name"], mapAgentRowToResponse)

findAllChats(db, query) ==
  Newest({row \in db.chats : /\ Refers(row.project, query.projectId)
                             /\ Refers(row.agent, query.agentId)
                             /\ Refers(row.team, query.teamId)
                             /\ Found(row.title, query.search)},
         query, Times @@ [title |-> "title"], mapChatRowToResponse)

findAllTeams(db, query) ==
  Newest({row \in db.teams : Found(row.name, Given(query.text, query.search))},
         query, Times @@ [name |-> "name"], LAMBDA row : mapTeamRowToResponse(row, db.members))

(* In the order of the turns. *)
findAllTeamMembers(db, team, query) ==
  IF \A row \in db.teams : row.id # team THEN {Refusal(404)}
  ELSE Listed({row \in db.members : row.team = team}, query, [position |-> "position"],
              "position", "asc", "agent", mapTeamMemberRowToResponse)

findAllProjects(db, query) ==
  Newest({row \in db.projects : Found(row.name, Given(query.text, query.search))},
         query, Aliased @@ [name |-> "name"],
         LAMBDA row : mapProjectRowToResponse(row, db.chats, db.artifacts))

findAllSystemPrompts(db, query) ==
  Newest({row \in db.prompts : Found(row.name, Given(query.text, query.search))},
         query, Aliased @@ [name |-> "name"], mapSystemPromptRowToResponse)

(* Here an empty reference asks for NULL too. *)
findAllArtifacts(db, query) ==
  LET refers(value, wanted) == IF wanted = <<>> THEN value = None ELSE Refers(value, wanted)
  IN  Newest({row \in db.artifacts :
                /\ refers(row.project, query.projectId)
                /\ refers(row.chat, query.chatId)
                /\ refers(row.agent, query.agentId)
                /\ query.type = None \/ trim(Given(query.type, <<>>)) \in {<<>>, row.type}
                /\ Found(row.title, Given(query.text, query.search))},
             query, Aliased @@ [title |-> "title", type |-> "type", version |-> "version"],
             LAMBDA row : mapArtifactRowToResponse(row, FALSE))

findAllProviders(db, query) ==
  Newest({row \in db.providers : /\ Equals(row.kind, query.kind)
                                 /\ Equals(row.enabled, DbFlag(query.enabled))
                                 /\ Equals(row.isLocal, DbFlag(query.isLocal))},
         query, Times @@ [name |-> "name", kind |-> "kind"], mapProviderRow)

ModelColumns ==
  Times @@ [providerId |-> "provider", modelIdentifier |-> "identifier", displayName |-> "name",
            source |-> "source", contextWindow |-> "window", defaultTemperature |-> "temperature",
            defaultMaxTokens |-> "tokens", enabled |-> "enabled"]

listByProvider(db, provider, query) ==
  IF \A row \in db.providers : row.id # provider THEN {Refusal(404)}
  ELSE Newest({row \in db.models : /\ row.provider = provider
                                   /\ Equals(row.enabled, DbFlag(query.enabled))
                                   /\ Equals(row.source, query.source)},
              query, ModelColumns, mapModelRow)

listAll(db, query) ==
  Newest({row \in db.models : /\ Equals(row.provider, query.providerId)
                              /\ Equals(row.enabled, DbFlag(query.enabled))
                              /\ Equals(row.source, query.source)},
         query, ModelColumns, LAMBDA row : WithProvider(row, db.providers))

SortedBy(query) == [query EXCEPT !.sort = Given(@, query.sortBy)]

findAllAgentMemories(db, agent, query) ==
  IF \A row \in db.agents : row.id # agent THEN {Refusal(404)}
  ELSE Newest({row \in db.memories : /\ row.agent = agent
                                     /\ Tagged(row.tags, query)
                                     /\ Found(row.content, Given(query.text, query.search))},
              SortedBy(query), Aliased @@ [content |-> "content"], mapMemoryRowToResponse)

findAllSharedMemories(db, query) ==
  Newest({row \in db.shared : /\ Tagged(row.tags, query)
                              /\ Found(row.content, Given(query.text, query.search))},
         SortedBy(query), Aliased @@ [content |-> "content"], mapMemoryRowToResponse)

(* Single rows. *)
findOneAgent(db, id) == FoundOne(db.agents, id, mapAgentRowToResponse)
findOneChat(db, id) == FoundOne(db.chats, id, mapChatRowToResponse)
findOneTeam(db, id) == FoundOne(db.teams, id, LAMBDA row : mapTeamRowToResponse(row, db.members))
findOneTeamMember(db, team, agent) ==
  IF \E row \in db.members : row.team = team /\ row.agent = agent
  THEN mapTeamMemberRowToResponse(CHOOSE row \in db.members : row.team = team /\ row.agent = agent)
  ELSE Refusal(404)
findOneProject(db, id) ==
  FoundOne(db.projects, id, LAMBDA row : mapProjectRowToResponse(row, db.chats, db.artifacts))
findOneSystemPrompt(db, id) == FoundOne(db.prompts, id, mapSystemPromptRowToResponse)
findOneArtifact(db, id) == FoundOne(db.artifacts, id, LAMBDA row : mapArtifactRowToResponse(row, TRUE))
findOneProvider(db, id) == FoundOne(db.providers, id, mapProviderRow)
findOneModel(db, id) == FoundOne(db.models, id, LAMBDA row : WithProvider(row, db.providers))
findOneAgentMemory(db, agent, id) ==
  FoundOne({row \in db.memories : row.agent = agent}, id, mapMemoryRowToResponse)
findOneSharedMemory(db, id) == FoundOne(db.shared, id, mapMemoryRowToResponse)

-----------------------------------------------------------------------------
(* Patches.  Columns change that are sent with another value, and with them*)
(* the time of the row.                                                    *)

Changed(row, body, columns) == {c \in columns \cap DOMAIN body : body[c] # row[c]}

Patched(row, body, columns, now) ==
  LET changed == Changed(row, body, columns)
  IN  IF changed = {} THEN row
      ELSE [c \in changed |-> body[c]] @@ [updated |-> now] @@ row

applyTeamUpdates(row, body, now) == Patched(row, body, {"name", "description", "strategy", "turns"}, now)
applyProjectUpdates(row, body, now) == Patched(row, body, {"name", "description"}, now)
applySystemPromptUpdates(row, body, now) == Patched(row, body, {"name", "content"}, now)
applyBudgetUpdates(row, body, now) == Patched(row, body, {"limit", "period"}, now)

(* The flag is compared as it is stored. *)
applyUserProfileUpdates(row, body, now) ==
  LET stored == [c \in DOMAIN body |-> IF c = "inPrompts" THEN toDbBoolean(body[c]) ELSE body[c]]
  IN  Patched(row, stored, {"name", "pronouns", "about", "locale", "timezone", "inPrompts"}, now)
mapUserProfileRowToResponse(row) ==
  [Told(row, "picture", "hasPicture") EXCEPT !.inPrompts = fromDbBoolean(@)]

Normal(body) == [c \in DOMAIN body |-> IF c = "tags" THEN normalizeTagsOnWrite(body[c]) ELSE body[c]]

(* Mutant of applyAgentMemoryUpdates: tags are compared as they were sent. *)
applyAgentMemoryUpdatesRaw(row, body, now) ==
  LET changed == Changed(row, body, {"content", "tags"})
  IN  IF changed = {} THEN row
      ELSE [c \in changed |-> Normal(body)[c]] @@ [updated |-> now] @@ row

applyAgentMemoryUpdates(row, body, now) == Patched(row, Normal(body), {"content", "tags"}, now)

(* No comparison: whatever is sent is written. *)
updateSharedMemory(row, body, now) ==
  IF DOMAIN body \cap {"content", "tags"} = {} THEN row
  ELSE [c \in DOMAIN body \cap {"content", "tags"} |-> Normal(body)[c]] @@ [updated |-> now] @@ row

(* An artifact has a content or a file; a version counts its changes, and a*)
(* file that it lets go of is to be deleted.                               *)
applyArtifactUpdates(row, body, now) ==
  LET columns == {"title", "type", "mime", "project", "chat", "agent", "content", "file"}
      next == Overlay([c \in columns \cap DOMAIN body |-> body[c]], row)
      changed == Changed(row, body, columns)
  IN  IF DOMAIN body \cap {"content", "file"} # {} /\ (next.content = None) = (next.file = None)
      THEN [code |-> 400, row |-> row, unlinked |-> None]
      ELSE [code |-> 200,
            row |-> IF changed = {} THEN row
                    ELSE [next EXCEPT !.version = <<@[1] + 1>>, !.updated = now],
            unlinked |-> IF next.file # row.file THEN row.file ELSE None]
=============================================================================
