# Glassbeetle: specifications, model checking and proofs

Glassbeetle is a local-first application for chatting with AI agents: a NestJS API over one
SQLite database, an Angular web application and a Tauri shell. This directory holds TLA+ modules
translated from the source, the TLC configurations that check them on small instances, and
theorems that TLAPS proves for every value of the constants.

Paths below are relative to the repository. `API` is `apps/api/src`, `MOD` is
`apps/api/src/modules`, `WEB` is `apps/web/src/app`.

## 1. The system

### 1.1 How it runs

The API is one Node process over one synchronous SQLite connection (`API/database`). Code between
two `await`s or `yield`s therefore runs without interruption, and so does a database transaction.
Requests interleave only where a handler waits: for a provider's response headers and body, for a
slow client to drain an SSE response, for the file system. Every such wait is a state in the
modules, and the code between two waits is one action. The process can be killed between any two
SQL statements; SQLite undoes an unfinished transaction, nothing else.

### 1.2 Inventory

| Component (source) | State | Operations, and who calls them | What is hard | What makes it correct |
|---|---|---|---|---|
| Inference, one agent (`MOD/inference/inference.service.ts`, `MOD/chats/completions`) | `messages` and `usage_events` rows, `chats.context_summary` and boundary; what each request in progress has gathered | `completeChat`, `streamChat`, `compactChat`, called by the completions controller; call a model adapter | waits on a provider and a client, disconnects, deletions meanwhile, crashes, two transactions where one would be needed | a reply settles once, with the text it gathered; it is charged once and only if complete; no in-flight row without a handler; history is folded without loss |
| Inference, teams (same service) | the same, and the roster read at the start | `completeTeamChat`, `streamTeamChat` with sequential, coordinator, broadcast, autonomous | as above, and several turns with edits of agents and roster in between | order, limit and visibility of turns per strategy; every finished turn is kept and charged |
| Context construction (`MOD/inference/context-construction.service.ts`) | none | `buildContextPure` and the reads around it, called by inference | filters, boundaries and window fitting together | no message twice or out of order; the newest stay; it fits the window, and nothing is dropped that fitted |
| Messages (`MOD/chats/messages`) | `messages` | `create` (MAX+1 in one statement), cursor-paged `findAll`, `findOne`; called by web and inference | paging while the chat grows | append-only, dense sequence |
| Chats (`MOD/chats/chats.service.ts`) | `chats` | create, update, delete, deleteAll, list | deletion during a reply; deletion of the owner | one owner; messages go with the chat, usage stays |
| Model adapters (`API/model-adapters`) | a timer and a listener on the abort signal per call; a buffer per stream | `complete`, `stream`, `discoverModels` for OpenAI, Anthropic, Google, Ollama; called by inference and models | time-outs, aborts, chunk boundaries, streams cut short, errors in the stream | a silent provider or a gone client ends a call; the events do not depend on how the bytes were cut; only the caller's stop counts as one |
| Database (`API/database`) | the connection | open, migrate, transaction, sweep of stranded messages at start | a crash half-way | after a start no message is in flight |
| Agents, teams, rosters (`MOD/agents`, `MOD/teams`) | `agents`, `teams`, `team_members.position` | CRUD, add, remove, reorder; read by inference | cascades bypass the renumbering; reorder of a stale list | positions give one order; references hold; a change shows in `updated_at` |
| Providers, models, discovery, credentials (`MOD/providers`, `API/crypto`) | `providers`, `models`, `credentials`, the key file | CRUD, `discover` (waits for the provider), defaults, set and remove a credential, create the key | overlapping discoveries, edits meanwhile, two processes at the key, a kill half-way | manual models and references stay; the catalogue is one answer; a stored credential can be read |
| File storage, pictures (`API/file-storage`, agents, projects, user) | files in buckets, `picture_path`, `image_path` | upload, replace, remove, serve with an ETag, stream in; atomic write by rename | file and row are two systems; overlap, readers and crashes | a named file is there and whole; a reader gets what its tag and length say; nothing outside the store is touched |
| Artifacts (`MOD/artifacts`) | `artifacts.file_path` | CRUD by upload or by reference | rows that share a file, references through links | a file goes only when a row that named it gave it up |
| Projects, memories, tags, system prompts, user (`MOD/...`) | one table each | CRUD, lists | cascades, pages over equal sort values, tags in two forms | references; every row on exactly one page; an unchanged form changes nothing |
| Budget (`MOD/budget`) | one row; reads `usage_events` | find, update | months of different length, clocks that change at midnight | every charge counts in one window of each period |
| Web: chat view (`WEB/features/chats/chat-detail`) | signals: chat, messages, total, errors; requests under way | load, load earlier, save, detach, remove; calls chats and messages | answers in any order while the user moves on | the screen belongs to the URL; no gap, nothing hidden |
| Web: lists, shell, status (`WEB/shared/list-state`, `WEB/features/api-status`) | page, filters, polling | load, search, next page | answers that overtake one another | the last request wins (`switchMap`) |
| Desktop shell (`apps/desktop/src-tauri`), scripts, bootstrap, configuration, health, analytics and backup stubs | window, processes | start-up wiring | little | - |

`PROJECT.json` lists every component with its sources, its status and what is left out, and the
hazards of this code at the line where each of them bites.

## 2. The modules

| Module | Models | Abstract or composed |
|---|---|---|
| `Transcript` | what a reader of a chat's messages is promised | abstract specification |
| `ChatTurns` | one chat and the requests that work on it | implements `Transcript` by a refinement mapping |
| `TeamRun` | a prompt answered by a team | composes rosters, agents, the chat and inference |
| `Pictures` | a picture's row and files | composes agents and file storage |
| `ChatView` | the chat screen and its requests | composes the screen with messages and chats on the server |
| `Workspace` | agents, prompts, memories, teams with rosters, projects, chats | composes six services over one schema |
| `Catalog` | providers, models, discovery, credentials, the master key | composes four services and several processes |
| `Wire` | the providers' formats and the classification of failures, as operators | used by `Streams`, `MCFunctions` |
| `Streams` | one streamed call of an adapter, read in pieces | composes the adapters with what is sent and lost |
| `Context` | construction of a model's context, as operators | |
| `Records` | lists, mappers, patches and tags, as operators on rows | |
| `Budget` | period windows and the spending in them, as operators | |
| `Storage` | content types, paths and uploads, as operators | used by `Files` |
| `Files` | pictures served and replaced, uploads streamed, artifacts | composes user, agents, artifacts and file storage |
| `Basics` | the absent value, the first rule that applies, and a record laid over another | used by the modules of operators |
| `Tables` | a table of rows by id, with insertion and deletion | used by `Workspace`, `Catalog` and `Files` (whose files are rows by path) |
| `ChatTurnsProofs`, `TeamRunProofs`, `PicturesProofs`, `FilesProofs`, `WorkspaceProofs`, `CatalogProofs`, `ChatViewProofs`, `StreamsProofs` | the theorems, each about the module it is named after | |
| `MC*` and `*.cfg` | instances for TLC; `MCFunctions` states what the operators are for | |

### 2.1 ChatTurns and Transcript

`rows[n]` is the row with sequence *n* (rows are inserted with MAX+1 and leave only with the chat).
`req[r]` is a request slot: `at` is the place where its handler waits, `open` whether the abort
signal is still clear (`req`/`res` `close` events abort it), `row`, `got` the reserved row and
`accumulatedContent`. Text is counted in pieces, one per non-empty text delta.

| Action | Code |
|---|---|
| `PostMessage`, `DeleteChat`, `DeleteModel` | requests served without waiting |
| `StartComplete`, `CompleteReturns` | `completeChat`; the reply, `updated_at` and usage event in one transaction (`PersistReply`) |
| `StartStream`, `Drained`, `Delta`, `Thought`, `StreamFinishes`, `StreamFails`, `StreamCut`, `StreamCloses` | `streamChat` and the controller's loop with its wait for `drain`; storing the reply and charging it are two transactions |
| `StartCompact`, `CompactReturns` | `compactChat`; `FoldPlan` is computed from the history as read, stored after the provider has answered |
| `Headers`, `CallFails`, `CallGivesUp`, `StreamTimesOut`, `StreamGivesUp` | the adapters. OpenAI and Anthropic keep the abort signal attached while the body is read, Google and Ollama do not (`Wired`) |
| `Crash`, `Restart` | a kill, between the two transactions too; `sweepStrandedMessages` |

`summary.folded` stands for the text of `context_summary` by the messages that went into it.
`overtaken` and `blanked` are history variables: they name the messages below the boundary that were
in flight when compaction read them, and those folded into a blank answer. They let the passing run
say exactly what is lost (`HistoryCovered`). The `row` of a usage event is a history component as well: the table
`usage_events` has no column for a message.

Abstracted: wording, timestamps, token counts, thought text, prompts. Requests refused before they
start (disabled model, missing credential, context too large) are not started. The sweep is assumed
to succeed. The UNIQUE retry of message creation cannot be reached on one synchronous connection.

`Transcript` says: messages are appended, an open reply only gains text, it settles once, a settled
message never changes, a restart fails the open ones, a chat goes as a whole. `ChatTurns` implements
it under the mapping that forgets requests and merges `pending` and `streaming` to "open"
(`IsTranscript`).

### 2.2 TeamRun

One action is a turn's end, the choice of the next and its start, when nothing is sent in between.
`Begin` reserves a row and yields `message_start` (streamed), or asks the provider (in one piece).
`AfterSequential`, `AfterBroadcast`, `AfterCoordinator` and `AfterAutonomous` are what each strategy
allows next; which colleague a reply's text names, and whether it says it is finished, is a choice.
`end = "dropped"` is a usage insert that fails outside the `try`: the response ends without an event.
`end = "stranded"` is a delegate's row that nobody will settle. `saw` is a history variable with the
messages a turn's context was built of. Crashes and the sweep are in `ChatTurns`. An agent or a team
that owns a chat cannot be deleted (`CHECK` in `chats.sql` refuses the SET NULL), so no action does.

### 2.3 Pictures

The handler of an upload reads the row, waits for the temporary file and for its rename, updates the
row, and waits for the removal of the file that the row named *when it was read*. `Clear` and
`DeleteOwner` change the row first. Every wait can fail and the process can be killed at each.
`alone` and `smooth` are history variables. The image of a project and the picture of the profile
follow the same code with fewer operations.

### 2.4 ChatView

The component stays while only the chat in the URL changes. `Load` replaces the requests for header
and newest page (`switchMap`); answers to `loadOlder`, `save`/`detachProject` and `remove` are used
whenever they arrive. A page is read on the server (`Answer`) before it arrives, so it can be out of
date. For header, save and removal only the server's state on arrival matters (an earlier reading
is an earlier arrival), so they have one step. Flags such as `loadingOlder` hold exactly while
their call is under way, and are not variables of their own. `strayed` is a history variable: calls
whose answer was used after the screen had moved on.

### 2.5 Workspace

Nothing in these services waits, so every operation is one action: the transaction with the reads,
refusals, cascades and `updated_at` of the code. A table is a function from the ids in use. A
roster keeps `position` as it is stored: `MemberAdd` takes MAX+1, `MemberRemove` and `MemberReorder`
renumber, deleting an agent only removes its rows (`cut` remembers the rosters it left). Deleting an
agent or a team that owns a chat is refused by the
`CHECK` of `chats` (`ChatsAllow`). `touched` names the rows whose `updated_at` the step wrote.

### 2.6 Catalog

`Discover` reads the provider and its credential and waits; `DiscoverStore` runs on whatever is there
when the answer has come. An answer is a sequence of items, some twice and some malformed. `Listed` and
`Missing` are the upsert and the disabling of what is not listed. The key file is created with an exclusive
open and filled in a second step: a kill in between leaves an empty file, and every later start is
refused. A credential is known by the key it was encrypted with. `SYMMETRY` is used for slots, processes,
identifiers and metadata.

### 2.7 Wire and Streams

A frame is a record of what a provider's frame carries (text, thought, counts, finish reason, an
error, a block); each adapter's reading of it is an operator. `Streams` sends frames, cuts the body
anywhere - within a line, between a data line and the blank line that ends its event - reads the pieces
one after the other (`ReadPiece`, a recursive function in `Read`), and closes the body
regularly, early or with an error, while the caller may stop and the deadline for the headers may
pass. The events are compared with those of the frames that had arrived, read in one piece. Answers
that are not streamed and lists of models are operators of `Wire`; `MCStreams` assumes of them, and TLC
evaluates, that an answer in one piece says what its stream says (`WholeAsStreamed`), that a list is
found as far as it can be read and the bound on pages goes (`ListsDiscovered`, `ListMissing`), and that
every failure has a code and a status (`NormalizedSoundly`, `EveryFailureAnswered`). URLs, headers and
wording are left out.

### 2.8 Context, Records, Budget and MCFunctions

Pure code as operators. A behaviour of `MCFunctions` is about one family: the streams, which run as `Streams`
says on the frames of `MCStreams`, or one of functions, of which it chooses an input in its only step.
What the results are for: `ContextFits` compares the fitted context with the longest suffix that fits;
`ConversationSurvives` the requests of the four providers with the conversation; `ListsExact` walks
the twelve lists page by page and compares them with the rows that match; `PatchExact` applies a patch
twice, and sends back what it was told; `SpendOnce` sums charges over neighbouring windows. Text is a short
sequence of characters where a property is about it (LIKE patterns, tags) and a value elsewhere.
A zone is a pair of offsets and the instant at which one follows the other; a day has four units of
time, and the months differ in length.

### 2.9 Storage and Files

Bytes are an identity, a size and the marks the sniffer looks for. A path is a sequence of segments;
`Links` are the symbolic links below and outside the root. `Files` has slots for two requests.
Serving a picture reads the row, asks for the size, sends the headers with the ETag and opens the
file, waiting between them; `Etag` is made of the time of the change and the size. A streamed upload writes
chunk by chunk to a temporary name, is checked as it grows, and is renamed. An artifact's row may
name its file by any reference a client sent. A kill and a file lost behind the program's back can
happen at every wait. `smooth` (never killed) and `left` (the temporary files that `cleanupTemp` did not
remove) are history variables.

## 3. What TLC checks

| Run | Instance | Distinct states | Shows |
|---|---|---|---|
| `chat_serving` | 2 requests, 2 adapters (one wired), 2 rows, 2 deltas | 128,776 | `InFlightOwned`, `OutcomeStored`, `ChargedAtMostOnce`, and live: `AbortEnds`, `HeadersBounded` |
| `chat_history` | 2 requests, 2 compactions, keep 0 or 1, 3 rows, `LongIsCalm` | 422,924 | `TypeOK`, `HistoryCovered`, refinement `IsTranscript` |
| `team_turns` | 3 agents, 1 prompt, 4 strategies, limit 2 or 3, streamed and not | 904,661 | `TypeOK`, `TurnsOwned`, `TurnsFollowStrategy`, `TurnsSee`, `TurnsKept` |
| `pictures_kept` | 3 requests, 4 names | 60,316 | `PictureStored`, `NothingLeftAlone` |
| `chat_view` | 2 chats of up to 3 messages, pages of 1, `PagesOrEdits` | 165,378 | `TypeOK`, `ScreenSound`, `NothingHidden`, `HeaderSound` |
| `workspace` | 3 agents, one row of every other kind, positions up to 3, `RostersOrRows` | 22,694 | `TypeOK`, `ReferencesExist`, `RosterOrdered`, and of steps: `TurnOrderKept`, `ChangesTouch` |
| `catalog` | 1 provider, 2 identifiers, 2 metadata, 2 requests, 2 processes, `KeysOrModels` | 17,212 | `TypeOK`, `CredentialsReadable`, `CatalogueIsOneAnswer`, `DiscoveryIdempotent`, `ProvidersSound`, and of steps: `DiscoveryRespects` |
| `functions_streams` | every small input of each family of functions; of streams 4 formats, 8 kinds of frame, 2 frames, lists of up to 4 pages | 136,765 | `TypeOK`, `StreamFaithful`, `FailuresTold`, `ContextFits`, `ConversationSurvives`, `ListsExact`, `PatchExact`, `SpendOnce` |
| `files` | 2 requests, 1 artifact, 2 names, 4 client references; scenes for each owner, *streams* and *artifacts* | 313,449 | `ReadersServed`, `FilesAccounted` |

Four instances have a `CONSTRAINT`, a bound that is defined and named in the MC module: TLC checks
every state that is reached, and goes on from those that meet it. It keeps groups of operations that
do not touch each other's state from being multiplied with one another. `LongIsCalm` stops where a
summary is stored for the second time, or a model is deleted, with all rows in use; `PagesOrEdits` where
earlier messages are asked for while a chat is saved or removed; `RostersOrRows` where a roster has
members (or a gap) beside prompts, memories or projects; `KeysOrModels` where a process has a key or
creates one beside models. What lies behind is covered by the theorems of section 4, which are about
the whole specification.

The instance of `Files` is split by what shares no file: a variable `scene` says
whether a behaviour is about the pictures of one owner, about streams of every kind, or about artifacts
and streams that are accepted. The pictures of two owners have files of their own, and so has the
bucket of the artifacts. The theorems are about `Files` itself, where everything overlaps.

### Why the bounds are enough

- *ChatTurns*: two requests make every pair of handlers overlap (reply and compaction, two replies,
  two compactions); three rows let a compaction keep one row, fold one and be overtaken by one, and two
  are enough for one summary to be folded into another (`LongIsCalm`); two
  deltas separate the first, always stored, from a later one that may not be.
- *TeamRun*: three agents have a roster in which a member disappears before, in and after its turn;
  limits 2 and 3 are below and at the length of the roster. `Fragile` bounds who is edited, and one
  prompt is answered: two make too many states, and the theorems are about any number.
- *Pictures*: three requests are two uploads and a removal or deletion that overlap; four names are
  one stored before and three being replaced.
- *ChatView*: three pages of one message are the least in which a page can be missing between two
  others, and two chats are enough to be on the wrong one.
- *Workspace*: three members are the least in which one leaves the middle of a roster; positions up to 3
  let a hole be left and reused.
- *Catalog*: two requests overlap as two discoveries; two identifiers let one be listed and the other
  missing; two metadata values and two answers let a model leave and come back changed.
- *Streams*: of two frames one can be whole and the other cut, and an error can follow text.
- *Functions*: windows, pages, tags and texts run from nothing past the first length at which something
  is cut or refused; every limit of the code has an input on both of its sides.
- *Files*: two requests are a reader and a writer, or two writers; two names are the picture before
  and the one after.

Symmetry is used only in runs without liveness, over values no definition tells apart.
`CHECK_DEADLOCK FALSE` is set where everything may come to an end: `TeamRun` when the prompt is
answered and nothing is left to edit, `Pictures` when the owner is deleted, `MCFunctions` when the call is
over or after its one step, `Catalog` when the ids are spent and no process has a key.

### Fairness

Only `ChatTurns` has liveness. Weak fairness is assumed of `CallGivesUp`, `StreamGivesUp` and
`StreamTimesOut`: a timer that was set fires, and a promise rejected by an abort resumes its handler.
The event loop guarantees both. Nothing is assumed of providers, clients or the user: a provider
may be silent and a client stalled for ever. `AbortEnds` is stated for the places where the
adapter still listens; `HeadersBounded` for the adapters' header timers, whose defaults are not zero.

### Findings

Each is a run whose one property is a sentence of the repository, violated by what the code does.
The sentence and the lines are in `PROJECT.json`.

| Run | Property | Behaviour |
|---|---|---|
| `team_stranded` | `NoneStranded` | a delegate's row is reserved although the client has gone, and stays pending until a restart |
| `budget_midnight` | `MidnightFirst` | west of UTC, where clocks jump over midnight, the day's window starts in the day before |
| `workspace_orphans` | `OwnersCanGo` | an agent or team that owns a chat cannot be deleted: the `CHECK` of `chats.sql` refuses what SET NULL writes, so no chat is left without an owner, although several comments say that chats survive that way |

`ReferencesExist` (every chat has one owner) holds only because these deletions fail; the code that
lists and shows chats without an owner is never needed (`chats.service.spec.ts:390` reaches it with the
check switched off).

### Known exceptions

The passing properties name these behaviours of the code as exceptions; each can be reached in the
model, and each is worth a decision.

- *Replies and history.* A reply in flight while compaction reads falls below the boundary and is never
  shown again (`overtaken`). A blank answer of the summarising model replaces the summary (`blanked`).
  For Google and Ollama a stop waits for the provider's next bytes (`Wired`).
- *Streams.* A stream that closes before the provider said it was done counts as complete. Ollama's
  unterminated last line loses an error or a thought in it. Anthropic's stream ends with `complete`
  after an error in the stream. An empty Gemini answer that was cut off is a failure in one piece, and a
  finished empty reply as a stream. A safety block of Gemini is `INVALID_REQUEST`, where
  `model-adapters/errors/README.md` has `CONTENT_FILTERED`; Ollama's 401 and 403 are
  `PROVIDER_UNAVAILABLE`; a deadline is a time-out only for Anthropic. A read of Google or Ollama that fails
  after the caller's stop is `REQUEST_ABORTED`, whatever made it fail.
- *Files.* Two overlapping uploads leave one file nobody names (`smooth`, `alone`). Two pictures of one
  size recorded in the same millisecond share an ETag (`Twins`). A file that goes between the check and
  the open cuts off a response that has begun. Artifacts that name one file lose it when one of them is
  deleted. `createWriteStream` opens the temporary file in its own time and `cleanupTemp` drops the error of
  its `unlink`: an upload that is refused before the file is open, or whose removal fails, leaves the file
  behind (`left`). `file-storage.service.ts:186` ("No file is left behind in either case") and `:257` ("The
  temporary file is removed on every failure path") promise more than that; `FilesAccounted` says what holds.
- *Records.* Deleting an agent leaves a hole in the positions of a roster, closed by the next removal
  or reorder. A tag cut at its maximal length can keep a blank at its end. A shared memory's `updated_at` moves
  even if nothing changed. East of UTC, the hour repeated at midnight lies outside its own window.
- *Chat view.* A late answer to save or load earlier changes another chat's screen (`strayed`). After an
  append the view can offer earlier messages that do not exist.

Each property of a passing run has a mutant of a modelled definition (a dropped guard, a wrong
boundary, a missing flush), kept beside it in the module, that makes TLC find the property violated.

## 4. What is proved

`tlapm` checks every proof from nothing. No theorem bounds requests, prompts, processes, models, agents,
rows, pages or names; the only assumptions are the named `ASSUME`s of the modules, which TLC
evaluates on every run. They say that a value that stands for "absent" is none of the others, that
bounds are natural numbers, and what the code fixes: a turn limit lies in 1..10, a page holds
at least one message, sets of agents and requests are finite, no error has the name of "none". `FilesAssumption` is the longest. It says
that names are drawn once and are plain segments, that the directories the store writes to are no links
(a link may lie anywhere else and lead anywhere where no other link is on the way), that no caller asks
for the bucket `.`, and that `Elsewhere` lies outside the root. Of a client's reference it says nothing.

| Module | Theorem | Statement |
|---|---|---|
| `ChatTurnsProofs` | `TypeInvariant` | `Spec => []TypeOK` |
| | `StreamsOwnTheirRows` | `Spec => []InFlightOwned` |
| | `CompactionAccounts` | `Spec => []HistoryCovered` |
| | `OutcomesAreStored` | `Spec => []OutcomeStored` |
| | `RepliesAreChargedOnce` | `Spec => []ChargedAtMostOnce` |
| | `TheChatIsATranscript` | `Spec => IsTranscript` |
| `TeamRunProofs` | `TypeInvariant` | `Spec => []TypeOK` |
| | `TurnsAreOwned` | `Spec => []TurnsOwned` |
| | `TurnsAreInOrder` | `Spec => []TurnsFollowStrategy` |
| | `TurnsSeeWhatTheyShould` | `Spec => []TurnsSee` |
| | `TurnsAreKept` | `Spec => []TurnsKept` |
| `PicturesProofs` | `NamedPictureIsStored` | `Spec => []PictureStored` |
| | `NothingIsLeft` | `Spec => []NothingLeftAlone` |
| `FilesProofs` | `ReferencesStayInside` | a reference that is not refused leads below the root |
| | `PicturesServed` | `Spec => []ReadersServed` |
| | `FilesStay` | `Spec => []FilesAccounted` |
| `WorkspaceProofs` | `TypeInvariant` | `Spec => []TypeOK` |
| | `NothingDangles` | `Spec => []ReferencesExist` |
| | `RostersAreOrdered` | `Spec => []RosterOrdered` |
| | `OrderIsKept`, `ChangesAreDated` | `Spec => TurnOrderKept`, `Spec => ChangesTouch` (of steps) |
| `CatalogProofs` | `TypeInvariant` | `Spec => []TypeOK` |
| | `CredentialsCanBeRead` | `Spec => []CredentialsReadable` |
| | `OneAnswer` | `Spec => []CatalogueIsOneAnswer` |
| | `ProvidersAreSound` | `Spec => []ProvidersSound` |
| | `DiscoveryIsIdempotent` | `Spec => []DiscoveryIdempotent` |
| | `DiscoveriesRespect` | `Spec => DiscoveryRespects` (of steps) |
| `ChatViewProofs` | `TypeInvariant` | `Spec => []TypeOK` |
| | `TheScreenIsSound` | `Spec => []ScreenSound` |
| | `NothingIsHidden` | `Spec => []NothingHidden` |
| | `TheHeaderIsSound` | `Spec => []HeaderSound` |
| `StreamsProofs` | `StreamsTyped` | `Spec => []TypeOK` |
| | `StreamsFaithful` | `Spec => []StreamFaithful` |
| | `FailuresAreTold` | `Spec => []FailuresTold` |

**ChatTurns.** `InFlightOwned` is not inductive: after a crash nothing owns the in-flight rows, and a
deleted chat takes away the rows of streams that go on. The invariant adds `Shaped` (no rows without
the chat, no requests without the process, which places each kind of request has), `Reserved` (the
row of each live stream, and that no two share one) and `Owned`. Appending a row and flushing one are
lemmas (`AppendEffect`, `FlushEffect`), so that each handler's step is reduced to what it does to
one request and one row.

`HistoryCovered` speaks of stored summaries, but a summary is stored long after it was computed. The
invariant `Covered` says the same of what every running compaction is *going to* store, and counts
rows that are still in flight as relevant: so a row that settles later is accounted for already, and
a plan survives everything other requests do (`CoversKept`). Storing one plan over another then
preserves it whatever the order.

**ChatTurns, outcomes and charges.** `OutcomeStored` is about streams that have settled but not closed,
and speaks of a row by its number. The invariant `Accounts` says that a stream keeps its row to itself
until it closes (`OwnRows`), what a settled stream has left (`Left`), and of every row - and of every
number that has no row yet - how often it is charged (`Tally`): a new row must not inherit a charge, and
a row in flight has none, which is why the one a stream writes after it settles is the first. Charges
are counted with the cardinality of the events of a row (`FiniteSetTheorems`).

**ChatTurns implements Transcript.** A step maps to one step of `Transcript` or to none. That a flush by
a live stream is an `Advance` - text only grows, the row is still open - needs `Streams`; that a
reply stored in one piece is an `AddSettled` and a reservation a `Reserve` follows from the shape
of an append (`AppendReads`, `FlushReads`, `SweepReads`); a restart is `Recover` for all open rows at
once, the deletion of the chat `Drop`.

**TeamRun.** One action stores a turn, chooses the next and begins it, so the invariant is stated of
one prompt's record, the rows and the charges as parameters (`Own`, `Sees`, `Order`), and used in
the middle of a step: after the turn has been stored, before the next has begun. `Own`: all rows of a
prompt but the last are complete and charged; the last may be under way. `Sees`: what a turn's
context was built of, and, for turns answered in one piece, what the row that does not exist yet will
have seen. `Order`: the place of a row among the rows of its prompt is its turn, though rows of others
lie in between, and a deleted agent leaves rows without an author. Another prompt's step leaves all
three as they are (`SameKeeps`), which is what makes the result hold for any number of prompts.

**Workspace.** `TypeOK`, `ReferencesExist` and `RosterOrdered` together are inductive. The lemmas are
about renumbering (`Renumbered`, `Reordered`), MAX + 1 (`NextIsLast`, `Joined`) and what a departure leaves
(`LeftBehind`); that *n* members with positions of their own below *n* take all of them (`Places`) is the
pigeonhole principle on finite sets. A request that writes one roster, or only chats, is reduced to that
(`RosterWritten`, `ChatsWritten`).

**Catalog.** `CredentialsReadable` needs `KeySteps`: a process that creates the file has no key, at most one
writes, and the file is cut short while it does, so nobody can read another key meanwhile. It does not
depend on who is killed. `Reconciled` says what storing an answer does to the table of models, for
answers of any length with repeated items; `CatalogueIsOneAnswer` is kept because every other step is
either known as an edit (`ModelWritten`) or forgets the answer with its provider. Idempotence follows
from `Reconciled` for the same answer twice (`AgainTheSame`).

**ChatView.** A screen is sound only together with the answers that are on their way. `Addressed`
says to which chat each request under way belongs, and that `switchMap` leaves header and page on the
chat in the URL; `Shown` adds that the total neither exceeds what the server has nor falls short of
what is shown, and that a request for older messages of this screen was made above its first message.
`PageShows` is the arithmetic of a page by cursor, for every page size. `NothingHidden` follows from
the bound on the total.

**Pictures.** `PictureStored` says nothing of an upload that has not reached the row. `Private` does:
a name on its way to the row is nobody else's - not the row's, not another upload's, and not one
to be discarded - because names are drawn once. `Stored` and `Discarded` follow step by step.
`NothingLeftAlone` adds `Tidy`: while requests come one at a time and none fails, the files are those the
row names and those that the one request at work holds.

**Files.** *Where references lead.* `path.resolve` is a recursive function over segments that a client
chose. That its value is a path for every length is shown by induction in the one form the provers
take: a set of numbers in place of a predicate, with the least number that is not in it (`WFMin`, as
`Least` and `Upward`). `InsideLength` says what a prefix of a path is in terms of its elements,
`FollowInside` that the file behind the last link found on the way is below the root too.
`Places` computes the path of a name that the store drew, and `NamesApart` that different names are
different files.

*What requests rest on.* Neither property is inductive. `Sound` says of a request at each of its waits
what it knows: an upload holds a whole, allowed picture; a reader was told a picture its owner had
(`Noted`), and what its client has is one too (`Has`), which is where twins come from; an answer is
right already. All of that survives what others do, because names, notes and what was given up only
grow (`Grows`, `SoundStays`). `Private`: a name that was drawn and not yet stored under is nobody
else's. `Pictured`: a picture is one owner's, an upload replaces only that owner's, and nobody
discards what a row names or an upload is about to record, unless an artifact named the same file
(`Lost`). `Kept` is the disk against its history, `Tidy` the temporary files: those of running
uploads and those in `left`, whose names no running upload has (`LeftBehind`). Storing a file and giving
one up are lemmas of their own (`Stores`, `GivesUpGone`, `ReplacesPictured`, `KeptShrinks`); each
action is reduced to them.

**Streams.** The theorems are about any number of frames of any content, in reads of any length. Neither
the buffer nor the events say by themselves how much of the body was read, so the invariant is that
*some* place `n` of the body fits all of it (`Follows`): what is to come is what lies after `n`, and the
reader is where reading the first `n` pieces leaves it (`At`). `At` says which frame the place lies in and
that the reader has taken the frames before it and is `Mid` this one: the buffer holds the pieces of
its unfinished line (`Held`), and the data line is parked exactly between its newline and the blank line.
That one piece moves `At` to the next place (`Onward`) is shown per kind of line; that *k* pieces move it by
*k* (`ReaderAfter`) needs induction over the read, as do the body as the frames' pieces one after another
(`BodyAt`), the frames taken (`TakenIs`), and that the events only grow (`Goes`). The recursive functions
involved exist (`Recursion`), and each induction is one over a set of numbers (`Upward`, `StaysIn`).
`Heard` counts the data lines that have arrived; `ReferenceIs` shows that what `StreamFaithful` compares
with, counted there with a cardinality, is what is `Due` at the place. A stream that ended well has said
what is due; one that failed, or still runs, has said a prefix of it (`AtDue`). `Control` is the part
about time: a deadline that has passed has ended the call, and only the caller's stop aborts it.
`StatusOf` compares the table of the exception filter with the statuses of the error classes.

**Only model-checked:**

- `AbortEnds` and `HeadersBounded`: liveness and `ENABLED` are out of the prover's reach.
- `MCFunctions` (`ContextFits`, `ConversationSurvives`, `ListsExact`, `PatchExact`, `SpendOnce`): the
  operators of `Context`, `Wire`, `Records` and `Budget` are written with the folds of the community
  modules. What these yield for every input needs induction over data, whose theorems
  take an operator as a parameter, which none of the provers used here can instantiate. Where that was
  worth it, in `Files` and `Streams`, the recursion is a recursive function instead and the induction one
  over sets of numbers.
- The three findings, which are counterexamples.

## 5. Not modelled, and why

- Migrations: fixed SQL text in one transaction each; the modules start from the schema they yield.
- Text without control: URLs and headers of provider requests, redaction of secrets, wording of errors
  and prompts, syntax of identifiers, validation of single fields.
- Cryptographic primitives: a ciphertext is what it was made of.
- The web application beyond the chat view: lists (one `switchMap`, so the last request wins by the
  library's contract), forms, navigation, polling of the API's status.
- The desktop shell, which reveals one window once; scripts; start-up wiring, configuration, logging and
  health probes; the analytics and backup stubs.
- Physical failures of SQLite.

## 6. Plan

What is left is proof, in the order of importance:

1. The operators behind `ContextFits` and `ListsExact` as recursive functions, and theorems about them in
   the way of `StreamsProofs`.
2. What the modules share: the lemmas on rows that are appended and written, stated in
   `ChatTurnsProofs` and again, for its rows, in `TeamRunProofs`.
