------------------------------- MODULE Files --------------------------------
(***************************************************************************)
(* The file store and those who use it at the same time: the pictures of   *)
(* the profile and of an agent are replaced, removed and served; files     *)
(* arrive as streams; artifact rows name files by references that clients  *)
(* give, and delete them.  Every system call is a step, and other requests *)
(* run between two steps; the process can be killed, and a database can be *)
(* restored without its files.                                             *)
(*                                                                         *)
(* How one picture is written, named and discarded with failures at every  *)
(* step is in Pictures; here storing a buffer is one step.                 *)
(***************************************************************************)
EXTENDS Records, Storage, Tables

CONSTANTS
  Jobs,        \* slots for concurrent requests
  Owners,      \* who has a picture
  Profile,     \* the owner that keeps a time of its own for its picture
  Artifacts,   \* identifiers of artifacts
  Bodies,      \* multipart bodies of picture uploads
  Streamed,    \* bytes that arrive as streams
  Buckets,     \* buckets asked for
  References,  \* references that clients give
  FileNames,   \* bound: the names newId draws, in order
  MaxBytes,    \* the configured maximum size
  MaxTime,     \* bound: clock readings
  MaxVersion,  \* bound: changes of an artifact
  Root,        \* the storage root
  Links,       \* symbolic links to directories below it, each with its target
  Elsewhere    \* the files outside the root

(* The directories files are stored in: the buckets that are asked for and *)
(* valid, and the two that onModuleInit makes.                             *)
BucketNames ==
  {"pictures", "artifacts"} \cup {Head(bucket.segs) : bucket \in {b \in Buckets : assertValidBucket(b)}}

Octets == [id : STRING, size : Nat, marks : SUBSET STRING, nul : BOOLEAN, controls : Nat]
AnyReference == [form : {"blank", "nul", "encoded", "absolute", "relative"}, segs : Seq(STRING)]

(* newId never draws a name twice, and what is stored is a plain file below*)
(* a directory that is no link, in a bucket that is not the root itself (no*)
(* caller asks for "."); Links and Elsewhere are what they are said to be, *)
(* and a link leads where no other link is on the way.  A reference that a *)
(* client gives can be anything.                                           *)
ASSUME FilesAssumption ==
  /\ Owners \cap (Artifacts \cup {"restore"}) = {} /\ None \notin AnyReference \cup Octets
  /\ MaxBytes \in Nat
  /\ Streamed \subseteq Octets /\ Bodies \subseteq Seq(Octets)
  /\ References \subseteq AnyReference
  /\ FileNames \in Seq(STRING \ {".", ".."})
  /\ \A j, k \in DOMAIN FileNames : FileNames[j] = FileNames[k] => j = k
  /\ Root \in Seq(STRING)
  /\ \A link \in DOMAIN Links :
       link \in Seq(STRING) /\ Links[link] \in Seq(STRING) /\ StrictlyInside(Root, link)
  /\ \A link, other \in DOMAIN Links : ~IsPrefix(Links[link], other) /\ ~StrictlyInside(link, other)
  /\ \A bucket \in BucketNames :
       /\ bucket \in STRING \ {".", ".."} /\ Append(Root, bucket) \notin DOMAIN Links
       /\ \A k \in DOMAIN FileNames : Root \o <<bucket, FileNames[k]>> \notin DOMAIN Links
  /\ \A path \in DOMAIN Elsewhere : ~StrictlyInside(Root, path)

VARIABLES
  disk,        \* path |-> bytes, for every finished file
  temps,       \* the names of .tmp- files
  rows,        \* owner |-> picture_path and the time its tag is built from
  artifacts,   \* identifier |-> row
  job,         \* slot |-> the request it serves
  drawn,       \* names drawn
  clock,       \* nowIso(): it need not move between two readings
  held,        \* owner |-> what a client has of its picture, and the tag of that
  stored,      \* history: path |-> bytes, for every file ever stored
  named,       \* history: the pictures owners had, with their times
  letGo,       \* history: <<who, path>> for every row that gave up a file
  smooth,      \* history: the process was never killed
  left         \* history: temporary files that a refused upload did not remove

history == <<stored, named, letGo, smooth, left>>
vars == <<disk, temps, rows, artifacts, job, drawn, clock, held, history>>

Idle == [at |-> "idle"]
Absent == [file |-> None, content |-> None]
Reference(bucket, name) == [form |-> "relative", segs |-> <<bucket, name>>]
Directories == {Root} \cup {Append(Root, b) : b \in {"pictures", "artifacts"}} \cup DOMAIN Links

(* resolveAndVerify, and the file it comes to: None when refused. *)
resolveAndVerify(reference) ==
  LET path == verifyStoragePathContainment(Root, reference, Links)
  IN  IF path = None THEN None ELSE Follow(path, Links)

exists(reference) == resolveAndVerify(reference) \in DOMAIN disk

Init ==
  /\ disk = Elsewhere
  /\ temps = {}
  /\ rows = [o \in Owners |-> [picture |-> None, stamp |-> 0]]
  /\ artifacts = [a \in Artifacts |-> Absent]
  /\ job = [j \in Jobs |-> Idle]
  /\ drawn = 0
  /\ clock = 1
  /\ held = [o \in Owners |-> [tags |-> {}, bytes |-> None]]
  /\ stored = Elsewhere
  /\ named = {}
  /\ letGo = {}
  /\ smooth = TRUE
  /\ left = {}

-----------------------------------------------------------------------------
Free(j) == job[j].at \in {"idle", "answered"}
Goes(j, to) == job' = [job EXCEPT ![j] = to]
Waits(j, place) == Goes(j, [job[j] EXCEPT !.at = place])
(* The code of an answer is kept for those who ask for a picture. *)
Ends(j) == Goes(j, Idle)

(* nowIso(): the clock is read, to the millisecond. *)
Now == clock' \in {t \in {clock, clock + 1} : t <= MaxTime}

(* newId(): a name that was never used. *)
Draws == drawn < Len(FileNames) /\ drawn' = drawn + 1
Drawn == FileNames[drawn + 1]

(* A file appears under its final name, all at once. *)
Keep(reference, bytes) ==
  LET path == resolveAndVerify(reference)
  IN  disk' = Insert(disk, path, bytes) /\ stored' = Insert(stored, path, bytes)

(* The request goes on to delete the file a row gave up, if it named one. *)
GivesUp(j, who, reference) ==
  IF reference = None THEN Ends(j) /\ UNCHANGED letGo
  ELSE /\ Goes(j, [at |-> "discarding", ref |-> reference])
       /\ letGo' = letGo \cup {<<who, resolveAndVerify(reference)>>}

(* Mutant of delete: the reference is joined to the root unchecked. *)
deleteUnchecked(j) ==
  LET path == Follow(resolve(Root, job[j].ref.segs), Links)
  IN  /\ job[j].at = "discarding"
      /\ disk' = Delete(disk, {path})
      /\ Ends(j)
      /\ UNCHANGED <<temps, rows, artifacts, drawn, clock, held, history>>

(* A reference that is refused, a directory and a failure are logged by    *)
(* the caller; a file that is not there is no error.                       *)
delete(j) ==
  LET path == resolveAndVerify(job[j].ref)
  IN  /\ job[j].at = "discarding"
      /\ \/ disk' = IF path = None \/ path \in Directories THEN disk
                    ELSE Delete(disk, {path})
         \/ UNCHANGED disk
      /\ Ends(j)
      /\ UNCHANGED <<temps, rows, artifacts, drawn, clock, held, history>>

-----------------------------------------------------------------------------
(* Pictures. *)

(* The time a picture's tag is built from: the profile has one for its     *)
(* picture, an agent has updated_at.                                       *)
Names(o, reference, now) ==
  /\ rows' = [rows EXCEPT ![o] = [picture |-> reference, stamp |-> now]]
  /\ named' = IF reference = None THEN named
              ELSE named \cup {[owner |-> o, stamp |-> now, path |-> resolveAndVerify(reference)]}

uploadPicture(j, o, parts) ==
  LET received == intercept(parts, MaxBytes)
      code == IF received.code # 200 THEN received.code
              ELSE assertUploadablePicture(received.file, MaxBytes)
  IN  /\ Free(j)
      /\ IF code # 200 THEN Ends(j) /\ UNCHANGED drawn
         ELSE /\ Draws
              /\ Goes(j, [at |-> "writing", owner |-> o, bytes |-> received.file,
                          ref |-> Reference("pictures", Drawn), old |-> rows[o].picture])
      /\ UNCHANGED <<disk, temps, rows, artifacts, clock, held, history>>

write(j) ==
  /\ job[j].at = "writing"
  /\ \/ Keep(job[j].ref, job[j].bytes) /\ Waits(j, "recording")
     \/ Ends(j) /\ UNCHANGED <<disk, stored>>
  /\ UNCHANGED <<temps, rows, artifacts, drawn, clock, held, named, letGo, smooth, left>>

recordPicture(j) ==
  /\ job[j].at = "recording"
  /\ Now
  /\ Names(job[j].owner, job[j].ref, clock')
  /\ GivesUp(j, job[j].owner, job[j].old)
  /\ UNCHANGED <<disk, temps, artifacts, drawn, held, stored, smooth, left>>

deletePicture(j, o) ==
  /\ Free(j)
  /\ IF rows[o].picture = None THEN Ends(j) /\ UNCHANGED <<rows, clock, named, letGo>>
     ELSE /\ Now
          /\ Names(o, None, IF o = Profile THEN 0 ELSE clock')
          /\ GivesUp(j, o, rows[o].picture)
  /\ UNCHANGED <<disk, temps, artifacts, drawn, held, stored, smooth, left>>

(* Any other change of an agent moves its updated_at. *)
editAgent(o) ==
  /\ o # Profile
  /\ Now
  /\ Names(o, rows[o].picture, clock')
  /\ UNCHANGED <<disk, temps, artifacts, job, drawn, held, stored, letGo, smooth, left>>

-----------------------------------------------------------------------------
(* Serving a picture. *)

(* A client that has the picture says what it has. *)
Opens(j, o) ==
  /\ Free(j)
  /\ IF rows[o].picture = None THEN Ends(j)
     ELSE Goes(j, [at |-> "stat", owner |-> o, ref |-> rows[o].picture, stamp |-> rows[o].stamp,
                   header |-> held[o].tags, had |-> held[o].bytes])
  /\ UNCHANGED <<disk, temps, rows, artifacts, drawn, clock, held, history>>

openPicture(j, o) == o = Profile /\ Opens(j, o)
openAgentPicture(j, o) == o # Profile /\ Opens(j, o)

(* Its next wait, and what it knows by then. *)
Advanced(j, place, more) == Overlay([job[j] EXCEPT !.at = place], more)

Closes(j, code) == Goes(j, Advanced(j, "answered", [code |-> code]))

stat(j) ==
  /\ job[j].at = "stat"
  /\ IF exists(job[j].ref)
     THEN Goes(j, Advanced(j, "header", [size |-> disk[resolveAndVerify(job[j].ref)].size]))
     ELSE Closes(j, 404)
  /\ UNCHANGED <<disk, temps, rows, artifacts, drawn, clock, held, history>>

(* Mutant of Etag: the tag is the size. *)
EtagOfSize(stamp, size) == <<0, size>>

Etag(stamp, size) == <<stamp, size>>

(* The type is read from the file; if that fails it is unknown.  The tag   *)
(* is compared before the file is opened.                                  *)
findPicture(j) ==
  LET etag == Etag(job[j].stamp, job[j].size)
  IN  /\ job[j].at = "header"
      /\ IF matchesEtag(job[j].header, etag) THEN Closes(j, 304)
         ELSE \E type \in {OctetStream} \cup
                {detectContentType(disk[p]).mime : p \in {resolveAndVerify(job[j].ref)} \cap DOMAIN disk} :
                Goes(j, Advanced(j, "opening", [type |-> type, etag |-> etag]))
      /\ UNCHANGED <<disk, temps, rows, artifacts, drawn, clock, held, history>>

(* Whether the file is there is asked once more ... *)
createReadStream(j) ==
  /\ job[j].at = "opening"
  /\ IF exists(job[j].ref) THEN Waits(j, "sending") ELSE Closes(j, 404)
  /\ UNCHANGED <<disk, temps, rows, artifacts, drawn, clock, held, history>>

(* ... and then it is opened by its name, after the response has begun. *)
SendPicture(j) ==
  /\ job[j].at = "sending"
  /\ IF exists(job[j].ref)
     THEN LET bytes == disk[resolveAndVerify(job[j].ref)]
          IN  /\ Goes(j, Advanced(j, "answered", [code |-> 200, bytes |-> bytes]))
              /\ held' = [held EXCEPT ![job[j].owner] = [tags |-> {job[j].etag}, bytes |-> bytes]]
     ELSE Closes(j, 599) /\ UNCHANGED held
  /\ UNCHANGED <<disk, temps, rows, artifacts, drawn, clock, history>>

-----------------------------------------------------------------------------
(* Files that arrive as streams, in chunks of size 1. *)

Accepted == {<<"image", "*">>, <<"text", "plain">>}

WriteStream(j, bytes, bucket) ==
  /\ Free(j)
  /\ IF ~assertValidBucket(bucket) THEN Ends(j) /\ UNCHANGED drawn
     ELSE /\ Draws
          /\ Goes(j, [at |-> "streaming", bytes |-> bytes, name |-> Drawn, total |-> 0,
                      opened |-> FALSE, paused |-> FALSE,
                      ref |-> Reference(Head(bucket.segs), Drawn)])
  /\ UNCHANGED <<disk, temps, rows, artifacts, clock, held, history>>

(* The temporary file is there once the system has opened it. *)
TempOpens(j) ==
  /\ job[j].at = "streaming" /\ ~job[j].opened
  /\ Goes(j, [job[j] EXCEPT !.opened = TRUE])
  /\ temps' = temps \cup {job[j].name}
  /\ UNCHANGED <<disk, rows, artifacts, drawn, clock, held, history>>

Refuses(j) == Waits(j, "refused")

(* One chunk more: the total is compared before it is written. When the    *)
(* write buffer is full, the source waits.                                 *)
Data(j) ==
  LET total == job[j].total + 1
  IN  /\ job[j].at = "streaming" /\ ~job[j].paused /\ job[j].total < job[j].bytes.size
      /\ IF total > MaxBytes THEN Refuses(j)
         ELSE \E full \in BOOLEAN : Goes(j, [job[j] EXCEPT !.total = total, !.paused = full])
      /\ UNCHANGED <<disk, temps, rows, artifacts, drawn, clock, held, history>>

Drain(j) ==
  /\ job[j].at = "streaming" /\ job[j].paused /\ job[j].opened
  /\ Goes(j, [job[j] EXCEPT !.paused = FALSE])
  /\ UNCHANGED <<disk, temps, rows, artifacts, drawn, clock, held, history>>

(* The source or the file fails. *)
StreamFails(j) ==
  /\ job[j].at = "streaming"
  /\ Refuses(j)
  /\ UNCHANGED <<disk, temps, rows, artifacts, drawn, clock, held, history>>

(* All is written: the type is that of the header. *)
Finish(j) ==
  /\ job[j].at = "streaming" /\ job[j].opened /\ ~job[j].paused /\ job[j].total = job[j].bytes.size
  /\ IF validateFile(job[j].bytes, None, Accepted) = 200 THEN Waits(j, "renaming") ELSE Refuses(j)
  /\ UNCHANGED <<disk, temps, rows, artifacts, drawn, clock, held, history>>

RenameStream(j) ==
  /\ job[j].at = "renaming"
  /\ \/ /\ Keep(job[j].ref, [job[j].bytes EXCEPT !.size = job[j].total])
        /\ temps' = temps \ {job[j].name}
        /\ Ends(j)
     \/ Refuses(j) /\ UNCHANGED <<disk, stored, temps>>
  /\ UNCHANGED <<rows, artifacts, drawn, clock, held, named, letGo, smooth, left>>

(* It stays if it cannot be removed, an error nobody sees, or if it was not*)
(* open yet when the upload was refused: createWriteStream opens it in its *)
(* own time, and the removal that comes first finds nothing.               *)
cleanupTemp(j) ==
  /\ job[j].at = "refused"
  /\ Ends(j)
  /\ \/ temps' = temps \ {job[j].name} /\ UNCHANGED left
     \/ temps' = temps \cup {job[j].name} /\ left' = left \cup {job[j].name}
  /\ UNCHANGED <<disk, rows, artifacts, drawn, clock, held, stored, named, letGo, smooth>>

-----------------------------------------------------------------------------
(* Artifacts: a text of their own, or the file a reference names. *)

(* What a client can name: what it makes up, and files it stored. *)
Offers == References \cup {Reference("artifacts", FileNames[k]) : k \in 1..drawn}

(* known: the project, chat and agent it names exist. *)
createArtifact(j, a, body, known) ==
  LET code == IF (body.content = None) = (body.file = None) THEN 400 ELSE IF ~known THEN 422 ELSE 200
  IN  /\ Free(j)
      /\ artifacts[a] = Absent
      /\ artifacts' = IF code = 200 THEN [artifacts EXCEPT ![a] = Overlay(body, [version |-> <<1>>])] ELSE artifacts
      /\ Ends(j)
      /\ UNCHANGED <<disk, temps, rows, drawn, clock, held, history>>

updateArtifact(j, a, body, known) ==
  LET result == applyArtifactUpdates(Overlay(artifacts[a], [updated |-> 0]), body, 0)
      code == IF ~known THEN 422 ELSE result.code
  IN  /\ Free(j)
      /\ artifacts[a] # Absent /\ artifacts[a].version[1] < MaxVersion
      /\ IF code # 200 THEN Ends(j) /\ UNCHANGED <<artifacts, letGo>>
         ELSE /\ artifacts' = [artifacts EXCEPT
                    ![a] = [c \in {"content", "file", "version"} |-> result.row[c]]]
              /\ GivesUp(j, a, result.unlinked)
      /\ UNCHANGED <<disk, temps, rows, drawn, clock, held, stored, named, smooth, left>>

deleteArtifact(j, a) ==
  /\ Free(j)
  /\ IF artifacts[a] = Absent THEN Ends(j) /\ UNCHANGED <<artifacts, letGo>>
     ELSE /\ artifacts' = [artifacts EXCEPT ![a] = Absent]
          /\ GivesUp(j, a, artifacts[a].file)
  /\ UNCHANGED <<disk, temps, rows, drawn, clock, held, stored, named, smooth, left>>

-----------------------------------------------------------------------------
(* Faults. *)

(* The process is killed: temporary files stay. *)
Crash ==
  /\ \E j \in Jobs : ~Free(j)
  /\ job' = [j \in Jobs |-> Idle]
  /\ smooth' = FALSE
  /\ UNCHANGED <<disk, temps, rows, artifacts, drawn, clock, held, stored, named, letGo, left>>

(* A database is restored, and a file did not come along. Once. *)
LoseFile(path) ==
  /\ path \in DOMAIN disk \ DOMAIN Elsewhere
  /\ \A gone \in letGo : gone[1] # "restore"
  /\ disk' = Delete(disk, {path})
  /\ letGo' = letGo \cup {<<"restore", path>>}
  /\ UNCHANGED <<temps, rows, artifacts, job, drawn, clock, held, stored, named, smooth, left>>

ArtifactBodies == [content : {None, "text"}, file : Offers \cup {None}]
ArtifactPatches == ArtifactBodies \cup [file : Offers] \cup [content : {None, "text"}]

NextPictures(o) ==
  \/ editAgent(o)
  \/ \E j \in Jobs :
       \/ \E parts \in Bodies : uploadPicture(j, o, parts)
       \/ deletePicture(j, o)
       \/ openPicture(j, o) \/ openAgentPicture(j, o)
       \/ write(j) \/ recordPicture(j)
       \/ stat(j) \/ findPicture(j) \/ createReadStream(j) \/ SendPicture(j)

NextStreams ==
  \E j \in Jobs :
    \/ \E bytes \in Streamed, bucket \in Buckets : WriteStream(j, bytes, bucket)
    \/ TempOpens(j) \/ Data(j) \/ Drain(j) \/ StreamFails(j) \/ Finish(j)
    \/ RenameStream(j) \/ cleanupTemp(j)

NextArtifacts ==
  \E j \in Jobs, a \in Artifacts :
    \/ \E body \in ArtifactBodies, known \in BOOLEAN : createArtifact(j, a, body, known)
    \/ \E body \in ArtifactPatches, known \in BOOLEAN : updateArtifact(j, a, body, known)
    \/ deleteArtifact(j, a)

NextStore == \E j \in Jobs : delete(j)

Faults == Crash \/ \E path \in DOMAIN disk : LoseFile(path)

Next == (\E o \in Owners : NextPictures(o)) \/ NextStreams \/ NextArtifacts \/ NextStore \/ Faults

Spec == Init /\ [][Next]_vars

-----------------------------------------------------------------------------
Gone == {gone[2] : gone \in letGo}

(* Two pictures one owner had at the same millisecond, of the same size:   *)
(* their tags are the same.                                                *)
Twins(o, path, size) ==
  \E one, other \in named :
    /\ one.owner = o /\ other.owner = o /\ one.stamp = other.stamp
    /\ one.path = path /\ other.path # path /\ stored[other.path].size = size

(* What a client is sent is the picture the row named when the request     *)
(* came, all of it, with its size and a type that is its own or unknown;   *)
(* it is told to keep what it has only if that is the same picture, twins  *)
(* aside.  It is told there is none, or cut off, only when a row gave that *)
(* file up or the file was lost in the meantime (UserService.openPicture). *)
ReadersServed ==
  \A j \in Jobs : job[j].at = "answered" /\ "had" \in DOMAIN job[j] =>
    LET path == resolveAndVerify(job[j].ref)
    IN  CASE job[j].code = 200 ->
               /\ job[j].bytes = stored[path] /\ job[j].size = stored[path].size
               /\ job[j].type \in {OctetStream, detectContentType(stored[path]).mime}
          [] job[j].code = 304 ->
               job[j].had = stored[path] \/ Twins(job[j].owner, path, job[j].size)
          [] OTHER -> path \in Gone

(* The temporary files of the uploads that are running and have opened one.*)
Running == {job[j].name : j \in {i \in Jobs : /\ job[i].at \in {"streaming", "refused", "renaming"}
                                              /\ job[i].opened}}

(* A file goes only after a row that named it gave it up; the picture a    *)
(* row names is there unless it was lost or an artifact that named the same*)
(* file gave it up; what is stored is a whole upload of a size and type    *)
(* that are allowed; files outside the root stay as they are, and unless   *)
(* the process was killed the temporary files are those of running uploads *)
(* and, against what the comments of FileStorageService.write and          *)
(* writeStreamInternal say ("No file is left behind", "removed on every    *)
(* failure path"), those left behind by refused ones whose removal failed  *)
(* or came before the file was open (cleanupTemp) (FileStorageService.write*)
(* and delete; ArtifactsService.delete).                                   *)
FilesAccounted ==
  /\ \A path \in DOMAIN stored \ DOMAIN disk : path \in Gone
  /\ \A o \in Owners : rows[o].picture # None =>
       \/ exists(rows[o].picture)
       \/ \E gone \in letGo : gone[1] \notin Owners /\ gone[2] = resolveAndVerify(rows[o].picture)
  /\ \A path \in DOMAIN disk \ DOMAIN Elsewhere :
       /\ disk[path].size <= MaxBytes
       /\ \E bytes \in Streamed \cup UNION {Range(parts) : parts \in Bodies} : disk[path] = bytes
       /\ Permits(Accepted, detectContentType(disk[path]).mime)
  /\ \A path \in DOMAIN Elsewhere : path \in DOMAIN disk /\ disk[path] = Elsewhere[path]
  /\ smooth => temps = Running \cup left
=============================================================================
