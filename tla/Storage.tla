------------------------------ MODULE Storage -------------------------------
(***************************************************************************)
(* The functions of the file store: which type a file's bytes have, which  *)
(* uploads are refused, and which file a reference names.                  *)
(*                                                                         *)
(* Bytes are told apart by what the store looks at: their size, the marks  *)
(* (signatures, and how a text opens) they show, whether they hold a NUL   *)
(* and how many other control characters.  A type is a pair such as        *)
(* <<"image", "png">>; letter case and blanks around it are left out.  A   *)
(* path is the sequence of its segments from the root of the file system.  *)
(***************************************************************************)
EXTENDS Basics, FiniteSets, TLC

-----------------------------------------------------------------------------
(* Content types. *)

MIME_TO_EXTENSION ==
     <<"image", "jpeg">> :> ".jpg" @@ <<"image", "png">> :> ".png"
  @@ <<"image", "gif">> :> ".gif" @@ <<"image", "webp">> :> ".webp"
  @@ <<"image", "svg+xml">> :> ".svg" @@ <<"image", "avif">> :> ".avif"
  @@ <<"image", "bmp">> :> ".bmp" @@ <<"image", "tiff">> :> ".tiff"
  @@ <<"image", "x-icon">> :> ".ico" @@ <<"application", "pdf">> :> ".pdf"
  @@ <<"application", "zip">> :> ".zip" @@ <<"application", "gzip">> :> ".gz"
  @@ <<"application", "x-tar">> :> ".tar" @@ <<"application", "vnd.sqlite3">> :> ".db"
  @@ <<"application", "x-sqlite3">> :> ".db" @@ <<"audio", "mpeg">> :> ".mp3"
  @@ <<"audio", "wav">> :> ".wav" @@ <<"audio", "ogg">> :> ".ogg"
  @@ <<"video", "mp4">> :> ".mp4" @@ <<"video", "webm">> :> ".webm"
  @@ <<"video", "x-matroska">> :> ".mkv" @@ <<"application", "json">> :> ".json"
  @@ <<"text", "html">> :> ".html" @@ <<"application", "xml">> :> ".xml"
  @@ <<"text", "plain">> :> ".txt" @@ <<"text", "markdown">> :> ".md"
  @@ <<"text", "csv">> :> ".csv" @@ <<"application", "octet-stream">> :> ".bin"

(* A type, and what else it is called. *)
Canonical ==
  {<< <<"image", "jpeg">>, {<<"image", "jpg">>} >>, << <<"image", "png">>, {<<"image", "x-png">>} >>,
   << <<"image", "x-icon">>, {<<"image", "vnd.microsoft.icon">>} >>,
   << <<"application", "gzip">>,
      {<<"application", "x-gzip">>, <<"application", "x-gunzip">>, <<"application", "gzipped">>, <<"gzip">>} >>,
   << <<"application", "zip">>, {<<"application", "x-zip">>, <<"application", "x-zip-compressed">>} >>,
   << <<"application", "vnd.sqlite3">>,
      {<<"application", "x-sqlite3">>, <<"application", "sqlite3">>, <<"application", "x-sqlite">>} >>,
   << <<"audio", "mpeg">>, {<<"audio", "mp3">>} >>, << <<"text", "markdown">>, {<<"text", "x-markdown">>} >>}

normalizeMimeType(mime) ==
  IF \E kind \in Canonical : mime \in kind[2]
  THEN (CHOOSE kind \in Canonical : mime \in kind[2])[1] ELSE mime

getExtensionForMime(mime) ==
  LET normal == normalizeMimeType(mime)
  IN  IF normal \in DOMAIN MIME_TO_EXTENSION THEN MIME_TO_EXTENSION[normal] ELSE ".bin"

OctetStream == <<"application", "octet-stream">>

(* In the order they are tried: a mark, and the type it stands for. *)
Signatures ==
  << <<"jpeg", <<"image", "jpeg">> >>, <<"png", <<"image", "png">> >>, <<"gif", <<"image", "gif">> >>,
     <<"riff webp", <<"image", "webp">> >>, <<"riff wave", <<"audio", "wav">> >>,
     <<"ftyp avif", <<"image", "avif">> >>, <<"ftyp", <<"video", "mp4">> >>,
     <<"bm", <<"image", "bmp">> >>, <<"tiff", <<"image", "tiff">> >>, <<"ico", <<"image", "x-icon">> >>,
     <<"pdf", <<"application", "pdf">> >>, <<"gzip", <<"application", "gzip">> >>,
     <<"zip", <<"application", "zip">> >>, <<"sqlite", <<"application", "vnd.sqlite3">> >>,
     <<"ustar", <<"application", "x-tar">> >>, <<"ogg", <<"audio", "ogg">> >>,
     <<"ebml", <<"video", "webm">> >>, <<"id3", <<"audio", "mpeg">> >>,
     <<"mpeg frame", <<"audio", "mpeg">> >> >>

(* The bytes read as a text: no NUL and at most two control characters     *)
(* that are no white space.                                                *)
extractTextSample(bytes) == ~bytes.nul /\ bytes.controls <= 2

detectText(marks) ==
  FirstMatch(<< <<"svg" \in marks /\ marks \cap {"opens xml", "opens doctype svg", "opens svg"} # {},
                  <<"image", "svg+xml">> >>,
                <<marks \cap {"opens doctype html", "opens html"} # {}, <<"text", "html">> >>,
                <<"opens xml" \in marks, <<"application", "xml">> >>,
                <<{"opens json", "parses"} \subseteq marks, <<"application", "json">> >>,
                <<TRUE, <<"text", "plain">> >> >>)

(* Signatures go before text: a file that opens like a picture is one,     *)
(* whatever follows.  Every mark is in the first 4096 bytes, so the header *)
(* of a file shows the same as all of it.                                  *)
detectContentType(bytes) ==
  LET mime == FirstMatch(<< <<bytes.size = 0, OctetStream>> >>
                         \o [k \in DOMAIN Signatures |->
                               <<Signatures[k][1] \in bytes.marks, Signatures[k][2]>>]
                         \o << <<extractTextSample(bytes), detectText(bytes.marks)>>,
                               <<TRUE, OctetStream>> >>)
  IN  [mime |-> mime, extension |-> getExtensionForMime(mime)]

Permits(allowed, mime) ==
  \E one \in {normalizeMimeType(a) : a \in allowed} :
    \/ one \in {<<"*", "*">>, normalizeMimeType(mime)}
    \/ one[2] = "*" /\ one[1] = normalizeMimeType(mime)[1]

(* 200, or the status the upload is refused with. *)
validateFile(bytes, maxBytes, allowed) ==
  FirstMatch(<< <<maxBytes # None /\ bytes.size > Or0(maxBytes), 413>>,
                <<allowed # {} /\ ~Permits(allowed, detectContentType(bytes).mime), 415>>,
                <<TRUE, 200>> >>)

-----------------------------------------------------------------------------
(* Uploads of pictures. *)

ALLOWED_PICTURE_MIME_TYPES ==
  {<<"image", "jpeg">>, <<"image", "png">>, <<"image", "webp">>, <<"image", "gif">>}

(* What the multipart body comes to: the one file in it, or a status. *)
intercept(parts, maxBytes) ==
  IF parts = <<>> THEN [code |-> 200, file |-> None]
  ELSE FirstMatch(<< <<Head(parts).size > maxBytes, [code |-> 413, file |-> None]>>,
                     <<Len(parts) > 1, [code |-> 400, file |-> None]>>,
                     <<TRUE, [code |-> 200, file |-> Head(parts)]>> >>)

assertUploadablePicture(file, maxBytes) ==
  IF file = None THEN 400
  ELSE FirstMatch(<< <<file.size = 0, 400>>,
                     <<file.size > maxBytes, 413>>,
                     <<detectContentType(file).mime \notin ALLOWED_PICTURE_MIME_TYPES, 415>>,
                     <<TRUE, 200>> >>)

(* If-None-Match is a list of tags; W/ is stripped from each. (A client    *)
(* that sends * asks for nothing.)                                         *)
matchesEtag(header, etag) == etag \in header

-----------------------------------------------------------------------------
(* References.  One is blank, holds a NUL, is badly encoded, absolute, or  *)
(* relative; its segments are the decoded ones.                            *)

(* A bucket is one plain segment. *)
assertValidBucket(bucket) ==
  bucket.form = "relative" /\ Len(bucket.segs) = 1 /\ Head(bucket.segs) # ".."

assertSafeReference(reference) == reference.form = "relative"

(* path.resolve: one segment further. *)
Walk(path, segment) ==
  CASE segment = ".." -> IF path = <<>> THEN <<>> ELSE Front(path)
    [] segment = "." -> path
    [] OTHER -> Append(path, segment)

StrictlyInside(root, path) == IsStrictPrefix(root, path)

(* path.resolve: one after the other. *)
resolve(root, segs) ==
  LET walk[k \in 0..Len(segs)] == IF k = 0 THEN root ELSE Walk(walk[k - 1], segs[k])
  IN  walk[Len(segs)]

(* The path, or None. *)
resolveStoragePath(root, reference) ==
  LET resolved == resolve(root, reference.segs)
  IN  IF assertSafeReference(reference) /\ reference.segs # <<>> /\ StrictlyInside(root, resolved)
      THEN resolved ELSE None

(* links: the symbolic links to directories, each with where it leads. *)
Below(root, path) == {SubSeq(path, 1, k) : k \in (Len(root) + 1)..Len(path)}

verifyStoragePathContainment(root, reference, links) ==
  LET path == resolveStoragePath(root, reference)
  IN  IF path # None /\ \A p \in Below(root, path) \cap DOMAIN links : StrictlyInside(root, links[p])
      THEN path ELSE None

(* The file the system reaches by a path: links are followed. *)
Follow(path, links) ==
  LET linked == {k \in 1..Len(path) : SubSeq(path, 1, k) \in DOMAIN links}
  IN  IF linked = {} THEN path
      ELSE LET k == CHOOSE k \in linked : \A i \in linked : i >= k
           IN  links[SubSeq(path, 1, k)] \o SubSeq(path, k + 1, Len(path))
=============================================================================
