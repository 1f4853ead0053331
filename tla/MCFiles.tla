------------------------------ MODULE MCFiles -------------------------------
(* The instance of Files that TLC checks. *)
EXTENDS Files

CONSTANTS j1, j2, User, Agent, a1

Bytes(id, size, marks) == [id |-> id, size |-> size, marks |-> marks, nul |-> FALSE, controls |-> 0]

(* Two pictures of one size and one of another, a drawing, nothing at all. *)
MCBodies ==
  {<<Bytes("p", 1, {"png"})>>, <<Bytes("q", 1, {"jpeg", "svg"})>>, <<Bytes("s", 2, {"svg", "opens svg"})>>,
   <<>>, <<Bytes("p", 1, {"png"}), Bytes("p", 1, {"png"})>>, <<Bytes("l", 3, {"png"})>>}
MCStreamed == {Bytes("t", 2, {}), Bytes("z", 1, {"zip"}), Bytes("l", 3, {"png"})}
MCBuckets == {[form |-> "relative", segs |-> <<"artifacts">>], [form |-> "relative", segs |-> <<"a", "b">>]}

MCRoot == <<"data", "storage">>
MCLinks == <<"data", "storage", "linked">> :> <<"data", "storage", "artifacts">>
        @@ <<"data", "storage", "away">> :> <<"home">>
MCElsewhere == <<"home", "diary">> :> Bytes("d", 1, {}) @@ <<"data", "db">> :> Bytes("d", 1, {"sqlite"})

(* A file outside, another by a link, a stored file by a link, and one by  *)
(* way of the root's own name.                                             *)
MCReferences ==
  {[form |-> "relative", segs |-> <<"..", "db">>], [form |-> "relative", segs |-> <<"away", "diary">>],
   [form |-> "relative", segs |-> <<"linked", "f1">>],
   [form |-> "relative", segs |-> <<"..", "storage", ".", "artifacts", "f1">>]}

MCFileNames == <<"f1", "f2">>

(* No file of one owner's picture is ever another's, and artifacts have a   *)
(* bucket of their own: a behaviour is about one owner, about streams of    *)
(* every kind, or about artifacts and one stream that is accepted.  Files   *)
(* are lost where one is served, and a kill leaves a stream half written.   *)
VARIABLE scene

Accepts(j) == "bytes" \in DOMAIN job'[j] => job'[j].bytes.id = "t"

In(one) == scene = one /\ UNCHANGED scene

MCInit == Init /\ scene \in Owners \cup {"streams", "artifacts"}
MCNext ==
  \/ \E o \in Owners : In(o) /\ NextPictures(o)
  \/ \E path \in DOMAIN disk : In(User) /\ LoseFile(path)
  \/ In("streams") /\ NextStreams
  \/ In("streams") /\ Crash
  \/ In("artifacts") /\ NextArtifacts
  \/ In("artifacts") /\ NextStreams /\ \A j \in Jobs : Accepts(j)
  \/ NextStore /\ UNCHANGED scene
MCSpec == MCInit /\ [][MCNext]_<<vars, scene>>

(* The slots are alike: no definition tells them apart. *)
Slots == Permutations(Jobs)
=============================================================================
