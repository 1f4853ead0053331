---------------------------- MODULE FilesProofs -----------------------------
(***************************************************************************)
(* What holds of the file store for every number of requests, owners,      *)
(* artifacts and names, and for every reference a client can give: none    *)
(* leads out of the store, readers get whole pictures or the truth, and no *)
(* file goes that nobody gave up.                                          *)
(***************************************************************************)
EXTENDS Files, SequenceTheorems, FiniteSetTheorems, WellFoundedInduction, TLAPS

-----------------------------------------------------------------------------
(* Induction: a set of numbers in place of a predicate. *)

(* Some number is the least of a set. *)
LEMMA Least ==
  ASSUME NEW T, T \subseteq Nat, T # {}
  PROVE  \E x \in T : \A y \in T : x <= y
<1> DEFINE R == {p \in Nat \X Nat : p[1] < p[2]}
<1>1. IsWellFoundedOn(R, Nat)
  <2>1. R = OpToRel(<, Nat) BY DEF OpToRel
  <2> QED BY <2>1, NatLessThanWellFounded
<1>2. PICK x \in T : \A y \in T : ~ (<<y, x>> \in R) BY <1>1, WFMin
<1>3. ASSUME NEW y \in T, ~(x <= y) PROVE FALSE
  <2>1. <<y, x>> \in R BY <1>3
  <2> QED BY <1>2, <2>1
<1> QED BY <1>3

(* What has 0, and of every number the next, has them all. *)
LEMMA Upward ==
  ASSUME NEW P, NEW n \in Nat, 0 \in P, \A k \in 0..n : k \in P /\ k < n => k + 1 \in P
  PROVE  \A k \in 0..n : k \in P
<1> DEFINE T == {k \in 0..n : k \notin P}
<1>1. SUFFICES ASSUME T # {} PROVE FALSE OBVIOUS
<1>2. T \subseteq Nat OBVIOUS
<1>3. PICK k \in T : \A j \in T : k <= j
  <2> HIDE DEF T
  <2> QED BY <1>1, <1>2, Least
<1>4. k # 0 /\ k \in 0..n BY <1>3
<1>5. k - 1 \in 0..n /\ k - 1 < n /\ k - 1 \notin T
  <2>1. ~(k <= k - 1) BY <1>4
  <2> HIDE DEF T
  <2> QED BY <1>3, <1>4, <2>1
<1>6. k - 1 \in P BY <1>5
<1> QED BY <1>3, <1>4, <1>5, <1>6

-----------------------------------------------------------------------------
(* Paths: path.resolve takes one segment after the other. *)

LEMMA WalkType ==
  ASSUME NEW S, NEW path \in Seq(S), NEW segment \in S
  PROVE  Walk(path, segment) \in Seq(S)
BY DEF Walk, Front

Walked(f, root, segs, n) ==
  f = [k \in 0..n |-> IF k = 0 THEN root ELSE Walk(f[k - 1], segs[k])]

(* There is such a function: longer ones from shorter ones. *)
LEMMA WalkedExists ==
  ASSUME NEW root, NEW segs, NEW n \in Nat
  PROVE  \E f : Walked(f, root, segs, n)
<1> DEFINE P == {k \in 0..n : \E f : Walked(f, root, segs, k)}
<1>1. 0 \in P
  <2>1. Walked([k \in 0..0 |-> root], root, segs, 0) BY DEF Walked
  <2> QED BY <2>1
<1>2. ASSUME NEW k \in 0..n, k \in P, k < n PROVE k + 1 \in P
  <2>1. PICK f : Walked(f, root, segs, k) BY <1>2
  <2> DEFINE g == [i \in 0..(k + 1) |-> IF i = k + 1 THEN Walk(f[k], segs[k + 1]) ELSE f[i]]
  <2>2. ASSUME NEW i \in 0..(k + 1) PROVE g[i] = IF i = 0 THEN root ELSE Walk(g[i - 1], segs[i])
    <3>1. CASE i = k + 1 BY <3>1
    <3>2. CASE i # k + 1
      <4>1. i \in 0..k /\ (i # 0 => i - 1 \in 0..k) BY <3>2
      <4>2. f[i] = IF i = 0 THEN root ELSE Walk(f[i - 1], segs[i]) BY <2>1, <4>1 DEF Walked
      <4> QED BY <3>2, <4>1, <4>2
    <3> QED BY <3>1, <3>2
  <2>3. Walked(g, root, segs, k + 1)
    <3> HIDE DEF g
    <3>1. g = [i \in 0..(k + 1) |-> g[i]] BY DEF g
    <3> QED BY <2>2, <3>1 DEF Walked
  <2>4. k + 1 \in 0..n BY <1>2
  <2> HIDE DEF g
  <2> QED BY <2>3, <2>4
<1> HIDE DEF P
<1>3. n \in P BY <1>1, <1>2, Upward
<1> QED BY <1>3 DEF P

LEMMA Resolved ==
  ASSUME NEW root, NEW segs, Len(segs) \in Nat
  PROVE  \E f : Walked(f, root, segs, Len(segs)) /\ resolve(root, segs) = f[Len(segs)]
<1> DEFINE F == CHOOSE f : Walked(f, root, segs, Len(segs))
<1>1. Walked(F, root, segs, Len(segs)) BY WalkedExists
<1>2. resolve(root, segs) = F[Len(segs)]
  <2> DEFINE G == CHOOSE walk : walk = [k \in 0..Len(segs) |-> IF k = 0 THEN root ELSE Walk(walk[k - 1], segs[k])]
  <2>1. resolve(root, segs) = G[Len(segs)] BY Zenon DEF resolve
  <2>2. G = F BY Zenon DEF Walked
  <2> QED BY <2>1, <2>2
<1> QED BY <1>1, <1>2

(* Whatever the segments are, it comes to a path. *)
LEMMA ResolveType ==
  ASSUME NEW S, NEW root \in Seq(S), NEW segs \in Seq(S)
  PROVE  resolve(root, segs) \in Seq(S)
<1>1. PICK f : Walked(f, root, segs, Len(segs)) /\ resolve(root, segs) = f[Len(segs)] BY Resolved
<1> DEFINE P == {k \in 0..Len(segs) : f[k] \in Seq(S)}
<1>2. 0 \in P BY <1>1 DEF Walked
<1>3. ASSUME NEW k \in 0..Len(segs), k \in P, k < Len(segs) PROVE k + 1 \in P
  <2>1. f[k + 1] = Walk(f[k], segs[k + 1]) /\ segs[k + 1] \in S BY <1>1, <1>3 DEF Walked
  <2> QED BY <1>3, <2>1, WalkType
<1>4. Len(segs) \in P
  <2> DEFINE n == Len(segs)
  <2>1. n \in Nat /\ \A k \in 0..n : k \in P /\ k < n => k + 1 \in P
    <3> HIDE DEF P
    <3> QED BY <1>3
  <2> HIDE DEF P, n
  <2>2. \A k \in 0..n : k \in P BY <1>2, <2>1, Upward
  <2> QED BY <2>1, <2>2 DEF n
<1> QED BY <1>1, <1>4

(* Two plain segments are appended. *)
LEMMA ResolveTwo ==
  ASSUME NEW root \in Seq(STRING), NEW a \in STRING \ {".", ".."}, NEW b \in STRING \ {".", ".."}
  PROVE  resolve(root, <<a, b>>) = root \o <<a, b>>
<1>1. PICK f : Walked(f, root, <<a, b>>, 2) /\ resolve(root, <<a, b>>) = f[2]
  <2>1. Len(<<a, b>>) = 2 OBVIOUS
  <2> QED BY <2>1, Resolved
<1>2. f[0] = root /\ f[1] = Walk(f[0], a) /\ f[2] = Walk(f[1], b) BY <1>1 DEF Walked
<1>3. f[1] = Append(root, a) BY <1>2 DEF Walk
<1>4. f[2] = Append(Append(root, a), b) BY <1>2, <1>3 DEF Walk
<1>5. Append(Append(root, a), b) = root \o <<a, b>> OBVIOUS
<1> QED BY <1>1, <1>4, <1>5

(* What begins with the root goes on beyond it. *)
LEMMA InsideLength ==
  ASSUME NEW root \in Seq(STRING), NEW path \in Seq(STRING)
  PROVE  StrictlyInside(root, path) <=>
           Len(root) < Len(path) /\ \A k \in 1..Len(root) : path[k] = root[k]
<1>1. SubSeq(root, 1, Len(root)) = root OBVIOUS
<1>2. ASSUME StrictlyInside(root, path)
      PROVE  Len(root) < Len(path) /\ \A k \in 1..Len(root) : path[k] = root[k]
  <2>1. Len(root) <= Len(path) /\ SubSeq(path, 1, Len(root)) = root /\ root # path
    BY <1>1, <1>2 DEF StrictlyInside, IsStrictPrefix, IsPrefix
  <2>2. \A k \in 1..Len(root) : path[k] = root[k]
    <3>1. \A k \in 1..Len(root) : SubSeq(path, 1, Len(root))[k] = path[k] BY <2>1
    <3> QED BY <2>1, <3>1
  <2>3. Len(root) # Len(path)
    <3>1. SUFFICES ASSUME Len(root) = Len(path) PROVE FALSE OBVIOUS
    <3>2. SubSeq(path, 1, Len(path)) = path OBVIOUS
    <3> QED BY <2>1, <3>1, <3>2
  <2> QED BY <2>1, <2>2, <2>3
<1>3. ASSUME Len(root) < Len(path), \A k \in 1..Len(root) : path[k] = root[k]
      PROVE  StrictlyInside(root, path)
  <2>1. SubSeq(path, 1, Len(root)) = root
    <3>1. /\ SubSeq(path, 1, Len(root)) \in Seq(STRING) /\ Len(SubSeq(path, 1, Len(root))) = Len(root)
          /\ \A k \in 1..Len(root) : SubSeq(path, 1, Len(root))[k] = path[k]
      BY <1>3
    <3> QED BY <1>3, <3>1, SeqEqual
  <2> QED BY <1>1, <1>3, <2>1 DEF StrictlyInside, IsStrictPrefix, IsPrefix
<1> QED BY <1>2, <1>3

(* What a link leads to is looked at before the path is given out. *)
LEMMA FollowInside ==
  ASSUME NEW path \in Seq(STRING), StrictlyInside(Root, path),
         \A p \in Below(Root, path) \cap DOMAIN Links : StrictlyInside(Root, Links[p])
  PROVE  Follow(path, Links) \in Seq(STRING) /\ StrictlyInside(Root, Follow(path, Links))
<1> DEFINE linked == {k \in 1..Len(path) : SubSeq(path, 1, k) \in DOMAIN Links}
<1>1. CASE linked = {}
  <2>1. Follow(path, Links) = path BY <1>1 DEF Follow
  <2> QED BY <2>1
<1>2. CASE linked # {}
  <2>1. linked \subseteq Nat OBVIOUS
  <2>2. \E k \in linked : \A i \in linked : i >= k
    <3>1. \E k \in linked : \A i \in linked : k <= i
      <4> HIDE DEF linked
      <4> QED BY <1>2, <2>1, Least
    <3> QED BY <2>1, <3>1
  <2> DEFINE k == CHOOSE i \in linked : \A j \in linked : j >= i
             target == Links[SubSeq(path, 1, k)]
             rest == SubSeq(path, k + 1, Len(path))
  <2>3. k \in linked
    <3> HIDE DEF linked
    <3> QED BY <2>2, Zenon
  <2>4. Follow(path, Links) = target \o rest BY <1>2 DEF Follow
  <2> HIDE DEF k
  <2>5. k \in 1..Len(path) /\ SubSeq(path, 1, k) \in DOMAIN Links BY <2>3
  <2>6. SubSeq(path, 1, k) \in Seq(STRING) /\ Len(SubSeq(path, 1, k)) = k BY <2>5
  <2>7. target \in Seq(STRING) /\ rest \in Seq(STRING) BY <2>5, FilesAssumption
  <2>0. Root \in Seq(STRING) BY FilesAssumption
  <2>8. Len(Root) < k
    <3>1. StrictlyInside(Root, SubSeq(path, 1, k)) BY <2>5, FilesAssumption
    <3>2. Len(Root) < Len(SubSeq(path, 1, k)) BY <2>0, <2>6, <3>1, InsideLength
    <3> QED BY <2>6, <3>2
  <2>9. SubSeq(path, 1, k) \in Below(Root, path) BY <2>5, <2>8, FilesAssumption DEF Below
  <2>10. StrictlyInside(Root, target) BY <2>5, <2>9
  <2> HIDE DEF target, rest
  <2>11. Len(Root) < Len(target) /\ \A i \in 1..Len(Root) : target[i] = Root[i]
    BY <2>7, <2>10, InsideLength, FilesAssumption
  <2>12. /\ target \o rest \in Seq(STRING) /\ Len(Root) < Len(target \o rest)
         /\ \A i \in 1..Len(Root) : (target \o rest)[i] = Root[i]
    BY <2>7, <2>11, FilesAssumption
  <2>13. StrictlyInside(Root, target \o rest) BY <2>0, <2>12, InsideLength
  <2> QED BY <2>4, <2>12, <2>13
<1> QED BY <1>1, <1>2

(* Whatever reference a client gives and wherever links lead: the file it  *)
(* comes to is below the root of the store (resolveAndVerify,              *)
(* resolveStoragePath, verifyStoragePathContainment).                      *)
THEOREM ReferencesStayInside ==
  ASSUME NEW reference \in AnyReference, resolveAndVerify(reference) # None
  PROVE  resolveAndVerify(reference) \in Seq(STRING) /\ StrictlyInside(Root, resolveAndVerify(reference))
<1> DEFINE path == resolve(Root, reference.segs)
<1>1. path \in Seq(STRING) BY ResolveType, FilesAssumption DEF AnyReference
<1> HIDE DEF path
<1>2. resolveStoragePath(Root, reference) = path /\ StrictlyInside(Root, path)
      /\ verifyStoragePathContainment(Root, reference, Links) = path
  BY DEF resolveAndVerify, verifyStoragePathContainment, resolveStoragePath, path
<1>3. \A p \in Below(Root, path) \cap DOMAIN Links : StrictlyInside(Root, Links[p])
  BY <1>2 DEF resolveAndVerify, verifyStoragePathContainment
<1>4. resolveAndVerify(reference) = Follow(path, Links)
  BY <1>2 DEF resolveAndVerify
<1> QED BY <1>1, <1>2, <1>3, <1>4, FollowInside

-----------------------------------------------------------------------------
(* Names.  A file is stored under a name that was drawn for it, in one of   *)
(* the directories of the store.                                            *)

NameRefs(n) == {Reference(bucket, FileNames[k]) : bucket \in BucketNames, k \in 1..n}
PictureRefs(n) == {Reference("pictures", FileNames[k]) : k \in 1..n}

PlaceOf(bucket, k) == Root \o <<bucket, FileNames[k]>>

LEMMA PlaceType ==
  ASSUME NEW bucket \in BucketNames, NEW k \in DOMAIN FileNames
  PROVE  /\ bucket \in STRING \ {".", ".."} /\ FileNames[k] \in STRING \ {".", ".."}
         /\ Root \in Seq(STRING) /\ PlaceOf(bucket, k) \in Seq(STRING)
         /\ Len(PlaceOf(bucket, k)) = Len(Root) + 2
         /\ \A i \in 1..Len(Root) : PlaceOf(bucket, k)[i] = Root[i]
         /\ PlaceOf(bucket, k)[Len(Root) + 1] = bucket /\ PlaceOf(bucket, k)[Len(Root) + 2] = FileNames[k]
         /\ StrictlyInside(Root, PlaceOf(bucket, k))
<1>1. /\ bucket \in STRING \ {".", ".."} /\ FileNames[k] \in STRING \ {".", ".."}
      /\ Root \in Seq(STRING)
  BY FilesAssumption
<1>2. /\ PlaceOf(bucket, k) \in Seq(STRING)
      /\ Len(PlaceOf(bucket, k)) = Len(Root) + 2
      /\ \A i \in 1..Len(Root) : PlaceOf(bucket, k)[i] = Root[i]
      /\ PlaceOf(bucket, k)[Len(Root) + 1] = bucket /\ PlaceOf(bucket, k)[Len(Root) + 2] = FileNames[k]
  BY <1>1 DEF PlaceOf
<1>3. StrictlyInside(Root, PlaceOf(bucket, k)) BY <1>1, <1>2, InsideLength
<1> QED BY <1>1, <1>2, <1>3

(* A name leads to its place: no link is on the way. *)
LEMMA Places ==
  ASSUME NEW bucket \in BucketNames, NEW k \in DOMAIN FileNames
  PROVE  resolveAndVerify(Reference(bucket, FileNames[k])) = PlaceOf(bucket, k)
<1> DEFINE reference == Reference(bucket, FileNames[k])
           path == PlaceOf(bucket, k)
<1>1. resolve(Root, <<bucket, FileNames[k]>>) = path
  <2>1. bucket \in STRING \ {".", ".."} /\ FileNames[k] \in STRING \ {".", ".."} /\ Root \in Seq(STRING)
    BY PlaceType
  <2>2. resolve(Root, <<bucket, FileNames[k]>>) = Root \o <<bucket, FileNames[k]>> BY <2>1, ResolveTwo
  <2> QED BY <2>2 DEF PlaceOf
<1>2. path \in Seq(STRING) /\ Len(path) = Len(Root) + 2 /\ StrictlyInside(Root, path) /\ Root \in Seq(STRING)
  BY PlaceType
<1>3. ASSUME NEW i \in 1..Len(path) PROVE SubSeq(path, 1, i) \notin DOMAIN Links
  <2>1. CASE i <= Len(Root)
    <3>1. SubSeq(path, 1, i) \in Seq(STRING) /\ Len(SubSeq(path, 1, i)) = i BY <1>2
    <3>2. ~StrictlyInside(Root, SubSeq(path, 1, i))
      <4> DEFINE p == SubSeq(path, 1, i)
      <4>1. p \in Seq(STRING) /\ ~(Len(Root) < Len(p)) BY <1>2, <2>1, <3>1
      <4> HIDE DEF p
      <4>2. ~StrictlyInside(Root, p) BY <1>2, <4>1, InsideLength
      <4> QED BY <4>2 DEF p
    <3> QED BY <3>2, FilesAssumption
  <2>2. CASE i = Len(Root) + 1
    <3>1. SubSeq(path, 1, i) = Append(Root, bucket)
      <4>1. SubSeq(path, 1, i) \in Seq(STRING) /\ Len(SubSeq(path, 1, i)) = i
            /\ \A m \in 1..i : SubSeq(path, 1, i)[m] = path[m]
        BY <1>2, <2>2
      <4>2. Append(Root, bucket) \in Seq(STRING) /\ Len(Append(Root, bucket)) = i
            /\ \A m \in 1..Len(Root) : Append(Root, bucket)[m] = Root[m]
            /\ Append(Root, bucket)[i] = bucket
        BY <1>2, <2>2, PlaceType
      <4>3. \A m \in 1..i : path[m] = Append(Root, bucket)[m]
        <5>1. ASSUME NEW m \in 1..i PROVE path[m] = Append(Root, bucket)[m]
          <6>1. CASE m = i
            <7>1. path[i] = bucket BY <2>2, PlaceType
            <7> HIDE DEF path
            <7> QED BY <4>2, <6>1, <7>1
          <6>2. CASE m # i
            <7>1. m \in 1..Len(Root) BY <1>2, <2>2, <6>2
            <7>2. path[m] = Root[m] BY <7>1, PlaceType
            <7> HIDE DEF path
            <7> QED BY <4>2, <7>1, <7>2
          <6> QED BY <6>1, <6>2
        <5> QED BY <5>1
      <4> HIDE DEF path
      <4> QED BY <4>1, <4>2, <4>3, SeqEqual
    <3> QED BY <3>1, FilesAssumption
  <2>3. CASE i = Len(Root) + 2
    <3>1. SubSeq(path, 1, i) = path
      <4> HIDE DEF path
      <4>1. SubSeq(path, 1, Len(path)) = path BY <1>2
      <4> QED BY <1>2, <2>3, <4>1
    <3> QED BY <3>1, FilesAssumption DEF PlaceOf
  <2> QED BY <1>2, <2>1, <2>2, <2>3
<1>4. reference.form = "relative" /\ reference.segs = <<bucket, FileNames[k]>> /\ reference.segs # <<>>
  BY DEF Reference
<1> HIDE DEF reference, path
<1>5. resolveStoragePath(Root, reference) = path
  BY <1>1, <1>2, <1>4 DEF resolveStoragePath, assertSafeReference
<1>6. Below(Root, path) \cap DOMAIN Links = {}
  <2>1. \A p \in Below(Root, path) : \E i \in 1..Len(path) : p = SubSeq(path, 1, i)
    BY <1>2 DEF Below
  <2> QED BY <1>3, <2>1
<1>7. Follow(path, Links) = path
  <2>1. {i \in 1..Len(path) : SubSeq(path, 1, i) \in DOMAIN Links} = {} BY <1>3
  <2> QED BY <2>1 DEF Follow
<1>8. verifyStoragePathContainment(Root, reference, Links) = path
  BY <1>5, <1>6 DEF verifyStoragePathContainment
<1>9. resolveAndVerify(reference) = path BY <1>7, <1>8 DEF resolveAndVerify
<1> QED BY <1>9 DEF reference, path

(* Names that were drawn stay, and pictures have such names. *)
LEMMA NamesGrow ==
  ASSUME NEW m \in Nat, NEW n \in Nat, m <= n
  PROVE  /\ NameRefs(m) \subseteq NameRefs(n) /\ PictureRefs(m) \subseteq PictureRefs(n)
         /\ PictureRefs(n) \subseteq NameRefs(n)
<1>1. 1..m \subseteq 1..n OBVIOUS
<1>2. "pictures" \in BucketNames BY DEF BucketNames
<1> QED BY <1>1, <1>2 DEF NameRefs, PictureRefs

(* Different names are different files, and none is outside the store. *)
LEMMA NamesApart ==
  ASSUME NEW n \in 0..Len(FileNames), NEW r \in NameRefs(n)
  PROVE  /\ r \in AnyReference /\ resolveAndVerify(r) \notin DOMAIN Elsewhere
         /\ \A s \in NameRefs(n) : resolveAndVerify(r) = resolveAndVerify(s) => r = s
         /\ \A s \in NameRefs(n) : r = s => r.segs[2] = s.segs[2]
<1>0. DOMAIN FileNames = 1..Len(FileNames) /\ Len(FileNames) \in Nat BY FilesAssumption
<1>1. PICK b \in BucketNames, j \in 1..n : r = Reference(b, FileNames[j]) BY DEF NameRefs
<1>2. j \in DOMAIN FileNames BY <1>0
<1>3. r = [form |-> "relative", segs |-> <<b, FileNames[j]>>] BY <1>1 DEF Reference
<1>4. b \in STRING /\ FileNames[j] \in STRING /\ resolveAndVerify(r) = PlaceOf(b, j)
  BY <1>1, <1>2, PlaceType, Places
<1>5. r \in AnyReference BY <1>3, <1>4 DEF AnyReference
<1>6. resolveAndVerify(r) \notin DOMAIN Elsewhere
  BY <1>2, <1>4, PlaceType, FilesAssumption
<1>7. ASSUME NEW s \in NameRefs(n), resolveAndVerify(r) = resolveAndVerify(s) PROVE r = s
  <2>1. PICK c \in BucketNames, k \in 1..n : s = Reference(c, FileNames[k]) BY DEF NameRefs
  <2>2. k \in DOMAIN FileNames BY <1>0
  <2>3. PlaceOf(b, j) = PlaceOf(c, k) BY <1>4, <1>7, <2>1, <2>2, Places
  <2>4. b = c /\ FileNames[j] = FileNames[k]
    <3>1. PlaceOf(b, j)[Len(Root) + 1] = b /\ PlaceOf(b, j)[Len(Root) + 2] = FileNames[j]
      BY <1>2, PlaceType
    <3>2. PlaceOf(c, k)[Len(Root) + 1] = c /\ PlaceOf(c, k)[Len(Root) + 2] = FileNames[k]
      BY <2>2, PlaceType
    <3> QED BY <2>3, <3>1, <3>2
  <2> QED BY <1>1, <2>1, <2>4
<1> QED BY <1>5, <1>6, <1>7

(* The next name is new. *)
LEMMA NextName ==
  ASSUME NEW n \in 0..Len(FileNames), n < Len(FileNames), NEW b \in BucketNames
  PROVE  /\ n + 1 \in 0..Len(FileNames)
         /\ Reference(b, FileNames[n + 1]) \in NameRefs(n + 1)
         /\ Reference("pictures", FileNames[n + 1]) \in PictureRefs(n + 1)
         /\ Reference(b, FileNames[n + 1]).segs[2] = FileNames[n + 1]
         /\ \A s \in NameRefs(n) : s.segs[2] # FileNames[n + 1]
<1>1. n + 1 \in 0..Len(FileNames) /\ n + 1 \in 1..(n + 1) /\ n + 1 \in DOMAIN FileNames
  <2>1. DOMAIN FileNames = 1..Len(FileNames) /\ Len(FileNames) \in Nat BY FilesAssumption
  <2> QED BY <2>1
<1>2. ASSUME NEW s \in NameRefs(n) PROVE s.segs[2] # FileNames[n + 1]
  <2>1. PICK c \in BucketNames, k \in 1..n : s = Reference(c, FileNames[k]) BY DEF NameRefs
  <2>2. k \in DOMAIN FileNames /\ k # n + 1 BY <1>1, FilesAssumption
  <2>3. s.segs[2] = FileNames[k] BY <2>1 DEF Reference
  <2> QED BY <1>1, <2>2, <2>3, FilesAssumption
<1> QED BY <1>1, <1>2 DEF NameRefs, PictureRefs, Reference

-----------------------------------------------------------------------------
(* The inductive invariant.  First what is said of one request at each of  *)
(* its waits; what it says stays true while others take steps.              *)

Uploads == {"writing", "recording"}
StreamStages == {"streaming", "renaming", "refused"}
Reads == {"stat", "header", "opening", "sending"}

Path(j) == resolveAndVerify(job[j].ref)
NameOf(j) == job[j].ref.segs[2]
Begun(j) == job[j].at \in Uploads \cup StreamStages      \* it drew a name
Unstored(j) == job[j].at \in {"writing", "streaming", "renaming"}

(* A whole upload, of a size and a type that are allowed. *)
Whole(bytes) ==
  /\ bytes \in Octets /\ bytes.size <= MaxBytes
  /\ \E one \in Streamed \cup UNION {Range(parts) : parts \in Bodies} : bytes = one
  /\ Permits(Accepted, detectContentType(bytes).mime)

Uploading(j) ==
  /\ DOMAIN job[j] = {"at", "owner", "bytes", "ref", "old"}
  /\ job[j].owner \in Owners /\ Whole(job[j].bytes)
  /\ job[j].ref \in PictureRefs(drawn) /\ job[j].old \in PictureRefs(drawn) \cup {None}
  /\ job[j].at = "recording" => Path(j) \in DOMAIN stored

Streaming(j) ==
  /\ DOMAIN job[j] = {"at", "bytes", "name", "total", "opened", "paused", "ref"}
  /\ job[j].bytes \in Streamed /\ job[j].ref \in NameRefs(drawn) /\ job[j].name = NameOf(j)
  /\ job[j].opened \in BOOLEAN /\ job[j].total \in Nat /\ job[j].total <= MaxBytes
  /\ job[j].at = "renaming" => job[j].opened /\ job[j].total = job[j].bytes.size /\ Whole(job[j].bytes)

Discarding(j) ==
  /\ job[j] = [at |-> "discarding", ref |-> job[j].ref]
  /\ job[j].ref \in AnyReference /\ Path(j) \in Gone

(* The picture of an owner with the time it was recorded at, and what a    *)
(* client has: a picture the owner had, with the tag of its time and size. *)
Noted(o, stamp, ref) ==
  \E one \in named : one.owner = o /\ one.stamp = stamp /\ one.path = resolveAndVerify(ref)
Has(o, tags, bytes) ==
  \A tag \in tags : \E one \in named :
    /\ one.owner = o /\ one.path \in DOMAIN stored
    /\ bytes = stored[one.path] /\ tag = <<one.stamp, stored[one.path].size>>

Sized(j) == job[j].size = stored[Path(j)].size
Typed(j) == job[j].type \in {OctetStream, detectContentType(stored[Path(j)]).mime}

(* A reader asks for a picture its owner had; the size is that picture's,   *)
(* and so is the type unless it is unknown.                                 *)
Reading(j) ==
  /\ DOMAIN job[j] = {"at", "owner", "ref", "stamp", "header", "had"}
                       \cup (IF job[j].at = "stat" THEN {} ELSE {"size"})
                       \cup (IF job[j].at \in {"stat", "header"} THEN {} ELSE {"type", "etag"})
  /\ job[j].owner \in Owners /\ Path(j) \in DOMAIN stored
  /\ Noted(job[j].owner, job[j].stamp, job[j].ref)
  /\ Has(job[j].owner, job[j].header, job[j].had)
  /\ job[j].at # "stat" => Sized(j)
  /\ job[j].at \in {"opening", "sending"} => Typed(j) /\ job[j].etag = <<job[j].stamp, job[j].size>>

Answered(j) ==
  /\ Path(j) \in DOMAIN stored
  /\ job[j].code = 200 => job[j].bytes = stored[Path(j)] /\ Sized(j) /\ Typed(j)
  /\ job[j].code = 304 => job[j].had = stored[Path(j)] \/ Twins(job[j].owner, Path(j), job[j].size)
  /\ job[j].code \notin {200, 304} => Path(j) \in Gone

Sound(j) ==
  /\ job[j].at \in {"idle", "answered", "discarding"} \cup Uploads \cup StreamStages \cup Reads
  /\ job[j].at = "idle" => job[j] = Idle
  /\ job[j].at \in Uploads => Uploading(j)
  /\ job[j].at \in StreamStages => Streaming(j)
  /\ job[j].at = "discarding" => Discarding(j)
  /\ job[j].at \in Reads => Reading(j)
  /\ job[j].at = "answered" => Answered(j)

Requests == job = [j \in Jobs |-> job[j]] /\ \A j \in Jobs : Sound(j)

RowTypes ==
  /\ drawn \in 0..Len(FileNames) /\ clock \in Nat
  /\ rows \in [Owners -> [picture : PictureRefs(drawn) \cup {None}, stamp : Nat]]
  /\ artifacts = [a \in Artifacts |-> artifacts[a]]
  /\ \A a \in Artifacts : {"file", "content"} \subseteq DOMAIN artifacts[a]
  /\ \A a \in Artifacts : artifacts[a].file \in AnyReference \cup {None}
  /\ held = [o \in Owners |-> [tags |-> held[o].tags, bytes |-> held[o].bytes]]

(* What was stored stays as it was until it was given up, and so does what *)
(* is outside.                                                             *)
Kept ==
  /\ \A path \in DOMAIN disk : path \in DOMAIN stored /\ disk[path] = stored[path]
  /\ \A path \in DOMAIN stored \ DOMAIN disk : path \in Gone
  /\ \A path \in DOMAIN Elsewhere : path \in DOMAIN disk /\ disk[path] = Elsewhere[path]
  /\ \A path \in DOMAIN stored \ DOMAIN Elsewhere :
       Whole(stored[path]) /\ \E ref \in NameRefs(drawn) : path = resolveAndVerify(ref)

(* A name that a request drew is nobody else's, and nothing is stored under*)
(* it before the request does.                                             *)
Private ==
  \A j \in Jobs : Begun(j) =>
    /\ \A i \in Jobs : i # j /\ Begun(i) => NameOf(i) # NameOf(j)
    /\ Unstored(j) => Path(j) \notin DOMAIN stored

(* Lost, or given up by an artifact that named the same file. *)
Lost(ref) == \E gone \in letGo : gone[1] \notin Owners /\ gone[2] = resolveAndVerify(ref)
There(ref) == exists(ref) \/ Lost(ref)

(* A picture is one owner's, and the one that an upload replaces was that  *)
(* owner's own.  What is being discarded, no row names and no upload is    *)
(* about to record, unless an artifact named it.                           *)
Pictured ==
  /\ \A o \in Owners : rows[o].picture # None => There(rows[o].picture)
  /\ \A o, p \in Owners : rows[o].picture = rows[p].picture => o = p \/ rows[o].picture = None
  /\ \A j \in Jobs : job[j].at \in Uploads =>
       /\ job[j].at = "recording" => There(job[j].ref)
       /\ \A o \in Owners : rows[o].picture # job[j].ref
       /\ \A o \in Owners : rows[o].picture = job[j].old => o = job[j].owner \/ job[j].old = None
       /\ \A i \in Jobs : job[i].at \in Uploads => job[i].old # job[j].ref
  /\ \A j \in Jobs : job[j].at = "discarding" =>
       \/ Lost(job[j].ref)
       \/ /\ job[j].ref \in PictureRefs(drawn)
          /\ \A o \in Owners : rows[o].picture # job[j].ref
          /\ \A i \in Jobs : job[i].at \in Uploads => job[i].ref # job[j].ref

(* Temporary files are those of the streams that opened theirs and those   *)
(* left behind, whose names are no running stream's.                       *)
Opened(j) == job[j].at \in StreamStages /\ job[j].opened
LeftBehind ==
  /\ \A name \in left : \E ref \in NameRefs(drawn) : name = ref.segs[2]
  /\ \A j \in Jobs : job[j].at \in StreamStages => job[j].name \notin left
Tidy ==
  /\ smooth => temps = {job[j].name : j \in {i \in Jobs : Opened(i)}} \cup left
  /\ LeftBehind

Stamped ==
  /\ \A one \in named : one.path \in DOMAIN stored
  /\ \A o \in Owners : rows[o].picture # None => Noted(o, rows[o].stamp, rows[o].picture)
  /\ \A o \in Owners : Has(o, held[o].tags, held[o].bytes)

(* Neither property is inductive: that a picture which is replaced is not  *)
(* the one somebody is about to be sent, or has just recorded, rests on    *)
(* names that are drawn once and on what each request knows at its wait.    *)
IInv == Requests /\ RowTypes /\ Kept /\ Private /\ Pictured /\ Tidy /\ Stamped

-----------------------------------------------------------------------------
(* What every step leaves. *)

(* Names are drawn, files given up and pictures noted, and nothing of that *)
(* is undone; what was stored is never stored again.                       *)
Grows ==
  /\ drawn \in Nat /\ drawn' \in Nat /\ drawn <= drawn' /\ drawn' \in 0..Len(FileNames)
  /\ letGo \subseteq letGo' /\ named \subseteq named'
  /\ \A path \in DOMAIN stored : path \in DOMAIN stored' /\ stored'[path] = stored[path]

LEMMA GoneGrows == Grows => Gone \subseteq Gone'
BY DEF Grows, Gone

LEMMA NamesKept ==
  ASSUME Grows
  PROVE  NameRefs(drawn) \subseteq NameRefs(drawn') /\ PictureRefs(drawn) \subseteq PictureRefs(drawn')
BY NamesGrow DEF Grows

LEMMA NotedKept ==
  ASSUME Grows, NEW o, NEW stamp, NEW ref, Noted(o, stamp, ref)
  PROVE  Noted(o, stamp, ref)'
BY DEF Grows, Noted

LEMMA HasKept ==
  ASSUME Grows, NEW o, NEW tags, NEW bytes, Has(o, tags, bytes)
  PROVE  Has(o, tags, bytes)'
BY DEF Grows, Has

(* A request that takes no step is as it was. *)
LEMMA SoundStays ==
  ASSUME Grows, Stamped, NEW j \in Jobs, job'[j] = job[j], Sound(j)
  PROVE  Sound(j)'
<1> USE DEF Sound
<1>1. Path(j)' = Path(j) /\ NameOf(j)' = NameOf(j) BY DEF Path, NameOf
<1>2. CASE job[j].at \in Uploads
  <2>1. Uploading(j) BY <1>2
  <2>2. Uploading(j)' BY <1>1, <2>1, NamesKept DEF Uploading, Grows
  <2> QED BY <1>2, <2>2 DEF Uploads, StreamStages, Reads
<1>3. CASE job[j].at \in StreamStages
  <2>1. Streaming(j) BY <1>3
  <2>2. Streaming(j)' BY <1>1, <2>1, NamesKept DEF Streaming
  <2> QED BY <1>3, <2>2 DEF Uploads, StreamStages, Reads
<1>4. CASE job[j].at = "discarding"
  <2>1. Discarding(j) BY <1>4
  <2>2. Discarding(j)' BY <1>1, <2>1, GoneGrows DEF Discarding
  <2> QED BY <1>4, <2>2 DEF Uploads, StreamStages, Reads
<1>5. CASE job[j].at \in Reads
  <2>1. Reading(j) BY <1>5
  <2>2. Noted(job[j].owner, job[j].stamp, job[j].ref)' BY <2>1 DEF Reading, Noted, Grows
  <2>3. Has(job[j].owner, job[j].header, job[j].had)' BY <2>1 DEF Reading, Has, Grows
  <2>4. Reading(j)' BY <1>1, <2>1, <2>2, <2>3 DEF Reading, Grows, Sized, Typed
  <2> QED BY <1>5, <2>4 DEF Uploads, StreamStages, Reads
<1>6. CASE job[j].at = "answered"
  <2>1. Answered(j) BY <1>6
  <2>2. ASSUME Twins(job[j].owner, Path(j), job[j].size) PROVE Twins(job[j].owner, Path(j), job[j].size)'
    BY <1>1, <2>2 DEF Twins, Grows, Stamped
  <2>3. Answered(j)' BY <1>1, <2>1, <2>2, GoneGrows DEF Answered, Grows, Sized, Typed
  <2> QED BY <1>6, <2>3 DEF Uploads, StreamStages, Reads
<1>7. CASE job[j].at = "idle" BY <1>7 DEF Idle, Uploads, StreamStages, Reads
<1> QED BY <1>2, <1>3, <1>4, <1>5, <1>6, <1>7

(* One request takes a step, the others none. *)
Moves(j) ==
  /\ job' = [i \in Jobs |-> job'[i]]
  /\ \A i \in Jobs : i # j => job'[i] = job[i]

LEMMA GoesMoves ==
  ASSUME Requests, NEW j \in Jobs, NEW to, Goes(j, to)
  PROVE  Moves(j) /\ job'[j] = to
BY DEF Requests, Goes, Moves

LEMMA RequestsNext ==
  ASSUME IInv, Grows, NEW j \in Jobs, Moves(j), Sound(j)'
  PROVE  Requests'
<1>1. ASSUME NEW i \in Jobs, i # j PROVE Sound(i)'
  BY <1>1, SoundStays DEF IInv, Requests, Moves
<1> QED BY <1>1 DEF Requests, Moves

LEMMA RowTypesStay ==
  ASSUME RowTypes, Grows, UNCHANGED <<rows, artifacts, held, clock>>
  PROVE  RowTypes'
BY NamesKept DEF RowTypes, Grows

LEMMA KeptStays ==
  ASSUME Kept, Grows, UNCHANGED <<disk, stored>>
  PROVE  Kept'
BY NamesKept, GoneGrows DEF Kept

(* No request begins, and none forgets what it stored. *)
Calm(i) == Begun(i)' => Begun(i) /\ job'[i].ref = job[i].ref /\ (Unstored(i)' => Unstored(i))

LEMMA PrivateStays ==
  ASSUME Private, UNCHANGED stored, \A i \in Jobs : Calm(i)
  PROVE  Private'
<1>1. \A i \in Jobs : Begun(i)' => NameOf(i)' = NameOf(i) /\ Path(i)' = Path(i)
  BY DEF Calm, NameOf, Path
<1> QED BY <1>1 DEF Private, Calm

LEMMA LostGrows == ASSUME Grows, NEW ref, Lost(ref) PROVE Lost(ref)'
BY DEF Grows, Lost

LEMMA PicturedStays ==
  ASSUME Pictured, Grows, UNCHANGED <<rows, disk>>,
         \A i \in Jobs : job'[i].at \in Uploads => job'[i] = job[i],
         \A i \in Jobs : job'[i].at = "discarding" => job'[i] = job[i] \/ Lost(job[i].ref)'
  PROVE  Pictured'
<1> USE DEF There, exists, Lost, Grows
<1>1. \A o \in Owners : rows'[o].picture # None => There(rows[o].picture)' BY DEF Pictured
<1>2. \A o, p \in Owners : rows'[o].picture = rows'[p].picture => o = p \/ rows'[o].picture = None BY DEF Pictured
<1>3. ASSUME NEW j \in Jobs, job'[j].at \in Uploads
      PROVE  /\ job'[j].at = "recording" => There(job[j].ref)'
             /\ \A o \in Owners : rows'[o].picture # job'[j].ref
             /\ \A o \in Owners : rows'[o].picture = job'[j].old => o = job'[j].owner \/ job'[j].old = None
             /\ \A i \in Jobs : job'[i].at \in Uploads => job'[i].old # job'[j].ref
  BY <1>3 DEF Pictured
<1>4. ASSUME NEW j \in Jobs, job'[j].at = "discarding", ~Lost(job[j].ref)'
      PROVE  /\ job'[j].ref \in PictureRefs(drawn')
             /\ \A o \in Owners : rows'[o].picture # job'[j].ref
             /\ \A i \in Jobs : job'[i].at \in Uploads => job'[i].ref # job'[j].ref
  <2>1. job'[j] = job[j] /\ ~Lost(job[j].ref) BY <1>4
  <2> QED BY <1>4, <2>1, NamesKept DEF Pictured
<1> QED BY <1>1, <1>2, <1>3, <1>4 DEF Pictured

LEMMA LeftStays ==
  ASSUME LeftBehind, Grows, UNCHANGED left,
         \A i \in Jobs : job'[i].at \in StreamStages => job'[i].name \notin left
  PROVE  LeftBehind'
BY NamesKept DEF LeftBehind

LEMMA TidyStays ==
  ASSUME Tidy, Grows, smooth' => smooth, UNCHANGED <<temps, left>>,
         \A i \in Jobs : Opened(i)' <=> Opened(i),
         \A i \in Jobs : Opened(i) => job'[i].name = job[i].name,
         \A i \in Jobs : job'[i].at \in StreamStages => job'[i].name \notin left
  PROVE  Tidy'
<1>1. LeftBehind' BY LeftStays DEF Tidy
<1> QED BY <1>1 DEF Tidy

LEMMA TidyWaits == ASSUME Tidy, Grows, UNCHANGED <<temps, smooth, left, job>> PROVE Tidy'
<1>1. \A i \in Jobs : (Opened(i)' <=> Opened(i)) /\ job'[i].name = job[i].name BY DEF Opened
<1>2. \A i \in Jobs : job'[i].at \in StreamStages => job'[i].name \notin left BY DEF Tidy, LeftBehind
<1> QED BY <1>1, <1>2, TidyStays

LEMMA StampedStays ==
  ASSUME Stamped, Grows, UNCHANGED <<named, rows, held>>
  PROVE  Stamped'
BY DEF Stamped, Grows, Noted, Has

(* A request that has no name of its own goes on, is answered or ends. *)
LEMMA Answering ==
  ASSUME IInv, Grows, NEW j \in Jobs, Moves(j), Sound(j)', ~Begun(j), ~Begun(j)',
         RowTypes', UNCHANGED <<disk, stored, rows, temps, smooth, left>>, Stamped',
         job'[j].at = "discarding" => Lost(job[j].ref)'
  PROVE  IInv'
<1>1. Requests' BY RequestsNext
<1>2. Kept' BY KeptStays DEF IInv
<1>3. \A i \in Jobs : Calm(i) BY DEF Moves, Calm, Begun, Unstored, Uploads, StreamStages
<1>4. Private' BY <1>3, PrivateStays DEF IInv
<1>5. Pictured' BY PicturedStays DEF IInv, Moves, Begun
<1>6. ASSUME NEW i \in Jobs
      PROVE  (Opened(i)' <=> Opened(i)) /\ (Opened(i) => job'[i].name = job[i].name)
  BY DEF Opened, Moves, Begun
<1>7. Tidy'
  <2>1. ASSUME NEW i \in Jobs, job'[i].at \in StreamStages PROVE job'[i].name \notin left
    BY <2>1 DEF IInv, Tidy, LeftBehind, Moves, Begun
  <2> QED BY <1>6, <2>1, TidyStays DEF IInv
<1> QED BY <1>1, <1>2, <1>4, <1>5, <1>7 DEF IInv

(* A stream goes on under its name, with its temporary file. *)
LEMMA StreamGoesOn ==
  ASSUME IInv, NEW j \in Jobs, Moves(j),
         job[j].at \in StreamStages, job'[j].at \in StreamStages, Streaming(j)',
         job'[j].ref = job[j].ref, job'[j].name = job[j].name, job'[j].opened = job[j].opened,
         Unstored(j)' => Unstored(j),
         UNCHANGED <<disk, temps, rows, artifacts, drawn, clock, held, history>>
  PROVE  IInv'
<1> USE DEF history
<1>1. Grows BY DEF Grows, IInv, RowTypes
<1>2. Sound(j)' BY DEF Sound, StreamStages, Uploads, Reads
<1>3. Requests' BY <1>1, <1>2, RequestsNext
<1>4. RowTypes' BY <1>1, RowTypesStay DEF IInv
<1>5. Kept' BY <1>1, KeptStays DEF IInv
<1>6. \A i \in Jobs : Calm(i) BY DEF Moves, Calm, Begun, Unstored, Uploads, StreamStages
<1>7. Private' BY <1>6, PrivateStays DEF IInv
<1>8. Pictured' BY <1>1, PicturedStays DEF IInv, Moves, StreamStages, Uploads
<1>9. ASSUME NEW i \in Jobs
      PROVE  (Opened(i)' <=> Opened(i)) /\ (Opened(i) => job'[i].name = job[i].name)
  BY DEF Opened, Moves
<1>10. Tidy'
  <2>1. ASSUME NEW i \in Jobs, job'[i].at \in StreamStages PROVE job'[i].name \notin left
    BY <2>1 DEF IInv, Tidy, LeftBehind, Moves
  <2> QED BY <1>1, <1>9, <2>1, TidyStays DEF IInv
<1>11. Stamped' BY <1>1, StampedStays DEF IInv
<1> QED BY <1>3, <1>4, <1>5, <1>7, <1>8, <1>10, <1>11 DEF IInv

LEMMA InitIInv == Init => IInv
<1> SUFFICES ASSUME Init PROVE IInv OBVIOUS
<1> USE DEF Init
<1>1. Requests BY DEF Requests, Sound, Idle, Uploads, StreamStages, Reads
<1>2. RowTypes BY FilesAssumption DEF RowTypes, Absent
<1>3. Kept BY DEF Kept
<1>4. Private BY DEF Private, Begun, Idle, Uploads, StreamStages
<1>5. Pictured BY DEF Pictured, Idle, Uploads
<1>6. Tidy BY DEF Tidy, LeftBehind, Opened, Idle, StreamStages
<1>7. Stamped BY DEF Stamped, Has
<1> QED BY <1>1, <1>2, <1>3, <1>4, <1>5, <1>6, <1>7 DEF IInv

-----------------------------------------------------------------------------
(* Serving a picture. *)

LEMMA Overlaid ==
  ASSUME NEW f, NEW g
  PROVE  /\ DOMAIN Overlay(f, g) = DOMAIN f \cup DOMAIN g
         /\ \A x \in DOMAIN f : Overlay(f, g)[x] = f[x]
         /\ \A x \in DOMAIN g : x \notin DOMAIN f => Overlay(f, g)[x] = g[x]
BY DEF Overlay

LEMMA Onward ==
  ASSUME NEW j, "at" \in DOMAIN job[j], NEW place, NEW more
  PROVE  /\ DOMAIN Advanced(j, place, more) = DOMAIN job[j] \cup DOMAIN more
         /\ Advanced(j, place, more).at = place
<1>1. DOMAIN Advanced(j, place, more) = DOMAIN job[j] \cup DOMAIN more BY DEF Advanced, Overlay
<1>2. Advanced(j, place, more).at = place BY DEF Advanced, Overlay
<1> QED BY <1>1, <1>2

LEMMA OnwardOld ==
  ASSUME NEW j, "at" \in DOMAIN job[j], NEW place, NEW more
  PROVE  \A x \in DOMAIN job[j] : x # "at" => Advanced(j, place, more)[x] = job[j][x]
BY DEF Advanced, Overlay

LEMMA OnwardNew ==
  ASSUME NEW j, "at" \in DOMAIN job[j], NEW place, NEW more
  PROVE  \A x \in DOMAIN more : x \notin DOMAIN job[j] => Advanced(j, place, more)[x] = more[x]
BY DEF Advanced, Overlay

(* A reader's step concerns nobody else. *)
LEMMA ReaderStep ==
  ASSUME IInv, NEW j \in Jobs, Moves(j), ~Begun(j), job'[j].at \in Reads \cup {"idle", "answered"},
         Sound(j)', RowTypes', Stamped', UNCHANGED <<disk, temps, rows, artifacts, drawn, clock, history>>
  PROVE  IInv'
<1>1. Grows BY DEF Grows, IInv, RowTypes, history
<1>2. ~Begun(j)' /\ job'[j].at # "discarding" BY DEF Begun, Uploads, StreamStages, Reads
<1> QED BY <1>1, <1>2, Answering DEF history

LEMMA FreeOrReading ==
  ASSUME NEW j, Free(j) \/ job[j].at \in Reads \cup {"discarding"}
  PROVE  ~Begun(j)
BY DEF Free, Begun, Uploads, StreamStages, Reads

LEMMA NothingNoted ==
  ASSUME IInv, UNCHANGED <<disk, rows, artifacts, drawn, clock, held, history>>
  PROVE  RowTypes' /\ Stamped'
<1>1. Grows BY DEF Grows, IInv, RowTypes, history
<1> QED BY <1>1, RowTypesStay, StampedStays DEF IInv, history

LEMMA IdleSound ==
  ASSUME NEW j, job'[j] = Idle
  PROVE  Sound(j)'
BY DEF Sound, Idle, Uploads, StreamStages, Reads

LEMMA OpensIInv == ASSUME IInv, NEW j \in Jobs, NEW o \in Owners, Opens(j, o) PROVE IInv'
<1> USE DEF Opens
<1>1. RowTypes' /\ Stamped' /\ ~Begun(j) BY NothingNoted, FreeOrReading
<1>2. CASE rows[o].picture = None
  <2>1. Goes(j, Idle) BY <1>2 DEF Ends
  <2>2. Moves(j) /\ job'[j] = Idle BY <2>1, GoesMoves DEF IInv
  <2> QED BY <1>1, <2>2, IdleSound, ReaderStep DEF Idle
<1>3. CASE rows[o].picture # None
  <2> DEFINE to == [at |-> "stat", owner |-> o, ref |-> rows[o].picture, stamp |-> rows[o].stamp,
                    header |-> held[o].tags, had |-> held[o].bytes]
  <2>1. Goes(j, to) BY <1>3
  <2>2. Moves(j) /\ job'[j] = to
    <3> HIDE DEF to
    <3> QED BY <2>1, GoesMoves DEF IInv
  <2>3. Noted(o, rows[o].stamp, rows[o].picture) /\ Has(o, held[o].tags, held[o].bytes)
    BY <1>3 DEF IInv, Stamped
  <2>4. resolveAndVerify(rows[o].picture) \in DOMAIN stored
    BY <2>3 DEF IInv, Stamped, Noted
  <2>5. Reading(j)' BY <2>2, <2>3, <2>4 DEF Reading, Path, Noted, Has, history
  <2>6. job'[j].at = "stat" BY <2>2
  <2>7. Sound(j)' BY <2>5, <2>6 DEF Sound, Uploads, StreamStages, Reads
  <2> QED BY <1>1, <2>2, <2>6, <2>7, ReaderStep DEF Reads
<1> QED BY <1>2, <1>3

(* What is not there any more was given up. *)
LEMMA MissingGone ==
  ASSUME IInv, NEW j \in Jobs, job[j].at \in Reads, ~exists(job[j].ref)
  PROVE  Path(j) \in Gone
BY DEF IInv, Requests, Sound, Reading, Kept, exists, Path

LEMMA Closing ==
  ASSUME IInv, NEW j \in Jobs, job[j].at \in Reads, NEW code, Closes(j, code)
  PROVE  /\ Reading(j) /\ Moves(j) /\ ~Begun(j) /\ job'[j].at = "answered" /\ job'[j].code = code
         /\ job'[j].ref = job[j].ref /\ job'[j].owner = job[j].owner /\ job'[j].had = job[j].had
         /\ job[j].at # "stat" => job'[j].size = job[j].size
<1> DEFINE more == [code |-> code]
           to == Advanced(j, "answered", more)
<1>1. Reading(j) /\ ~Begun(j) BY FreeOrReading DEF IInv, Requests, Sound
<1>2. /\ "at" \in DOMAIN job[j] /\ "code" \notin DOMAIN job[j]
      /\ {"owner", "ref", "had"} \subseteq DOMAIN job[j]
      /\ job[j].at # "stat" => "size" \in DOMAIN job[j]
  BY <1>1 DEF Reading
<1>3. DOMAIN more = {"code"} /\ more["code"] = code OBVIOUS
<1> HIDE DEF more
<1>4. to.at = "answered" BY <1>2, Onward
<1>5. \A x \in DOMAIN job[j] : x # "at" => to[x] = job[j][x] BY <1>2, OnwardOld
<1>6. \A x \in DOMAIN more : x \notin DOMAIN job[j] => to[x] = more[x] BY <1>2, OnwardNew
<1>7. Goes(j, to) BY DEF Closes, more
<1> HIDE DEF to
<1>8. Moves(j) /\ job'[j] = to BY <1>7, GoesMoves DEF IInv
<1>9. to["code"] = code BY <1>2, <1>3, <1>6
<1>10. /\ to["ref"] = job[j]["ref"] /\ to["owner"] = job[j]["owner"] /\ to["had"] = job[j]["had"]
       /\ job[j].at # "stat" => to["size"] = job[j]["size"]
  BY <1>2, <1>5
<1> QED BY <1>1, <1>4, <1>8, <1>9, <1>10

LEMMA NotModifiedIInv ==
  ASSUME IInv, NEW j \in Jobs, job[j].at \in Reads, job[j].at # "stat", Closes(j, 304),
         UNCHANGED <<disk, temps, rows, artifacts, drawn, clock, held, history>>,
         job[j].had = stored[Path(j)] \/ Twins(job[j].owner, Path(j), job[j].size)
  PROVE  IInv'
<1>1. /\ Reading(j) /\ Moves(j) /\ ~Begun(j) /\ job'[j].at = "answered" /\ job'[j].code = 304
      /\ job'[j].ref = job[j].ref /\ job'[j].owner = job[j].owner /\ job'[j].had = job[j].had
      /\ job'[j].size = job[j].size
  BY Closing
<1>2. Path(j)' = Path(j) /\ UNCHANGED <<stored, named>> BY <1>1 DEF Path, history
<1>3. job'[j].had = stored'[Path(j)'] \/ Twins(job[j].owner, Path(j), job[j].size)'
  BY <1>1, <1>2 DEF Twins
<1>4. Answered(j)' BY <1>1, <1>2, <1>3 DEF Answered, Reading
<1>5. Sound(j)' BY <1>1, <1>4 DEF Sound, Uploads, StreamStages, Reads
<1> QED BY <1>1, <1>5, NothingNoted, ReaderStep

LEMMA NotThereIInv ==
  ASSUME IInv, NEW j \in Jobs, job[j].at \in Reads, NEW code, code \notin {200, 304}, Closes(j, code),
         UNCHANGED <<disk, temps, rows, artifacts, drawn, clock, held, history>>,
         ~exists(job[j].ref)
  PROVE  IInv'
<1>1. /\ Reading(j) /\ Moves(j) /\ ~Begun(j) /\ job'[j].at = "answered" /\ job'[j].code = code
      /\ job'[j].ref = job[j].ref
  BY Closing
<1>2. Path(j)' = Path(j) /\ UNCHANGED <<stored, letGo>> BY <1>1 DEF Path, history
<1>3. Path(j)' \in Gone' BY <1>2, MissingGone DEF Gone
<1>4. Answered(j)' BY <1>1, <1>2, <1>3 DEF Answered, Reading
<1>5. Sound(j)' BY <1>1, <1>4 DEF Sound, Uploads, StreamStages, Reads
<1> QED BY <1>1, <1>5, NothingNoted, ReaderStep

LEMMA ReadTyped ==
  ASSUME IInv, NEW j \in Jobs, job[j].at \in Reads
  PROVE  Reading(j) /\ "at" \in DOMAIN job[j]
         /\ (exists(job[j].ref) => disk[Path(j)] = stored[Path(j)])
BY DEF IInv, Requests, Sound, Reading, Kept, exists, Path

(* The next wait of a reader knows what the last one did. *)
LEMMA ReadsOn ==
  ASSUME IInv, NEW j \in Jobs, job[j].at \in Reads, Moves(j), job'[j].at \in Reads,
         UNCHANGED <<disk, temps, rows, artifacts, drawn, clock, held, history>>,
         \A x \in {"owner", "ref", "stamp", "header", "had"} : job'[j][x] = job[j][x],
         DOMAIN job'[j] = {"at", "owner", "ref", "stamp", "header", "had"}
                       \cup (IF job'[j].at = "stat" THEN {} ELSE {"size"})
                       \cup (IF job'[j].at \in {"stat", "header"} THEN {} ELSE {"type", "etag"}),
         job'[j].at # "stat" => Sized(j)',
         job'[j].at \in {"opening", "sending"} => Typed(j)' /\ job'[j].etag = <<job'[j].stamp, job'[j].size>>
  PROVE  IInv'
<1>1. /\ job'[j].owner = job[j].owner /\ job'[j].ref = job[j].ref /\ job'[j].stamp = job[j].stamp
      /\ job'[j].header = job[j].header /\ job'[j].had = job[j].had
  OBVIOUS
<1>2. Reading(j) BY ReadTyped
<1>3. UNCHANGED <<stored, named>> BY DEF history
<1>4. Path(j)' = Path(j) BY <1>1 DEF Path
<1>5. Noted(job[j].owner, job[j].stamp, job[j].ref)' /\ Has(job[j].owner, job[j].header, job[j].had)'
  BY <1>1, <1>2, <1>3 DEF Reading, Noted, Has
<1>6. Reading(j)' BY <1>1, <1>2, <1>3, <1>4, <1>5 DEF Reading
<1>7. Sound(j)' BY <1>6 DEF Sound, Uploads, StreamStages, Reads
<1> QED BY <1>7, NothingNoted, FreeOrReading, ReaderStep

LEMMA StatIInv == ASSUME IInv, NEW j \in Jobs, stat(j) PROVE IInv'
<1>0. UNCHANGED <<disk, temps, rows, artifacts, drawn, clock, held, history>> /\ job[j].at \in Reads
  BY DEF stat, Reads
<1>1. CASE ~exists(job[j].ref)
  <2> DEFINE code == 404
  <2>1. Closes(j, code) BY <1>1 DEF stat
  <2>2. code \notin {200, 304} OBVIOUS
  <2> HIDE DEF code
  <2> QED BY <1>0, <1>1, <2>1, <2>2, NotThereIInv
<1>2. CASE exists(job[j].ref)
  <2> DEFINE more == [size |-> disk[Path(j)].size]
             to == Advanced(j, "header", more)
  <2>1. Goes(j, to) BY <1>2 DEF Path, stat
  <2>2. Reading(j) /\ "at" \in DOMAIN job[j] /\ disk[Path(j)] = stored[Path(j)] BY <1>0, <1>2, ReadTyped
  <2>3. DOMAIN job[j] = {"at", "owner", "ref", "stamp", "header", "had"} BY <2>2 DEF Reading, stat
  <2>4. DOMAIN more = {"size"} /\ more["size"] = stored[Path(j)].size BY <2>2
  <2> HIDE DEF more
  <2>5. /\ DOMAIN to = DOMAIN job[j] \cup DOMAIN more /\ to.at = "header"
        /\ \A x \in DOMAIN job[j] : x # "at" => to[x] = job[j][x]
        /\ \A x \in DOMAIN more : x \notin DOMAIN job[j] => to[x] = more[x]
    <3>1. DOMAIN to = DOMAIN job[j] \cup DOMAIN more /\ to.at = "header" BY <2>2, Onward
    <3>2. \A x \in DOMAIN job[j] : x # "at" => to[x] = job[j][x] BY <2>2, OnwardOld
    <3>3. \A x \in DOMAIN more : x \notin DOMAIN job[j] => to[x] = more[x] BY <2>2, OnwardNew
    <3> QED BY <3>1, <3>2, <3>3
  <2> HIDE DEF to
  <2>6. Moves(j) /\ job'[j] = to BY <2>1, GoesMoves DEF IInv
  <2>7. \A x \in {"owner", "ref", "stamp", "header", "had"} : job'[j][x] = job[j][x] BY <2>3, <2>5, <2>6
  <2>8. job'[j].at = "header" /\ job'[j].size = stored[Path(j)].size BY <2>3, <2>4, <2>5, <2>6
  <2>9. Sized(j)'
    <3>1. job'[j].ref = job[j].ref /\ stored' = stored BY <1>0, <2>7 DEF history
    <3> QED BY <2>8, <3>1 DEF Sized, Path
  <2>10. DOMAIN job'[j] = {"at", "owner", "ref", "stamp", "header", "had", "size"} BY <2>3, <2>4, <2>5, <2>6
  <2> QED BY <1>0, <2>6, <2>7, <2>8, <2>9, <2>10, ReadsOn DEF Reads
<1> QED BY <1>1, <1>2

LEMMA FindPictureIInv == ASSUME IInv, NEW j \in Jobs, findPicture(j) PROVE IInv'
<1> DEFINE etag == Etag(job[j].stamp, job[j].size)
<1>0. /\ UNCHANGED <<disk, temps, rows, artifacts, drawn, clock, held, history>>
      /\ job[j].at = "header" /\ job[j].at \in Reads
  BY DEF findPicture, Reads
<1>1. Reading(j) /\ "at" \in DOMAIN job[j] /\ (exists(job[j].ref) => disk[Path(j)] = stored[Path(j)])
  BY <1>0, ReadTyped
<1>2. Sized(j) /\ etag = <<job[j].stamp, stored[Path(j)].size>> BY <1>0, <1>1 DEF Reading, Sized, Etag
<1>3. CASE matchesEtag(job[j].header, etag)
  <2>1. PICK one \in named : one.owner = job[j].owner /\ one.path \in DOMAIN stored
          /\ job[j].had = stored[one.path] /\ etag = <<one.stamp, stored[one.path].size>>
    BY <1>1, <1>3 DEF Reading, Has, matchesEtag
  <2>2. PICK mine \in named : mine.owner = job[j].owner /\ mine.stamp = job[j].stamp /\ mine.path = Path(j)
    BY <1>1 DEF Reading, Noted, Path
  <2>3. one.stamp = job[j].stamp /\ stored[one.path].size = stored[Path(j)].size BY <1>2, <2>1
  <2>4. job[j].had = stored[Path(j)] \/ Twins(job[j].owner, Path(j), job[j].size)
    BY <1>2, <2>1, <2>2, <2>3 DEF Twins, Sized
  <2>5. Closes(j, 304) BY <1>3 DEF findPicture
  <2>6. job[j].at # "stat" BY <1>0
  <2> QED BY <1>0, <2>4, <2>5, <2>6, NotModifiedIInv
<1>4. CASE ~matchesEtag(job[j].header, etag)
  <2>1. PICK type \in {OctetStream} \cup
                {detectContentType(disk[p]).mime : p \in {resolveAndVerify(job[j].ref)} \cap DOMAIN disk} :
          Goes(j, Advanced(j, "opening", [type |-> type, etag |-> etag]))
    BY <1>4 DEF findPicture
  <2>2. type \in {OctetStream, detectContentType(stored[Path(j)]).mime} BY <1>1, <2>1 DEF exists, Path
  <2> DEFINE more == [type |-> type, etag |-> etag]
             to == Advanced(j, "opening", more)
  <2>3. DOMAIN job[j] = {"at", "owner", "ref", "stamp", "header", "had", "size"} BY <1>0, <1>1 DEF Reading
  <2>4. DOMAIN more = {"type", "etag"} /\ more["type"] = type /\ more["etag"] = etag OBVIOUS
  <2> HIDE DEF more, etag
  <2>6. Goes(j, to) BY <2>1 DEF more
  <2>5. /\ DOMAIN to = DOMAIN job[j] \cup DOMAIN more /\ to.at = "opening"
        /\ \A x \in DOMAIN job[j] : x # "at" => to[x] = job[j][x]
        /\ \A x \in DOMAIN more : x \notin DOMAIN job[j] => to[x] = more[x]
    <3>1. DOMAIN to = DOMAIN job[j] \cup DOMAIN more /\ to.at = "opening" BY <1>1, Onward
    <3>2. \A x \in DOMAIN job[j] : x # "at" => to[x] = job[j][x] BY <1>1, OnwardOld
    <3>3. \A x \in DOMAIN more : x \notin DOMAIN job[j] => to[x] = more[x] BY <1>1, OnwardNew
    <3> QED BY <3>1, <3>2, <3>3
  <2> HIDE DEF to
  <2>7. Moves(j) /\ job'[j] = to BY <2>6, GoesMoves DEF IInv
  <2>8. \A x \in {"owner", "ref", "stamp", "header", "had", "size"} : job'[j][x] = job[j][x] BY <2>3, <2>5, <2>7
  <2>9. job'[j].at = "opening" /\ job'[j].type = type /\ job'[j].etag = etag BY <2>3, <2>4, <2>5, <2>7
  <2>10. Sized(j)' /\ Typed(j)' BY <1>0, <1>2, <2>2, <2>8, <2>9 DEF Sized, Typed, Path, history
  <2>11. job'[j].etag = <<job'[j].stamp, job'[j].size>> BY <1>2, <2>8, <2>9, <2>10 DEF Sized
  <2>12. DOMAIN job'[j] = {"at", "owner", "ref", "stamp", "header", "had", "size", "type", "etag"}
    BY <2>3, <2>4, <2>5, <2>7
  <2> QED BY <1>0, <2>7, <2>8, <2>9, <2>10, <2>11, <2>12, ReadsOn DEF Reads
<1> QED BY <1>3, <1>4

LEMMA CreateReadStreamIInv == ASSUME IInv, NEW j \in Jobs, createReadStream(j) PROVE IInv'
<1>0. /\ UNCHANGED <<disk, temps, rows, artifacts, drawn, clock, held, history>>
      /\ job[j].at = "opening" /\ job[j].at \in Reads
  BY DEF createReadStream, Reads
<1>1. CASE ~exists(job[j].ref)
  <2> DEFINE code == 404
  <2>1. Closes(j, code) BY <1>1 DEF createReadStream
  <2>2. code \notin {200, 304} OBVIOUS
  <2> HIDE DEF code
  <2> QED BY <1>0, <1>1, <2>1, <2>2, NotThereIInv
<1>2. CASE exists(job[j].ref)
  <2> DEFINE to == [job[j] EXCEPT !.at = "sending"]
  <2>1. Goes(j, to) BY <1>2 DEF createReadStream, Waits
  <2>2. Reading(j) BY <1>0, ReadTyped
  <2>3. DOMAIN job[j] = {"at", "owner", "ref", "stamp", "header", "had", "size", "type", "etag"}
    BY <1>0, <2>2 DEF Reading
  <2>4. DOMAIN to = DOMAIN job[j] /\ to.at = "sending" /\ \A x \in DOMAIN job[j] : x # "at" => to[x] = job[j][x]
    BY <2>3
  <2> HIDE DEF to
  <2>5. Moves(j) /\ job'[j] = to BY <2>1, GoesMoves DEF IInv
  <2>6. \A x \in {"owner", "ref", "stamp", "header", "had", "size", "type", "etag"} : job'[j][x] = job[j][x]
    BY <2>3, <2>4, <2>5
  <2>7. /\ job'[j].ref = job[j].ref /\ job'[j].stamp = job[j].stamp /\ job'[j].size = job[j].size
        /\ job'[j].type = job[j].type /\ job'[j].etag = job[j].etag /\ job'[j].at = "sending"
    BY <2>4, <2>5, <2>6
  <2>8. stored' = stored BY <1>0 DEF history
  <2>9. Sized(j)' /\ Typed(j)' /\ job'[j].etag = <<job'[j].stamp, job'[j].size>>
    BY <1>0, <2>2, <2>7, <2>8 DEF Reading, Sized, Typed, Path
  <2>10. DOMAIN job'[j] = {"at", "owner", "ref", "stamp", "header", "had", "size", "type", "etag"}
    BY <2>3, <2>4, <2>5
  <2> QED BY <1>0, <2>5, <2>6, <2>7, <2>9, <2>10, ReadsOn DEF Reads
<1> QED BY <1>1, <1>2

LEMMA SendPictureIInv == ASSUME IInv, NEW j \in Jobs, SendPicture(j) PROVE IInv'
<1>0. /\ UNCHANGED <<disk, temps, rows, artifacts, drawn, clock, history>>
      /\ job[j].at = "sending" /\ job[j].at \in Reads
  BY DEF SendPicture, Reads
<1>1. CASE ~exists(job[j].ref)
  <2> DEFINE code == 599
  <2>1. Closes(j, code) /\ UNCHANGED held BY <1>1 DEF SendPicture
  <2>2. code \notin {200, 304} OBVIOUS
  <2> HIDE DEF code
  <2> QED BY <1>0, <1>1, <2>1, <2>2, NotThereIInv
<1>2. CASE exists(job[j].ref)
  <2> DEFINE bytes == disk[Path(j)]
             more == [code |-> 200, bytes |-> bytes]
             to == Advanced(j, "answered", more)
             has == [tags |-> {job[j].etag}, bytes |-> bytes]
  <2>1. Goes(j, to) /\ held' = [held EXCEPT ![job[j].owner] = has] BY <1>2 DEF SendPicture, Path
  <2>2. Reading(j) /\ bytes = stored[Path(j)] BY <1>0, <1>2, ReadTyped
  <2>3. DOMAIN job[j] = {"at", "owner", "ref", "stamp", "header", "had", "size", "type", "etag"}
    BY <1>0, <2>2 DEF Reading
  <2>4. DOMAIN more = {"code", "bytes"} /\ more["code"] = 200 /\ more["bytes"] = bytes OBVIOUS
  <2>5. has.tags = {job[j].etag} /\ has.bytes = bytes /\ has = [tags |-> has.tags, bytes |-> has.bytes] OBVIOUS
  <2> HIDE DEF more, has
  <2>6. to.at = "answered" BY <2>3, Onward
  <2>7. \A x \in DOMAIN job[j] : x # "at" => to[x] = job[j][x] BY <2>3, OnwardOld
  <2>8. \A x \in DOMAIN more : x \notin DOMAIN job[j] => to[x] = more[x] BY <2>3, OnwardNew
  <2> HIDE DEF to, bytes
  <2>9. Moves(j) /\ job'[j] = to BY <2>1, GoesMoves DEF IInv
  <2>10. /\ job'[j].at = "answered" /\ job'[j].code = 200 /\ job'[j].bytes = bytes
         /\ job'[j].ref = job[j].ref /\ job'[j].size = job[j].size /\ job'[j].type = job[j].type
    BY <2>3, <2>4, <2>6, <2>7, <2>8, <2>9
  <2>11. Path(j)' = Path(j) /\ UNCHANGED <<stored, named>> BY <1>0, <2>10 DEF Path, history
  <2>12. Sized(j)' /\ Typed(j)' BY <1>0, <2>2, <2>10, <2>11 DEF Reading, Sized, Typed
  <2>13. Path(j) \in DOMAIN stored BY <2>2 DEF Reading
  <2>14. Answered(j)' BY <2>2, <2>10, <2>11, <2>12, <2>13 DEF Answered
  <2>15. Sound(j)' BY <2>10, <2>14 DEF Sound, Uploads, StreamStages, Reads
  <2>16. Has(job[j].owner, {job[j].etag}, bytes)
    <3>1. PICK one \in named : one.owner = job[j].owner /\ one.stamp = job[j].stamp /\ one.path = Path(j)
      BY <2>2 DEF Reading, Noted, Path
    <3>2. job[j].etag = <<one.stamp, stored[one.path].size>> BY <1>0, <2>2, <3>1 DEF Reading, Sized
    <3> QED BY <2>2, <2>13, <3>1, <3>2 DEF Has
  <2>17. held' = [o \in Owners |-> IF o = job[j].owner THEN has ELSE held[o]]
    <3>1. DOMAIN held = Owners BY DEF IInv, RowTypes
    <3> QED BY <2>1, <3>1
  <2>18. Stamped'
    <3>1. ASSUME NEW o \in Owners PROVE Has(o, held[o].tags, held[o].bytes)'
      <4>1. CASE o = job[j].owner
        <5>1. held'[o] = has BY <2>17, <4>1
        <5> QED BY <2>5, <2>11, <2>16, <4>1, <5>1 DEF Has
      <4>2. CASE o # job[j].owner
        <5>1. held'[o] = held[o] BY <2>17, <4>2
        <5>2. Has(o, held[o].tags, held[o].bytes) BY DEF IInv, Stamped
        <5> QED BY <2>11, <5>1, <5>2 DEF Has
      <4> QED BY <4>1, <4>2
    <3> QED BY <1>0, <2>11, <3>1 DEF IInv, Stamped, Noted
  <2>19. RowTypes'
    <3>1. held' = [o \in Owners |-> [tags |-> held'[o].tags, bytes |-> held'[o].bytes]]
      <4>1. \A o \in Owners : held'[o] = [tags |-> held'[o].tags, bytes |-> held'[o].bytes]
        <5>1. ASSUME NEW o \in Owners PROVE held'[o] = [tags |-> held'[o].tags, bytes |-> held'[o].bytes]
          <6>1. CASE o = job[j].owner
            <7>1. held'[o] = has BY <2>17, <6>1
            <7> QED BY <2>5, <7>1
          <6>2. CASE o # job[j].owner
            <7>1. held'[o] = held[o] BY <2>17, <6>2
            <7>2. held[o] = [tags |-> held[o].tags, bytes |-> held[o].bytes] BY DEF IInv, RowTypes
            <7> QED BY <7>1, <7>2
          <6> QED BY <6>1, <6>2
        <5> QED BY <5>1
      <4>2. held' = [o \in Owners |-> held'[o]] BY <2>17
      <4> QED BY <4>1, <4>2
    <3> QED BY <1>0, <3>1 DEF IInv, RowTypes
  <2> QED BY <1>0, <2>9, <2>10, <2>15, <2>18, <2>19, FreeOrReading, ReaderStep
<1> QED BY <1>1, <1>2

-----------------------------------------------------------------------------
(* A request begins with a name of its own. *)

LEMMA Fresh ==
  ASSUME IInv, NEW b \in BucketNames, drawn < Len(FileNames)
  PROVE  /\ drawn + 1 \in 0..Len(FileNames) /\ drawn \in 0..Len(FileNames)
         /\ Reference(b, Drawn) \in NameRefs(drawn + 1) /\ Reference(b, Drawn).segs[2] = Drawn
         /\ \A s \in NameRefs(drawn) : s.segs[2] # Drawn
         /\ resolveAndVerify(Reference(b, Drawn)) \notin DOMAIN stored
<1> DEFINE r == Reference(b, Drawn)
<1>1. drawn \in 0..Len(FileNames) BY DEF IInv, RowTypes
<1>2. /\ drawn + 1 \in 0..Len(FileNames) /\ r \in NameRefs(drawn + 1) /\ r.segs[2] = Drawn
      /\ \A s \in NameRefs(drawn) : s.segs[2] # Drawn
  BY <1>1, NextName DEF Drawn
<1>3. NameRefs(drawn) \subseteq NameRefs(drawn + 1) BY <1>1, NamesGrow
<1> HIDE DEF r
<1>4. ASSUME resolveAndVerify(r) \in DOMAIN stored PROVE FALSE
  <2>1. resolveAndVerify(r) \notin DOMAIN Elsewhere BY <1>2, NamesApart
  <2>2. PICK s \in NameRefs(drawn) : resolveAndVerify(r) = resolveAndVerify(s)
    BY <1>4, <2>1 DEF IInv, Kept
  <2>3. r = s BY <1>2, <1>3, <2>2, NamesApart
  <2> QED BY <1>2, <2>2, <2>3
<1> QED BY <1>1, <1>2, <1>4 DEF r

LEMMA BegunRef ==
  ASSUME IInv, NEW i \in Jobs, Begun(i)
  PROVE  job[i].ref \in NameRefs(drawn)
<1>1. PictureRefs(drawn) \subseteq NameRefs(drawn) BY NamesGrow DEF IInv, RowTypes
<1> QED BY <1>1 DEF IInv, Requests, Sound, Begun, Uploading, Streaming

LEMMA BeginsPrivate ==
  ASSUME IInv, NEW j \in Jobs, Moves(j), NEW b \in BucketNames, drawn < Len(FileNames),
         job'[j].ref = Reference(b, Drawn), UNCHANGED stored
  PROVE  Private'
<1>1. /\ Reference(b, Drawn).segs[2] = Drawn /\ \A s \in NameRefs(drawn) : s.segs[2] # Drawn
      /\ resolveAndVerify(Reference(b, Drawn)) \notin DOMAIN stored
  BY Fresh
<1>2. NameOf(j)' = Drawn /\ Path(j)' \notin DOMAIN stored' BY <1>1 DEF NameOf, Path
<1>3. ASSUME NEW i \in Jobs, i # j
      PROVE  /\ NameOf(i)' = NameOf(i) /\ Path(i)' = Path(i) /\ (Begun(i)' <=> Begun(i))
             /\ (Unstored(i)' <=> Unstored(i)) /\ (Begun(i) => NameOf(i) # Drawn)
  <2>1. job'[i] = job[i] BY <1>3 DEF Moves
  <2>2. Begun(i) => NameOf(i) # Drawn BY <1>1, BegunRef DEF NameOf
  <2> QED BY <2>1, <2>2 DEF NameOf, Path, Begun, Unstored
<1>4. ASSUME NEW k \in Jobs, Begun(k)'
      PROVE  /\ \A i \in Jobs : i # k /\ Begun(i)' => NameOf(i)' # NameOf(k)'
             /\ Unstored(k)' => Path(k)' \notin DOMAIN stored'
  <2>1. CASE k = j BY <1>2, <1>3, <2>1
  <2>2. CASE k # j
    <3>1. \A i \in Jobs : i # k /\ Begun(i) => NameOf(i) # NameOf(k) BY <1>3, <1>4, <2>2 DEF IInv, Private
    <3>2. Unstored(k) => Path(k) \notin DOMAIN stored BY <1>3, <1>4, <2>2 DEF IInv, Private
    <3> QED BY <1>2, <1>3, <1>4, <2>2, <3>1, <3>2
  <2> QED BY <2>1, <2>2
<1> QED BY <1>4 DEF Private

-----------------------------------------------------------------------------
(* What is accepted is whole, of a size and a type that are allowed. *)

(* The result of the first rule that applies is that of some rule, with    *)
(* none that applies before it.                                            *)
LEMMA FirstMatched ==
  ASSUME NEW rules, NEW n \in Nat \ {0}, DOMAIN rules = 1..n, rules[n][1]
  PROVE  \E k \in 1..n : /\ FirstMatch(rules) = rules[k][2] /\ rules[k][1]
                         /\ \A i \in 1..(k - 1) : ~rules[i][1]
<1> DEFINE T == {k \in 1..n : rules[k][1]}
           First(k) == k \in DOMAIN rules /\ rules[k][1] /\ \A i \in 1..(k - 1) : ~rules[i][1]
<1>1. T \subseteq Nat /\ T # {} OBVIOUS
<1>2. PICK k \in T : \A i \in T : k <= i
  <2> HIDE DEF T
  <2> QED BY <1>1, Least
<1>3. First(k)
  <2>1. ASSUME NEW i \in 1..(k - 1) PROVE ~rules[i][1]
    <3>1. i \in 1..n /\ ~(k <= i) BY <1>2
    <3> QED BY <1>2, <3>1
  <2> QED BY <1>2, <2>1
<1> DEFINE c == CHOOSE i \in DOMAIN rules : rules[i][1] /\ \A h \in 1..(i - 1) : ~rules[h][1]
<1>4. First(c) BY <1>3, Zenon
<1>5. FirstMatch(rules) = rules[c][2] BY DEF FirstMatch
<1> HIDE DEF c
<1> QED BY <1>4, <1>5

LEMMA FirstOfThree ==
  ASSUME NEW rules, DOMAIN rules = 1..3, rules[3][1]
  PROVE  FirstMatch(rules) = IF rules[1][1] THEN rules[1][2] ELSE IF rules[2][1] THEN rules[2][2] ELSE rules[3][2]
<1>1. PICK k \in 1..3 : /\ FirstMatch(rules) = rules[k][2] /\ rules[k][1]
                        /\ \A i \in 1..(k - 1) : ~rules[i][1]
  <2> DEFINE n == 3
  <2>1. n \in Nat \ {0} /\ DOMAIN rules = 1..n /\ rules[n][1] OBVIOUS
  <2> HIDE DEF n
  <2>2. \E k \in 1..n : /\ FirstMatch(rules) = rules[k][2] /\ rules[k][1]
                        /\ \A i \in 1..(k - 1) : ~rules[i][1]
    BY <2>1, FirstMatched
  <2> QED BY <2>2 DEF n
<1>2. k = 1 \/ k = 2 \/ k = 3 OBVIOUS
<1>3. CASE k = 1 BY <1>1, <1>3
<1>4. CASE k = 2
  <2>1. 1 \in 1..(k - 1) BY <1>4
  <2> QED BY <1>1, <1>4, <2>1
<1>5. CASE k = 3
  <2>1. 1 \in 1..(k - 1) /\ 2 \in 1..(k - 1) BY <1>5
  <2> QED BY <1>1, <1>5, <2>1
<1> QED BY <1>2, <1>3, <1>4, <1>5

LEMMA FirstOfFour ==
  ASSUME NEW rules, DOMAIN rules = 1..4, rules[4][1]
  PROVE  FirstMatch(rules) = IF rules[1][1] THEN rules[1][2] ELSE IF rules[2][1] THEN rules[2][2] ELSE IF rules[3][1] THEN rules[3][2] ELSE rules[4][2]
<1>1. PICK k \in 1..4 : /\ FirstMatch(rules) = rules[k][2] /\ rules[k][1]
                        /\ \A i \in 1..(k - 1) : ~rules[i][1]
  <2> DEFINE n == 4
  <2>1. n \in Nat \ {0} /\ DOMAIN rules = 1..n /\ rules[n][1] OBVIOUS
  <2> HIDE DEF n
  <2>2. \E k \in 1..n : /\ FirstMatch(rules) = rules[k][2] /\ rules[k][1]
                        /\ \A i \in 1..(k - 1) : ~rules[i][1]
    BY <2>1, FirstMatched
  <2> QED BY <2>2 DEF n
<1>2. k = 1 \/ k = 2 \/ k = 3 \/ k = 4 OBVIOUS
<1>3. CASE k = 1 BY <1>1, <1>3
<1>4. CASE k = 2
  <2>1. 1 \in 1..(k - 1) BY <1>4
  <2> QED BY <1>1, <1>4, <2>1
<1>5. CASE k = 3
  <2>1. 1 \in 1..(k - 1) /\ 2 \in 1..(k - 1) BY <1>5
  <2> QED BY <1>1, <1>5, <2>1
<1>6. CASE k = 4
  <2>1. 1 \in 1..(k - 1) /\ 2 \in 1..(k - 1) /\ 3 \in 1..(k - 1) BY <1>6
  <2> QED BY <1>1, <1>6, <2>1
<1> QED BY <1>2, <1>3, <1>4, <1>5, <1>6

(* Each of the four types of a picture is accepted. *)
LEMMA PicturesAccepted ==
  ASSUME NEW mime \in ALLOWED_PICTURE_MIME_TYPES
  PROVE  Permits(Accepted, mime)
<1>1. normalizeMimeType(mime) = mime
  <2>1. ~ \E kind \in Canonical : mime \in kind[2] BY DEF Canonical, ALLOWED_PICTURE_MIME_TYPES
  <2> QED BY <2>1 DEF normalizeMimeType
<1>2. normalizeMimeType(<<"image", "*">>) = <<"image", "*">>
  <2>1. ~ \E kind \in Canonical : <<"image", "*">> \in kind[2] BY DEF Canonical
  <2> QED BY <2>1 DEF normalizeMimeType
<1>3. <<"image", "*">> \in {normalizeMimeType(a) : a \in Accepted} BY <1>2 DEF Accepted
<1>4. mime[1] = "image" BY DEF ALLOWED_PICTURE_MIME_TYPES
<1> QED BY <1>1, <1>3, <1>4 DEF Permits

LEMMA UploadWhole ==
  ASSUME NEW parts \in Bodies, intercept(parts, MaxBytes).code = 200,
         assertUploadablePicture(intercept(parts, MaxBytes).file, MaxBytes) = 200
  PROVE  Whole(intercept(parts, MaxBytes).file)
<1> DEFINE file == intercept(parts, MaxBytes).file
<1>1. parts \in Seq(Octets) /\ MaxBytes \in Nat BY FilesAssumption
<1>2. parts # <<>>
  <2>1. SUFFICES ASSUME parts = <<>> PROVE FALSE OBVIOUS
  <2>2. file = None BY <2>1 DEF intercept
  <2> QED BY <2>2 DEF assertUploadablePicture
<1>3. file = Head(parts) /\ file \in Octets /\ file.size \in Nat /\ file \in Range(parts)
  <2>1. Head(parts) \in Octets /\ Head(parts) = parts[1] /\ 1 \in DOMAIN parts BY <1>1, <1>2
  <2>2. Head(parts).size \in Nat BY <2>1 DEF Octets
  <2> DEFINE p == Head(parts).size > MaxBytes
             q == Len(parts) > 1
             refused(c) == [code |-> c, file |-> None]
             taken == [code |-> 200, file |-> Head(parts)]
  <2>3. p \in BOOLEAN /\ q \in BOOLEAN OBVIOUS
  <2> DEFINE rules == << <<p, refused(413)>>, <<q, refused(400)>>, <<TRUE, taken>> >>
  <2>4. intercept(parts, MaxBytes) = FirstMatch(rules) BY <1>2 DEF intercept
  <2>5. refused(413).code = 413 /\ refused(400).code = 400 /\ taken.file = Head(parts) OBVIOUS
  <2>6. intercept(parts, MaxBytes) = IF p THEN refused(413) ELSE IF q THEN refused(400) ELSE taken
    <3> HIDE DEF p, q, refused, taken
    <3>1. /\ DOMAIN rules = 1..3 /\ rules[1][1] = p /\ rules[1][2] = refused(413)
          /\ rules[2][1] = q /\ rules[2][2] = refused(400) /\ rules[3][1] /\ rules[3][2] = taken
      OBVIOUS
    <3> HIDE DEF rules
    <3>2. FirstMatch(rules) = IF rules[1][1] THEN rules[1][2] ELSE IF rules[2][1] THEN rules[2][2] ELSE rules[3][2]
      BY <3>1, FirstOfThree
    <3> QED BY <2>3, <2>4, <3>1, <3>2
  <2>7. intercept(parts, MaxBytes) = taken
    <3> HIDE DEF p, q
    <3> QED BY <2>5, <2>6
  <2> QED BY <2>1, <2>2, <2>5, <2>7 DEF Range
<1> HIDE DEF file
<1>4. file # None BY <1>3, FilesAssumption
<1> DEFINE p == file.size = 0
           q == file.size > MaxBytes
           r == detectContentType(file).mime \notin ALLOWED_PICTURE_MIME_TYPES
<1>5. assertUploadablePicture(file, MaxBytes) = IF p THEN 400 ELSE IF q THEN 413 ELSE IF r THEN 415 ELSE 200
  <2> DEFINE rules == << <<p, 400>>, <<q, 413>>, <<r, 415>>, <<TRUE, 200>> >>
  <2>1. assertUploadablePicture(file, MaxBytes) = FirstMatch(rules) BY <1>4 DEF assertUploadablePicture
  <2>2. p \in BOOLEAN /\ q \in BOOLEAN /\ r \in BOOLEAN OBVIOUS
  <2> HIDE DEF p, q, r
  <2>3. /\ DOMAIN rules = 1..4 /\ rules[1][1] = p /\ rules[1][2] = 400 /\ rules[2][1] = q /\ rules[2][2] = 413
        /\ rules[3][1] = r /\ rules[3][2] = 415 /\ rules[4][1] /\ rules[4][2] = 200
    OBVIOUS
  <2> HIDE DEF rules
  <2>4. FirstMatch(rules) = IF rules[1][1] THEN rules[1][2] ELSE IF rules[2][1] THEN rules[2][2] ELSE
                            IF rules[3][1] THEN rules[3][2] ELSE rules[4][2]
    BY <2>3, FirstOfFour
  <2> QED BY <2>1, <2>2, <2>3, <2>4
<1>6. ~q /\ ~r
  <2>1. assertUploadablePicture(file, MaxBytes) = 200 BY DEF file
  <2> HIDE DEF p, q, r
  <2> QED BY <1>5, <2>1
<1>7. Permits(Accepted, detectContentType(file).mime) BY <1>6, PicturesAccepted
<1>8. file.size <= MaxBytes BY <1>1, <1>3, <1>6
<1> QED BY <1>3, <1>7, <1>8 DEF Whole, file

(* A stream is looked at when all of it has come. *)
LEMMA StreamWhole ==
  ASSUME NEW bytes \in Streamed, bytes.size <= MaxBytes, validateFile(bytes, None, Accepted) = 200
  PROVE  Whole(bytes)
<1> DEFINE p == None # None /\ bytes.size > Or0(None)
           q == Accepted # {} /\ ~Permits(Accepted, detectContentType(bytes).mime)
<1>1. validateFile(bytes, None, Accepted) = IF p THEN 413 ELSE IF q THEN 415 ELSE 200
  <2> DEFINE rules == << <<p, 413>>, <<q, 415>>, <<TRUE, 200>> >>
  <2>1. p \in BOOLEAN /\ q \in BOOLEAN OBVIOUS
  <2>2. validateFile(bytes, None, Accepted) = FirstMatch(rules) BY DEF validateFile
  <2> HIDE DEF p, q
  <2>3. /\ DOMAIN rules = 1..3 /\ rules[1][1] = p /\ rules[1][2] = 413
        /\ rules[2][1] = q /\ rules[2][2] = 415 /\ rules[3][1] /\ rules[3][2] = 200
    OBVIOUS
  <2> HIDE DEF rules
  <2>4. FirstMatch(rules) = IF rules[1][1] THEN rules[1][2] ELSE IF rules[2][1] THEN rules[2][2] ELSE rules[3][2]
    BY <2>3, FirstOfThree
  <2> QED BY <2>1, <2>2, <2>3, <2>4
<1>2. ~q
  <2> HIDE DEF p, q
  <2> QED BY <1>1
<1>3. Permits(Accepted, detectContentType(bytes).mime) BY <1>2 DEF Accepted
<1> QED BY <1>3, FilesAssumption DEF Whole

-----------------------------------------------------------------------------
(* Uploads of pictures. *)

LEMMA FreshPicture ==
  ASSUME IInv, drawn < Len(FileNames)
  PROVE  /\ "pictures" \in BucketNames
         /\ Reference("pictures", Drawn) \in PictureRefs(drawn + 1)
         /\ Reference("pictures", Drawn) \notin PictureRefs(drawn) \cup {None}
<1>1. "pictures" \in BucketNames BY DEF BucketNames
<1>2. drawn \in 0..Len(FileNames) BY DEF IInv, RowTypes
<1>3. Reference("pictures", Drawn) \in PictureRefs(drawn + 1) BY <1>1, <1>2, NextName DEF Drawn
<1>4. PictureRefs(drawn) \subseteq NameRefs(drawn) BY <1>2, NamesGrow
<1>5. Reference("pictures", Drawn) \notin PictureRefs(drawn) BY <1>1, <1>4, Fresh
<1>6. Reference("pictures", Drawn) # None
  <2>1. Reference("pictures", Drawn) \in NameRefs(drawn + 1) /\ drawn + 1 \in 0..Len(FileNames) BY <1>1, Fresh
  <2>2. Reference("pictures", Drawn) \in AnyReference BY <2>1, NamesApart
  <2> QED BY <2>2, FilesAssumption
<1> QED BY <1>1, <1>3, <1>5, <1>6

LEMMA UploadPictured ==
  ASSUME IInv, Grows, NEW j \in Jobs, Moves(j), NEW o \in Owners, drawn < Len(FileNames), drawn' = drawn + 1,
         job'[j].at = "writing", job'[j].owner = o, job'[j].ref = Reference("pictures", Drawn),
         job'[j].old = rows[o].picture, UNCHANGED <<disk, rows, letGo>>
  PROVE  Pictured'
<1> DEFINE r == Reference("pictures", Drawn)
<1>1. r \notin PictureRefs(drawn) \cup {None} BY FreshPicture
<1> HIDE DEF r
<1>2. \A p \in Owners : rows[p].picture \in PictureRefs(drawn) \cup {None} BY DEF IInv, RowTypes
<1>3. job'[j].ref = r BY DEF r
<1>4. PictureRefs(drawn) \subseteq PictureRefs(drawn') BY NamesKept
<1>5. \A ref : There(ref) => There(ref)' BY DEF There, exists, Lost
<1>6. \A ref : Lost(ref) => Lost(ref)' BY DEF Lost
<1>7. ASSUME NEW i \in Jobs, i # j PROVE job'[i] = job[i] BY <1>7 DEF Moves
<1>8. \A i \in Jobs : i # j /\ job[i].at \in Uploads =>
        job[i].old \in PictureRefs(drawn) \cup {None} /\ job[i].ref \in PictureRefs(drawn)
  BY DEF IInv, Requests, Sound, Uploading
<1>9. \A p \in Owners : rows'[p].picture # None => There(rows[p].picture)' BY <1>5 DEF IInv, Pictured
<1>10. ASSUME NEW k \in Jobs, job'[k].at \in Uploads
       PROVE  /\ job'[k].at = "recording" => There(job[k].ref)'
              /\ \A p \in Owners : rows'[p].picture # job'[k].ref
              /\ \A p \in Owners : rows'[p].picture = job'[k].old => p = job'[k].owner \/ job'[k].old = None
              /\ \A i \in Jobs : job'[i].at \in Uploads => job'[i].old # job'[k].ref
  <2>1. CASE k = j
    <3>1. \A p \in Owners : rows'[p].picture # job'[k].ref BY <1>1, <1>2, <1>3, <2>1
    <3>2. \A p \in Owners : rows'[p].picture = job'[k].old => p = job'[k].owner \/ job'[k].old = None
      BY <2>1 DEF IInv, Pictured
    <3>3. \A i \in Jobs : job'[i].at \in Uploads => job'[i].old # job'[k].ref
      BY <1>1, <1>2, <1>3, <1>7, <1>8, <2>1
    <3> QED BY <2>1, <3>1, <3>2, <3>3
  <2>2. CASE k # j
    <3>1. job'[k] = job[k] BY <1>7, <2>2
    <3>2. /\ job[k].at = "recording" => There(job[k].ref)
          /\ \A p \in Owners : rows[p].picture # job[k].ref
          /\ \A p \in Owners : rows[p].picture = job[k].old => p = job[k].owner \/ job[k].old = None
          /\ \A i \in Jobs : job[i].at \in Uploads => job[i].old # job[k].ref
      BY <1>10, <3>1 DEF IInv, Pictured
    <3>3. ASSUME NEW i \in Jobs, job'[i].at \in Uploads PROVE job'[i].old # job'[k].ref
      <4>1. CASE i = j BY <3>1, <3>2, <4>1
      <4>2. CASE i # j BY <1>7, <3>1, <3>2, <3>3, <4>2
      <4> QED BY <4>1, <4>2
    <3> QED BY <1>5, <3>1, <3>2, <3>3
  <2> QED BY <2>1, <2>2
<1>11. ASSUME NEW k \in Jobs, job'[k].at = "discarding", ~Lost(job[k].ref)'
       PROVE  /\ job'[k].ref \in PictureRefs(drawn')
              /\ \A p \in Owners : rows'[p].picture # job'[k].ref
              /\ \A i \in Jobs : job'[i].at \in Uploads => job'[i].ref # job'[k].ref
  <2>1. k # j /\ job'[k] = job[k] BY <1>7, <1>11
  <2>2. /\ job[k].ref \in PictureRefs(drawn)
        /\ \A p \in Owners : rows[p].picture # job[k].ref
        /\ \A i \in Jobs : job[i].at \in Uploads => job[i].ref # job[k].ref
    BY <1>6, <1>11, <2>1 DEF IInv, Pictured
  <2>3. \A i \in Jobs : job'[i].at \in Uploads => job'[i].ref # job'[k].ref
    BY <1>1, <1>3, <1>7, <2>1, <2>2
  <2> QED BY <1>4, <2>1, <2>2, <2>3
<1>12. \A p, q \in Owners : rows'[p].picture = rows'[q].picture => p = q \/ rows'[p].picture = None
  BY DEF IInv, Pictured
<1> QED BY <1>9, <1>10, <1>11, <1>12 DEF Pictured

LEMMA FreeNotBegun ==
  ASSUME NEW j, Free(j)
  PROVE  ~Begun(j) /\ ~Opened(j)
BY DEF Free, Begun, Opened, Uploads, StreamStages

(* A request that does not begin ends where it is. *)
LEMMA EndsAtOnce ==
  ASSUME IInv, NEW j \in Jobs, Free(j), Ends(j),
         UNCHANGED <<disk, temps, rows, artifacts, drawn, clock, held, history>>
  PROVE  IInv'
<1>1. Moves(j) /\ job'[j] = Idle BY GoesMoves DEF Ends, IInv
<1>2. Sound(j)' BY <1>1, IdleSound
<1>3. job'[j].at = "idle" BY <1>1 DEF Idle
<1> QED BY <1>1, <1>2, <1>3, FreeNotBegun, NothingNoted, ReaderStep

LEMMA TidyBegins ==
  ASSUME IInv, Grows, NEW j \in Jobs, Moves(j), ~Opened(j), ~Opened(j)', UNCHANGED <<temps, smooth, left>>,
         job'[j].at \in StreamStages => job'[j].name \notin left
  PROVE  Tidy'
<1>1. ASSUME NEW i \in Jobs
      PROVE  (Opened(i)' <=> Opened(i)) /\ (Opened(i) => job'[i].name = job[i].name)
  <2>1. CASE i = j BY <2>1
  <2>2. CASE i # j BY <2>2 DEF Moves, Opened
  <2> QED BY <2>1, <2>2
<1>2. ASSUME NEW i \in Jobs, job'[i].at \in StreamStages PROVE job'[i].name \notin left
  <2>1. CASE i = j BY <1>2, <2>1
  <2>2. CASE i # j BY <1>2, <2>2 DEF Moves, IInv, Tidy, LeftBehind
  <2> QED BY <2>1, <2>2
<1> QED BY <1>1, <1>2, TidyStays DEF IInv

LEMMA UploadPictureIInv ==
  ASSUME IInv, NEW j \in Jobs, NEW o \in Owners, NEW parts \in Bodies, uploadPicture(j, o, parts)
  PROVE  IInv'
<1> DEFINE received == intercept(parts, MaxBytes)
           code == IF received.code # 200 THEN received.code
                   ELSE assertUploadablePicture(received.file, MaxBytes)
<1>1. Free(j) /\ UNCHANGED <<disk, temps, rows, artifacts, clock, held, history>> BY DEF uploadPicture
<1>2. CASE code # 200
  <2>1. Ends(j) /\ UNCHANGED drawn BY <1>2 DEF uploadPicture
  <2> QED BY <1>1, <2>1, EndsAtOnce
<1>3. CASE code = 200
  <2> DEFINE to == [at |-> "writing", owner |-> o, bytes |-> received.file,
                    ref |-> Reference("pictures", Drawn), old |-> rows[o].picture]
  <2>1. Draws /\ Goes(j, to) BY <1>3 DEF uploadPicture
  <2>2. received.code = 200 /\ assertUploadablePicture(received.file, MaxBytes) = 200 BY <1>3
  <2>3. Whole(received.file) BY <2>2, UploadWhole
  <2>4. /\ DOMAIN to = {"at", "owner", "bytes", "ref", "old"} /\ to.at = "writing" /\ to.owner = o
        /\ to.bytes = received.file /\ to.ref = Reference("pictures", Drawn) /\ to.old = rows[o].picture
    OBVIOUS
  <2> HIDE DEF to, received
  <2>5. Moves(j) /\ job'[j] = to BY <2>1, GoesMoves DEF IInv
  <2>6. drawn < Len(FileNames) /\ drawn' = drawn + 1 BY <2>1 DEF Draws
  <2>7. /\ "pictures" \in BucketNames /\ Reference("pictures", Drawn) \in PictureRefs(drawn')
    BY <2>6, FreshPicture
  <2>8. drawn \in 0..Len(FileNames) /\ drawn' \in 0..Len(FileNames) BY <2>6, <2>7, Fresh
  <2>9. Grows BY <1>1, <2>6, <2>8 DEF Grows, history
  <2>10. rows[o].picture \in PictureRefs(drawn') \cup {None}
    <3>1. rows[o].picture \in PictureRefs(drawn) \cup {None} BY DEF IInv, RowTypes
    <3> QED BY <2>9, <3>1, NamesKept
  <2>11. Uploading(j)' BY <2>3, <2>4, <2>5, <2>7, <2>10 DEF Uploading
  <2>12. Sound(j)' BY <2>4, <2>5, <2>11 DEF Sound, Uploads, StreamStages, Reads
  <2>13. Requests' BY <2>5, <2>9, <2>12, RequestsNext
  <2>14. RowTypes' BY <1>1, <2>9, RowTypesStay DEF IInv
  <2>15. Kept' BY <1>1, <2>9, KeptStays DEF IInv, history
  <2>16. Private' BY <1>1, <2>4, <2>5, <2>6, <2>7, BeginsPrivate DEF history
  <2>17. Pictured' BY <1>1, <2>4, <2>5, <2>6, <2>9, UploadPictured DEF history
  <2>18. ~Opened(j) /\ ~Opened(j)' /\ job'[j].at \notin StreamStages
    BY <1>1, <2>4, <2>5, FreeNotBegun DEF Opened, StreamStages
  <2>19. Tidy' BY <1>1, <2>5, <2>9, <2>18, TidyBegins DEF history
  <2>20. Stamped' BY <1>1, <2>9, StampedStays DEF IInv, history
  <2> QED BY <2>13, <2>14, <2>15, <2>16, <2>17, <2>19, <2>20 DEF IInv
<1> QED BY <1>2, <1>3

-----------------------------------------------------------------------------
(* A file appears under the name a request drew for it. *)

LEMMA Stores ==
  ASSUME IInv, NEW j \in Jobs, Begun(j), Unstored(j), NEW bytes, Whole(bytes), Keep(job[j].ref, bytes),
         UNCHANGED <<drawn, named, letGo>>
  PROVE  /\ Grows /\ Kept' /\ DOMAIN disk \subseteq DOMAIN disk' /\ Path(j) \in DOMAIN disk'
         /\ DOMAIN stored' = DOMAIN stored \cup {Path(j)} /\ stored'[Path(j)] = bytes
<1> DEFINE path == Path(j)
<1>1. job[j].ref \in NameRefs(drawn) /\ path \notin DOMAIN stored BY BegunRef DEF IInv, Private
<1>2. disk' = Insert(disk, path, bytes) /\ stored' = Insert(stored, path, bytes) BY DEF Keep, Path
<1>3. path = resolveAndVerify(job[j].ref) BY DEF Path
<1> HIDE DEF path
<1>4. /\ DOMAIN stored' = DOMAIN stored \cup {path} /\ stored'[path] = bytes
      /\ \A p \in DOMAIN stored : stored'[p] = stored[p]
  BY <1>1, <1>2 DEF Insert
<1>5. /\ DOMAIN disk' = DOMAIN disk \cup {path} /\ disk'[path] = bytes
      /\ \A p \in DOMAIN disk : p # path => disk'[p] = disk[p]
  BY <1>2 DEF Insert
<1>6. Grows BY <1>4 DEF Grows, IInv, RowTypes
<1>7. \A p \in DOMAIN disk : p # path BY <1>1 DEF IInv, Kept
<1>8. Kept'
  <2>1. \A p \in DOMAIN disk' : p \in DOMAIN stored' /\ disk'[p] = stored'[p]
    BY <1>4, <1>5, <1>7 DEF IInv, Kept
  <2>2. \A p \in DOMAIN stored' \ DOMAIN disk' : p \in Gone' BY <1>4, <1>5 DEF IInv, Kept, Gone
  <2>3. \A p \in DOMAIN Elsewhere : p \in DOMAIN disk' /\ disk'[p] = Elsewhere[p]
    BY <1>5, <1>7 DEF IInv, Kept
  <2>4. ASSUME NEW p \in DOMAIN stored' \ DOMAIN Elsewhere
        PROVE  Whole(stored'[p]) /\ \E ref \in NameRefs(drawn') : p = resolveAndVerify(ref)
    <3>1. CASE p = path BY <1>1, <1>3, <1>4, <3>1
    <3>2. CASE p # path BY <1>4, <3>2 DEF IInv, Kept
    <3> QED BY <3>1, <3>2
  <2> QED BY <2>1, <2>2, <2>3, <2>4 DEF Kept
<1> QED BY <1>4, <1>5, <1>6, <1>8 DEF path

(* It is nobody else's. *)
LEMMA StoresPrivate ==
  ASSUME IInv, NEW j \in Jobs, Begun(j), Moves(j), ~Unstored(j)', Begun(j)' => job'[j].ref = job[j].ref,
         DOMAIN stored' = DOMAIN stored \cup {Path(j)}
  PROVE  Private'
<1>1. ASSUME NEW i \in Jobs, i # j, Begun(i) PROVE NameOf(i) # NameOf(j) /\ Path(i) # Path(j)
  <2>1. NameOf(i) # NameOf(j) BY <1>1 DEF IInv, Private
  <2>2. job[i].ref \in NameRefs(drawn) /\ job[j].ref \in NameRefs(drawn) /\ drawn \in 0..Len(FileNames)
    BY <1>1, BegunRef DEF IInv, RowTypes
  <2>3. Path(i) # Path(j) BY <2>1, <2>2, NamesApart DEF Path, NameOf
  <2> QED BY <2>1, <2>3
<1>2. ASSUME NEW i \in Jobs, i # j
      PROVE  NameOf(i)' = NameOf(i) /\ Path(i)' = Path(i) /\ (Begun(i)' <=> Begun(i)) /\ (Unstored(i)' <=> Unstored(i))
  BY <1>2 DEF Moves, NameOf, Path, Begun, Unstored
<1>3. Begun(j)' => NameOf(j)' = NameOf(j) BY DEF NameOf
<1>4. ASSUME NEW k \in Jobs, Begun(k)'
      PROVE  /\ \A i \in Jobs : i # k /\ Begun(i)' => NameOf(i)' # NameOf(k)'
             /\ Unstored(k)' => Path(k)' \notin DOMAIN stored'
  <2>1. CASE k = j BY <1>1, <1>2, <1>3, <1>4, <2>1
  <2>2. CASE k # j
    <3>1. Begun(k) BY <1>2, <1>4, <2>2
    <3>2. \A i \in Jobs : i # k /\ Begun(i) => NameOf(i) # NameOf(k) BY <3>1 DEF IInv, Private
    <3>3. \A i \in Jobs : i # k /\ Begun(i)' => NameOf(i)' # NameOf(k)'
      BY <1>1, <1>2, <1>3, <2>2, <3>1, <3>2
    <3>4. Unstored(k) => Path(k) \notin DOMAIN stored BY <3>1 DEF IInv, Private
    <3> QED BY <1>1, <1>2, <2>2, <3>1, <3>3, <3>4
  <2> QED BY <2>1, <2>2
<1> QED BY <1>4 DEF Private

(* Files appear, and uploads go on or end. *)
LEMMA PicturedGrows ==
  ASSUME Pictured, Grows, UNCHANGED rows, DOMAIN disk \subseteq DOMAIN disk',
         \A i \in Jobs : job'[i].at \in Uploads =>
           /\ job[i].at \in Uploads /\ job'[i].ref = job[i].ref /\ job'[i].owner = job[i].owner
           /\ job'[i].old = job[i].old
           /\ job'[i].at = "recording" => job[i].at = "recording" \/ There(job[i].ref)',
         \A i \in Jobs : job'[i].at = "discarding" => job'[i] = job[i]
  PROVE  Pictured'
<1>1. \A ref : There(ref) => There(ref)' BY DEF There, exists, Lost, Grows
<1>2. \A ref : Lost(ref) => Lost(ref)' BY DEF Lost, Grows
<1>3. \A o \in Owners : rows'[o].picture # None => There(rows[o].picture)' BY <1>1 DEF Pictured
<1>4. ASSUME NEW j \in Jobs, job'[j].at \in Uploads
      PROVE  /\ job'[j].at = "recording" => There(job[j].ref)'
             /\ \A o \in Owners : rows'[o].picture # job'[j].ref
             /\ \A o \in Owners : rows'[o].picture = job'[j].old => o = job'[j].owner \/ job'[j].old = None
             /\ \A i \in Jobs : job'[i].at \in Uploads => job'[i].old # job'[j].ref
  <2>1. job'[j].at = "recording" => There(job[j].ref)' BY <1>1, <1>4 DEF Pictured
  <2> QED BY <1>4, <2>1 DEF Pictured
<1>5. ASSUME NEW j \in Jobs, job'[j].at = "discarding", ~Lost(job[j].ref)'
      PROVE  /\ job'[j].ref \in PictureRefs(drawn')
             /\ \A o \in Owners : rows'[o].picture # job'[j].ref
             /\ \A i \in Jobs : job'[i].at \in Uploads => job'[i].ref # job'[j].ref
  <2>1. job'[j] = job[j] /\ ~Lost(job[j].ref) BY <1>2, <1>5
  <2> QED BY <1>5, <2>1, NamesKept DEF Pictured
<1>6. \A p, q \in Owners : rows'[p].picture = rows'[q].picture => p = q \/ rows'[p].picture = None
  BY DEF Pictured
<1>7. \A j \in Jobs : job'[j].at = "recording" => job'[j].ref = job[j].ref BY DEF Uploads
<1> QED BY <1>3, <1>4, <1>5, <1>6, <1>7 DEF Pictured

LEMMA WriteIInv == ASSUME IInv, NEW j \in Jobs, write(j) PROVE IInv'
<1>1. /\ job[j].at = "writing" /\ UNCHANGED <<temps, rows, artifacts, drawn, clock, held, named, letGo, smooth, left>>
  BY DEF write
<1>2. Begun(j) /\ Unstored(j) /\ Uploading(j) /\ ~Opened(j)
  BY <1>1 DEF Begun, Unstored, Opened, Uploads, StreamStages, IInv, Requests, Sound
<1>3. CASE Keep(job[j].ref, job[j].bytes) /\ Waits(j, "recording")
  <2> DEFINE to == [job[j] EXCEPT !.at = "recording"]
  <2>1. /\ DOMAIN to = DOMAIN job[j] /\ to.at = "recording" /\ to.owner = job[j].owner /\ to.bytes = job[j].bytes
        /\ to.ref = job[j].ref /\ to.old = job[j].old
    BY <1>2 DEF Uploading
  <2>2. Goes(j, to) BY <1>3 DEF Waits
  <2> HIDE DEF to
  <2>3. Moves(j) /\ job'[j] = to BY <2>2, GoesMoves DEF IInv
  <2>4. Whole(job[j].bytes) BY <1>2 DEF Uploading
  <2>5. /\ Grows /\ Kept' /\ DOMAIN disk \subseteq DOMAIN disk' /\ Path(j) \in DOMAIN disk'
        /\ DOMAIN stored' = DOMAIN stored \cup {Path(j)}
    BY <1>1, <1>2, <1>3, <2>4, Stores
  <2>6. Path(j)' = Path(j) BY <2>1, <2>3 DEF Path
  <2>7. Uploading(j)' BY <1>1, <1>2, <2>1, <2>3, <2>5, <2>6 DEF Uploading
  <2>8. Sound(j)' BY <2>1, <2>3, <2>7 DEF Sound, Uploads, StreamStages, Reads
  <2>9. Requests' BY <2>3, <2>5, <2>8, RequestsNext
  <2>10. RowTypes' BY <1>1, <2>5, RowTypesStay DEF IInv
  <2>11. ~Unstored(j)' /\ job'[j].ref = job[j].ref BY <2>1, <2>3 DEF Unstored
  <2>12. Private' BY <1>2, <2>3, <2>5, <2>11, StoresPrivate
  <2>13. Pictured'
    <3>1. There(job[j].ref)' BY <2>5, <2>11 DEF There, exists, Path
    <3>2. ASSUME NEW i \in Jobs, job'[i].at \in Uploads
          PROVE  /\ job[i].at \in Uploads /\ job'[i].ref = job[i].ref /\ job'[i].owner = job[i].owner
                 /\ job'[i].old = job[i].old
                 /\ job'[i].at = "recording" => job[i].at = "recording" \/ There(job[i].ref)'
      <4>1. CASE i = j BY <1>1, <2>1, <2>3, <3>1, <4>1 DEF Uploads
      <4>2. CASE i # j
        <5>1. job'[i] = job[i] BY <2>3, <4>2 DEF Moves
        <5> QED BY <3>2, <5>1
      <4> QED BY <4>1, <4>2
    <3>3. \A i \in Jobs : job'[i].at = "discarding" => job'[i] = job[i] BY <2>1, <2>3 DEF Moves
    <3> QED BY <1>1, <2>5, <3>2, <3>3, PicturedGrows DEF IInv
  <2>14. ~Opened(j)' /\ job'[j].at \notin StreamStages BY <2>1, <2>3 DEF Opened, StreamStages
  <2>15. Tidy' BY <1>1, <1>2, <2>3, <2>5, <2>14, TidyBegins
  <2>16. Stamped' BY <1>1, <2>5, StampedStays DEF IInv
  <2> QED BY <2>5, <2>9, <2>10, <2>12, <2>13, <2>15, <2>16 DEF IInv
<1>4. CASE Ends(j) /\ UNCHANGED <<disk, stored>>
  <2>1. Moves(j) /\ job'[j] = Idle BY <1>4, GoesMoves DEF Ends, IInv
  <2>2. job'[j].at = "idle" BY <2>1 DEF Idle
  <2>3. Grows BY <1>1, <1>4 DEF Grows, IInv, RowTypes
  <2>4. Requests' BY <2>1, <2>3, IdleSound, RequestsNext
  <2>5. RowTypes' BY <1>1, <2>3, RowTypesStay DEF IInv
  <2>6. Kept' BY <1>4, <2>3, KeptStays DEF IInv
  <2>7. \A i \in Jobs : Calm(i) BY <2>1, <2>2 DEF Moves, Calm, Begun, Unstored, Uploads, StreamStages
  <2>8. Private' BY <1>4, <2>7, PrivateStays DEF IInv
  <2>9. Pictured' BY <1>1, <1>4, <2>1, <2>2, <2>3, PicturedStays DEF IInv, Moves, Uploads
  <2>10. ~Opened(j)' /\ job'[j].at \notin StreamStages BY <2>2 DEF Opened, StreamStages
  <2>11. Tidy' BY <1>1, <1>2, <2>1, <2>3, <2>10, TidyBegins
  <2>12. Stamped' BY <1>1, <2>3, StampedStays DEF IInv
  <2> QED BY <2>4, <2>5, <2>6, <2>8, <2>9, <2>11, <2>12 DEF IInv
<1> QED BY <1>3, <1>4 DEF write

-----------------------------------------------------------------------------
(* A row names another picture, or none, and gives up the one it named. *)

(* The time of a row and what an owner had are noted. *)
LEMMA NamesNoted ==
  ASSUME IInv, NEW o \in Owners, NEW ref \in PictureRefs(drawn) \cup {None}, NEW now \in Nat,
         Names(o, ref, now), clock' \in Nat, letGo \subseteq letGo',
         ref # None => resolveAndVerify(ref) \in DOMAIN stored,
         UNCHANGED <<artifacts, drawn, held, stored>>
  PROVE  /\ Grows /\ RowTypes' /\ Stamped' /\ rows'[o].picture = ref
         /\ \A p \in Owners : p # o => rows'[p] = rows[p]
<1> DEFINE row == [picture |-> ref, stamp |-> now]
           one == [owner |-> o, stamp |-> now, path |-> resolveAndVerify(ref)]
<1>1. row \in [picture : PictureRefs(drawn) \cup {None}, stamp : Nat] /\ row.picture = ref /\ row.stamp = now
  OBVIOUS
<1>2. rows' = [rows EXCEPT ![o] = row] /\ named' = IF ref = None THEN named ELSE named \cup {one} BY DEF Names
<1>3. one.owner = o /\ one.stamp = now /\ one.path = resolveAndVerify(ref) OBVIOUS
<1> HIDE DEF row, one
<1>4. rows \in [Owners -> [picture : PictureRefs(drawn) \cup {None}, stamp : Nat]] BY DEF IInv, RowTypes
<1>5. rows' \in [Owners -> [picture : PictureRefs(drawn) \cup {None}, stamp : Nat]] BY <1>1, <1>2, <1>4
<1>6. rows'[o] = row /\ \A p \in Owners : p # o => rows'[p] = rows[p] BY <1>2, <1>4
<1>7. Grows BY <1>2 DEF Grows, IInv, RowTypes
<1>8. RowTypes' BY <1>5 DEF IInv, RowTypes
<1>9. Stamped'
  <2>1. \A two \in named' : two.path \in DOMAIN stored' BY <1>2, <1>3 DEF IInv, Stamped
  <2>2. ASSUME NEW p \in Owners, rows'[p].picture # None PROVE Noted(p, rows[p].stamp, rows[p].picture)'
    <3>1. CASE p = o
      <4>1. one \in named' BY <1>1, <1>2, <1>6, <2>2, <3>1
      <4> QED BY <1>1, <1>3, <1>6, <3>1, <4>1 DEF Noted
    <3>2. CASE p # o
      <4>1. rows'[p] = rows[p] BY <1>6, <3>2
      <4>2. Noted(p, rows[p].stamp, rows[p].picture) BY <2>2, <4>1 DEF IInv, Stamped
      <4> QED BY <1>7, <4>1, <4>2 DEF Noted, Grows
    <3> QED BY <3>1, <3>2
  <2>3. ASSUME NEW p \in Owners PROVE Has(p, held[p].tags, held[p].bytes)'
    <3>1. Has(p, held[p].tags, held[p].bytes) BY DEF IInv, Stamped
    <3> QED BY <1>7, <3>1 DEF Has, Grows
  <2> QED BY <2>1, <2>2, <2>3 DEF Stamped
<1> QED BY <1>1, <1>6, <1>7, <1>8, <1>9

(* What a row gave up is discarded next. *)
LEMMA GivesUpGone ==
  ASSUME IInv, NEW j \in Jobs, NEW who, NEW ref \in AnyReference \cup {None}, GivesUp(j, who, ref)
  PROVE  /\ Moves(j) /\ letGo \subseteq letGo' /\ Sound(j)'
         /\ \/ ref = None /\ job'[j] = Idle /\ job'[j].at = "idle"
            \/ /\ ref # None /\ job'[j].at = "discarding" /\ job'[j].ref = ref
               /\ <<who, resolveAndVerify(ref)>> \in letGo'
<1>1. CASE ref = None
  <2>1. Goes(j, Idle) /\ UNCHANGED letGo BY <1>1 DEF GivesUp, Ends
  <2>2. Moves(j) /\ job'[j] = Idle BY <2>1, GoesMoves DEF IInv
  <2> QED BY <1>1, <2>1, <2>2, IdleSound DEF Idle
<1>2. CASE ref # None
  <2> DEFINE to == [at |-> "discarding", ref |-> ref]
             gone == <<who, resolveAndVerify(ref)>>
  <2>1. Goes(j, to) /\ letGo' = letGo \cup {gone} BY <1>2 DEF GivesUp
  <2>2. to.at = "discarding" /\ to.ref = ref /\ to = [at |-> "discarding", ref |-> to.ref]
        /\ gone[2] = resolveAndVerify(ref)
    OBVIOUS
  <2> HIDE DEF to
  <2>3. Moves(j) /\ job'[j] = to BY <2>1, GoesMoves DEF IInv
  <2>4. gone \in letGo' BY <2>1
  <2>5. Path(j)' \in Gone'
    <3> HIDE DEF gone
    <3> QED BY <2>2, <2>3, <2>4 DEF Path, Gone
  <2>6. Discarding(j)' BY <1>2, <2>2, <2>3, <2>5 DEF Discarding
  <2>7. Sound(j)' BY <2>2, <2>3, <2>6 DEF Sound, Uploads, StreamStages, Reads
  <2> QED BY <1>2, <2>1, <2>2, <2>3, <2>4, <2>7
<1> QED BY <1>1, <1>2

(* No other row has the new picture, no upload replaces it and nobody is   *)
(* discarding it; the old one was this row's alone.                        *)
LEMMA ReplacesPictured ==
  ASSUME IInv, Grows, NEW j \in Jobs, Moves(j), NEW o \in Owners, NEW new, NEW old,
         UNCHANGED <<disk, drawn>>,
         rows'[o].picture = new, \A p \in Owners : p # o => rows'[p] = rows[p],
         job'[j].at = "idle" \/ (job'[j].at = "discarding" /\ job'[j].ref = old /\ old # None),
         old \in PictureRefs(drawn) \cup {None}, old # new \/ old = None,
         new # None => There(new),
         \A p \in Owners : rows[p].picture # new \/ new = None,
         \A p \in Owners : p # o => rows[p].picture # old \/ old = None,
         \A i \in Jobs : i # j /\ job[i].at \in Uploads =>
           job[i].ref # new /\ (job[i].old # new \/ new = None) /\ (job[i].ref # old \/ old = None),
         \A i \in Jobs : i # j /\ job[i].at = "discarding" /\ ~Lost(job[i].ref) => job[i].ref # new
  PROVE  Pictured'
<1>1. \A ref : There(ref) => There(ref)' BY DEF There, exists, Lost, Grows
<1>2. \A ref : Lost(ref) => Lost(ref)' BY DEF Lost, Grows
<1>3. ASSUME NEW i \in Jobs, i # j PROVE job'[i] = job[i] BY <1>3 DEF Moves
<1>4. ASSUME NEW p \in Owners, rows'[p].picture # None PROVE There(rows[p].picture)'
  <2>1. CASE p = o
    <3>1. rows'[p].picture = new /\ There(new) BY <1>4, <2>1
    <3>2. There(new)' BY <1>1, <3>1
    <3> QED BY <3>1, <3>2 DEF There, exists, Lost
  <2>2. CASE p # o
    <3>1. rows'[p].picture = rows[p].picture /\ There(rows[p].picture) BY <1>4, <2>2 DEF IInv, Pictured
    <3> QED BY <1>1, <3>1 DEF There, exists, Lost, Grows
  <2> QED BY <2>1, <2>2
<1>5. \A p, q \in Owners : rows'[p].picture = rows'[q].picture => p = q \/ rows'[p].picture = None
  BY DEF IInv, Pictured
<1>6. j \notin {i \in Jobs : job'[i].at \in Uploads} BY DEF Uploads
<1>7. ASSUME NEW k \in Jobs, job'[k].at \in Uploads
      PROVE  /\ job'[k].at = "recording" => There(job[k].ref)'
             /\ \A p \in Owners : rows'[p].picture # job'[k].ref
             /\ \A p \in Owners : rows'[p].picture = job'[k].old => p = job'[k].owner \/ job'[k].old = None
             /\ \A i \in Jobs : job'[i].at \in Uploads => job'[i].old # job'[k].ref
  <2>1. k # j /\ job'[k] = job[k] BY <1>3, <1>6, <1>7
  <2>2. /\ job[k].at = "recording" => There(job[k].ref)
        /\ \A p \in Owners : rows[p].picture # job[k].ref
        /\ \A p \in Owners : rows[p].picture = job[k].old => p = job[k].owner \/ job[k].old = None
        /\ \A i \in Jobs : job[i].at \in Uploads => job[i].old # job[k].ref
    BY <1>7, <2>1 DEF IInv, Pictured
  <2>3. job'[k].at = "recording" => There(job[k].ref)' BY <2>1, <2>2 DEF There, exists, Lost, Grows
  <2>4. ASSUME NEW p \in Owners
        PROVE  /\ rows'[p].picture # job'[k].ref
               /\ rows'[p].picture = job'[k].old => p = job'[k].owner \/ job'[k].old = None
    <3>1. CASE p = o BY <1>7, <2>1, <3>1
    <3>2. CASE p # o BY <2>1, <2>2, <3>2
    <3> QED BY <3>1, <3>2
  <2>5. \A i \in Jobs : job'[i].at \in Uploads => job'[i].old # job'[k].ref
    BY <1>3, <1>6, <2>1, <2>2
  <2> QED BY <2>3, <2>4, <2>5
<1>8. ASSUME NEW k \in Jobs, job'[k].at = "discarding", ~Lost(job[k].ref)'
      PROVE  /\ job'[k].ref \in PictureRefs(drawn')
             /\ \A p \in Owners : rows'[p].picture # job'[k].ref
             /\ \A i \in Jobs : job'[i].at \in Uploads => job'[i].ref # job'[k].ref
  <2>1. CASE k = j
    <3>1. job'[k].ref = old /\ old # None BY <1>8, <2>1
    <3>2. \A p \in Owners : rows'[p].picture # old BY <3>1
    <3>3. \A i \in Jobs : job'[i].at \in Uploads => job'[i].ref # old BY <1>3, <1>6, <3>1
    <3> QED BY <3>1, <3>2, <3>3
  <2>2. CASE k # j
    <3>1. job'[k] = job[k] BY <1>3, <2>2
    <3>2. ~Lost(job[k].ref) BY <1>8, <3>1 DEF Lost, Grows
    <3>3. /\ job[k].ref \in PictureRefs(drawn)
          /\ \A p \in Owners : rows[p].picture # job[k].ref
          /\ \A i \in Jobs : job[i].at \in Uploads => job[i].ref # job[k].ref
      BY <1>8, <3>1, <3>2 DEF IInv, Pictured
    <3>4. job[k].ref # new BY <1>8, <2>2, <3>1, <3>2
    <3>5. \A p \in Owners : rows'[p].picture # job[k].ref BY <3>3, <3>4
    <3>6. \A i \in Jobs : job'[i].at \in Uploads => job'[i].ref # job[k].ref BY <1>3, <1>6, <3>3
    <3> QED BY <3>1, <3>3, <3>5, <3>6
  <2> QED BY <2>1, <2>2
<1> QED BY <1>4, <1>5, <1>7, <1>8 DEF Pictured

LEMMA PictureRefType ==
  ASSUME IInv, NEW ref \in PictureRefs(drawn)
  PROVE  ref \in AnyReference /\ ref # None /\ ref \in NameRefs(drawn)
<1>1. drawn \in 0..Len(FileNames) BY DEF IInv, RowTypes
<1>2. ref \in NameRefs(drawn) BY <1>1, NamesGrow
<1> QED BY <1>1, <1>2, NamesApart, FilesAssumption

LEMMA ClockGoes ==
  ASSUME IInv, Now
  PROVE  clock' \in Nat
BY DEF IInv, RowTypes, Now

(* A request with no stream of its own that is still one, or has ended. *)
LEMMA Replacing ==
  ASSUME IInv, Grows, NEW j \in Jobs, Moves(j), Sound(j)', RowTypes', Stamped', Pictured',
         job[j].at \in {"idle", "answered", "recording"}, job'[j].at \in {"idle", "discarding"},
         UNCHANGED <<disk, temps, stored, smooth, left>>
  PROVE  IInv'
<1>1. Requests' BY RequestsNext
<1>2. Kept' BY KeptStays DEF IInv
<1>3. \A i \in Jobs : Calm(i) BY DEF Moves, Calm, Begun, Unstored, Uploads, StreamStages
<1>4. Private' BY <1>3, PrivateStays DEF IInv
<1>5. ~Opened(j) /\ ~Opened(j)' /\ job'[j].at \notin StreamStages BY DEF Opened, StreamStages
<1>6. Tidy' BY <1>5, TidyBegins
<1> QED BY <1>1, <1>2, <1>4, <1>6 DEF IInv

LEMMA RecordPictureIInv == ASSUME IInv, NEW j \in Jobs, recordPicture(j) PROVE IInv'
<1> DEFINE o == job[j].owner
           new == job[j].ref
           old == job[j].old
<1>1. /\ job[j].at = "recording" /\ Now /\ Names(o, new, clock') /\ GivesUp(j, o, old)
      /\ UNCHANGED <<disk, temps, artifacts, drawn, held, stored, smooth, left>>
  BY DEF recordPicture
<1>2. Uploading(j) /\ job[j].at \in Uploads BY <1>1 DEF IInv, Requests, Sound, Uploads
<1>3. /\ o \in Owners /\ new \in PictureRefs(drawn) /\ old \in PictureRefs(drawn) \cup {None}
      /\ resolveAndVerify(new) \in DOMAIN stored
  BY <1>1, <1>2 DEF Uploading, Path
<1>4. /\ There(new) /\ \A p \in Owners : rows[p].picture # new
      /\ \A p \in Owners : rows[p].picture = old => p = o \/ old = None
      /\ \A i \in Jobs : job[i].at \in Uploads => job[i].old # new /\ job[i].ref # old
  BY <1>1, <1>2 DEF IInv, Pictured
<1>5. \A i \in Jobs : i # j /\ job[i].at \in Uploads => job[i].ref # new
  <2>1. ASSUME NEW i \in Jobs, i # j, job[i].at \in Uploads PROVE job[i].ref # new
    <3>1. Begun(i) /\ Begun(j) BY <1>2, <2>1 DEF Begun
    <3>2. NameOf(i) # NameOf(j) BY <2>1, <3>1 DEF IInv, Private
    <3> QED BY <3>2 DEF NameOf
  <2> QED BY <2>1
<1>6. \A i \in Jobs : job[i].at = "discarding" /\ ~Lost(job[i].ref) => job[i].ref # new
  BY <1>2 DEF IInv, Pictured
<1> HIDE DEF o, new, old
<1>7. new # None /\ old \in AnyReference \cup {None} BY <1>3, PictureRefType
<1>8. /\ Moves(j) /\ letGo \subseteq letGo' /\ Sound(j)'
      /\ \/ old = None /\ job'[j].at = "idle"
         \/ old # None /\ job'[j].at = "discarding" /\ job'[j].ref = old
  BY <1>1, <1>7, GivesUpGone
<1>9. clock' \in Nat BY <1>1, ClockGoes
<1>10. /\ Grows /\ RowTypes' /\ Stamped' /\ rows'[o].picture = new
       /\ \A p \in Owners : p # o => rows'[p] = rows[p]
  BY <1>1, <1>3, <1>8, <1>9, NamesNoted
<1>11. old # new BY <1>2, <1>4 DEF old, new
<1>12. Pictured' BY <1>1, <1>3, <1>4, <1>5, <1>6, <1>8, <1>10, <1>11, ReplacesPictured
<1> QED BY <1>1, <1>8, <1>10, <1>12, Replacing

LEMMA DeletePictureIInv ==
  ASSUME IInv, NEW j \in Jobs, NEW o \in Owners, deletePicture(j, o)
  PROVE  IInv'
<1>1. Free(j) /\ UNCHANGED <<disk, temps, artifacts, drawn, held, stored, smooth, left>> BY DEF deletePicture
<1>2. CASE rows[o].picture = None
  <2>1. Ends(j) /\ UNCHANGED <<rows, clock, named, letGo>> BY <1>2 DEF deletePicture
  <2> QED BY <1>1, <2>1, EndsAtOnce DEF history
<1>3. CASE rows[o].picture # None
  <2> DEFINE old == rows[o].picture
             now == IF o = Profile THEN 0 ELSE clock'
  <2>1. Now /\ Names(o, None, now) /\ GivesUp(j, o, old) BY <1>3 DEF deletePicture
  <2>2. old \in PictureRefs(drawn) BY <1>3 DEF IInv, RowTypes
  <2>3. \A p \in Owners : p # o => rows[p].picture # old BY <1>3 DEF IInv, Pictured
  <2>4. \A i \in Jobs : job[i].at \in Uploads => job[i].ref # old BY DEF IInv, Pictured
  <2>5. \A i \in Jobs : job[i].at \in Uploads => job[i].ref # None
    <3>1. \A i \in Jobs : job[i].at \in Uploads => job[i].ref \in PictureRefs(drawn)
      BY DEF IInv, Requests, Sound, Uploading
    <3> QED BY <3>1, PictureRefType
  <2>6. \A i \in Jobs : job[i].at = "discarding" /\ ~Lost(job[i].ref) => job[i].ref # None
    <3>1. \A i \in Jobs : job[i].at = "discarding" => job[i].ref \in AnyReference
      BY DEF IInv, Requests, Sound, Discarding
    <3> QED BY <3>1, FilesAssumption
  <2> HIDE DEF old
  <2>7. old # None /\ old \in AnyReference BY <2>2, PictureRefType
  <2>8. clock' \in Nat /\ now \in Nat BY <2>1, ClockGoes
  <2> HIDE DEF now
  <2>9. /\ Moves(j) /\ letGo \subseteq letGo' /\ Sound(j)'
        /\ job'[j].at = "discarding" /\ job'[j].ref = old
    BY <2>1, <2>7, GivesUpGone
  <2>10. /\ Grows /\ RowTypes' /\ Stamped' /\ rows'[o].picture = None
         /\ \A p \in Owners : p # o => rows'[p] = rows[p]
    <3> DEFINE ref == None
    <3>1. Names(o, ref, now) /\ ref \in PictureRefs(drawn) \cup {None} /\ ref = None BY <2>1
    <3> HIDE DEF ref
    <3>2. /\ Grows /\ RowTypes' /\ Stamped' /\ rows'[o].picture = ref
          /\ \A p \in Owners : p # o => rows'[p] = rows[p]
      BY <1>1, <2>8, <2>9, <3>1, NamesNoted
    <3> QED BY <3>1, <3>2
  <2>11. Pictured' BY <1>1, <2>2, <2>3, <2>4, <2>5, <2>6, <2>7, <2>9, <2>10, ReplacesPictured
  <2>12. job[j].at \in {"idle", "answered", "recording"} BY <1>1 DEF Free
  <2> QED BY <1>1, <2>9, <2>10, <2>11, <2>12, Replacing
<1> QED BY <1>2, <1>3

(* Nobody takes a step but the clock. *)
LEMMA NobodyMoves ==
  ASSUME IInv, Grows, UNCHANGED job
  PROVE  Requests'
<1>1. ASSUME NEW i \in Jobs PROVE Sound(i)' BY SoundStays DEF IInv, Requests
<1> QED BY <1>1 DEF IInv, Requests

LEMMA EditAgentIInv == ASSUME IInv, NEW o \in Owners, editAgent(o) PROVE IInv'
<1> DEFINE ref == rows[o].picture
<1>1. /\ Now /\ Names(o, ref, clock')
      /\ UNCHANGED <<disk, temps, artifacts, job, drawn, held, stored, letGo, smooth, left>>
  BY DEF editAgent
<1>2. clock' \in Nat BY <1>1, ClockGoes
<1>3. ref \in PictureRefs(drawn) \cup {None} BY DEF IInv, RowTypes
<1>4. ref # None => resolveAndVerify(ref) \in DOMAIN stored BY DEF IInv, Stamped, Noted
<1> HIDE DEF ref
<1>5. /\ Grows /\ RowTypes' /\ Stamped' /\ rows'[o].picture = ref
      /\ \A p \in Owners : p # o => rows'[p] = rows[p]
  BY <1>1, <1>2, <1>3, <1>4, NamesNoted
<1>6. \A p \in Owners : rows'[p].picture = rows[p].picture BY <1>5 DEF ref
<1>7. Requests' BY <1>1, <1>5, NobodyMoves
<1>8. Kept' BY <1>1, <1>5, KeptStays DEF IInv
<1>9. Private' BY <1>1 DEF IInv, Private, Begun, Unstored, NameOf, Path
<1>10. Pictured' BY <1>1, <1>6 DEF IInv, Pictured, There, exists, Lost
<1>11. Tidy' BY <1>1, <1>5, TidyWaits DEF IInv
<1> QED BY <1>5, <1>7, <1>8, <1>9, <1>10, <1>11 DEF IInv

-----------------------------------------------------------------------------
(* Streams. *)

LEMMA StreamTyped ==
  ASSUME IInv, NEW j \in Jobs, job[j].at \in StreamStages
  PROVE  Streaming(j) /\ Begun(j) /\ job[j].ref \in NameRefs(drawn)
BY DEF IInv, Requests, Sound, Streaming, Begun

(* A record with some fields changed. *)
LEMMA WaitsAt ==
  ASSUME IInv, NEW j \in Jobs, job[j].at \in StreamStages, NEW place, Waits(j, place)
  PROVE  /\ Moves(j) /\ job'[j].at = place /\ DOMAIN job'[j] = DOMAIN job[j]
         /\ job'[j].bytes = job[j].bytes /\ job'[j].name = job[j].name /\ job'[j].total = job[j].total
         /\ job'[j].opened = job[j].opened /\ job'[j].paused = job[j].paused /\ job'[j].ref = job[j].ref
<1> DEFINE to == [job[j] EXCEPT !.at = place]
<1>1. Streaming(j) BY StreamTyped
<1>2. /\ to.at = place /\ DOMAIN to = DOMAIN job[j]
      /\ to.bytes = job[j].bytes /\ to.name = job[j].name /\ to.total = job[j].total
      /\ to.opened = job[j].opened /\ to.paused = job[j].paused /\ to.ref = job[j].ref
  BY <1>1 DEF Streaming
<1>3. Goes(j, to) BY DEF Waits
<1> HIDE DEF to
<1>4. Moves(j) /\ job'[j] = to BY <1>3, GoesMoves DEF IInv
<1> QED BY <1>2, <1>4

LEMMA WriteStreamIInv ==
  ASSUME IInv, NEW j \in Jobs, NEW bytes \in Streamed, NEW bucket \in Buckets, WriteStream(j, bytes, bucket)
  PROVE  IInv'
<1>1. Free(j) /\ UNCHANGED <<disk, temps, rows, artifacts, clock, held, history>> BY DEF WriteStream
<1>2. CASE ~assertValidBucket(bucket)
  <2>1. Ends(j) /\ UNCHANGED drawn BY <1>2 DEF WriteStream
  <2> QED BY <1>1, <2>1, EndsAtOnce
<1>3. CASE assertValidBucket(bucket)
  <2> DEFINE b == Head(bucket.segs)
             to == [at |-> "streaming", bytes |-> bytes, name |-> Drawn, total |-> 0,
                    opened |-> FALSE, paused |-> FALSE, ref |-> Reference(b, Drawn)]
  <2>1. Draws /\ Goes(j, to) BY <1>3 DEF WriteStream
  <2>2. b \in BucketNames BY <1>3 DEF BucketNames
  <2> HIDE DEF b
  <2>3. /\ DOMAIN to = {"at", "bytes", "name", "total", "opened", "paused", "ref"} /\ to.at = "streaming"
        /\ to.bytes = bytes /\ to.name = Drawn /\ to.total = 0 /\ to.opened = FALSE
        /\ to.ref = Reference(b, Drawn)
    OBVIOUS
  <2> HIDE DEF to
  <2>4. Moves(j) /\ job'[j] = to BY <2>1, GoesMoves DEF IInv
  <2>5. drawn < Len(FileNames) /\ drawn' = drawn + 1 BY <2>1 DEF Draws
  <2>6. /\ drawn \in 0..Len(FileNames) /\ drawn' \in 0..Len(FileNames)
        /\ Reference(b, Drawn) \in NameRefs(drawn') /\ Reference(b, Drawn).segs[2] = Drawn
        /\ \A s \in NameRefs(drawn) : s.segs[2] # Drawn
    BY <2>2, <2>5, Fresh
  <2>7. Grows BY <1>1, <2>5, <2>6 DEF Grows, history
  <2>8. NameOf(j)' = Drawn BY <2>3, <2>4, <2>6 DEF NameOf
  <2>9. Streaming(j)'
    <3>1. /\ job'[j].opened = FALSE /\ job'[j].at # "renaming" /\ job'[j].total \in Nat /\ job'[j].total <= MaxBytes
          /\ job'[j].bytes \in Streamed /\ job'[j].ref \in NameRefs(drawn') /\ job'[j].name = Drawn
          /\ DOMAIN job'[j] = {"at", "bytes", "name", "total", "opened", "paused", "ref"}
      BY <2>3, <2>4, <2>6, FilesAssumption
    <3> QED BY Zenon, <2>8, <3>1 DEF Streaming
  <2>10. Sound(j)' BY <2>3, <2>4, <2>9 DEF Sound, Uploads, StreamStages, Reads
  <2>11. Requests' BY <2>4, <2>7, <2>10, RequestsNext
  <2>12. RowTypes' BY <1>1, <2>7, RowTypesStay DEF IInv
  <2>13. Kept' BY <1>1, <2>7, KeptStays DEF IInv, history
  <2>14. Private' BY <1>1, <2>2, <2>3, <2>4, <2>5, BeginsPrivate DEF history
  <2>15. Pictured' BY <1>1, <2>3, <2>4, <2>7, PicturedStays DEF IInv, Moves, Uploads
  <2>16. ~Opened(j) /\ ~Opened(j)' BY <1>1, <2>3, <2>4, FreeNotBegun DEF Opened
  <2>17. Tidy'
    <3>1. job'[j].name \notin left BY <2>3, <2>4, <2>6 DEF IInv, Tidy, LeftBehind
    <3> QED BY <1>1, <2>4, <2>7, <2>16, <3>1, TidyBegins DEF history
  <2>18. Stamped' BY <1>1, <2>7, StampedStays DEF IInv, history
  <2> QED BY <2>11, <2>12, <2>13, <2>14, <2>15, <2>17, <2>18 DEF IInv
<1> QED BY <1>2, <1>3

(* A stream keeps its bytes and its name from wait to wait. *)
LEMMA StillStreaming ==
  ASSUME NEW j, Streaming(j), UNCHANGED drawn, DOMAIN job'[j] = DOMAIN job[j],
         job'[j].bytes = job[j].bytes, job'[j].name = job[j].name, job'[j].ref = job[j].ref,
         job'[j].opened \in BOOLEAN, job'[j].total \in Nat, job'[j].total <= MaxBytes,
         job'[j].at = "renaming" => job'[j].opened /\ job'[j].total = job'[j].bytes.size /\ Whole(job'[j].bytes)
  PROVE  Streaming(j)'
<1>1. NameOf(j)' = NameOf(j) BY DEF NameOf
<1>2. /\ DOMAIN job[j] = {"at", "bytes", "name", "total", "opened", "paused", "ref"}
      /\ job[j].bytes \in Streamed /\ job[j].ref \in NameRefs(drawn) /\ job[j].name = NameOf(j)
  BY DEF Streaming
<1>3. NameRefs(drawn)' = NameRefs(drawn) BY DEF NameRefs
<1>4. Whole(job[j].bytes)' = Whole(job'[j].bytes) BY DEF Whole
<1> QED BY Zenon, <1>1, <1>2, <1>3, <1>4 DEF Streaming

LEMMA RefusesIInv ==
  ASSUME IInv, NEW j \in Jobs, job[j].at \in StreamStages, Refuses(j),
         UNCHANGED <<disk, temps, rows, artifacts, drawn, clock, held, history>>
  PROVE  IInv'
<1>1. Streaming(j) BY StreamTyped
<1>2. /\ Moves(j) /\ job'[j].at = "refused" /\ DOMAIN job'[j] = DOMAIN job[j]
      /\ job'[j].bytes = job[j].bytes /\ job'[j].name = job[j].name /\ job'[j].total = job[j].total
      /\ job'[j].opened = job[j].opened /\ job'[j].ref = job[j].ref
  BY WaitsAt DEF Refuses
<1>3. /\ job'[j].at # "renaming" /\ job'[j].opened \in BOOLEAN
      /\ job'[j].total \in Nat /\ job'[j].total <= MaxBytes
  BY <1>1, <1>2 DEF Streaming
<1>4. Streaming(j)' BY <1>1, <1>2, <1>3, StillStreaming
<1>5. job'[j].at \in StreamStages /\ ~Unstored(j)' BY <1>2 DEF StreamStages, Unstored
<1> QED BY <1>2, <1>4, <1>5, StreamGoesOn

LEMMA DataIInv == ASSUME IInv, NEW j \in Jobs, Data(j) PROVE IInv'
<1> DEFINE total == job[j].total + 1
<1>1. /\ job[j].at = "streaming" /\ UNCHANGED <<disk, temps, rows, artifacts, drawn, clock, held, history>>
      /\ job[j].at \in StreamStages
  BY Zenon DEF Data, StreamStages
<1>2. Streaming(j) BY <1>1, StreamTyped
<1>3. CASE total > MaxBytes
  <2>1. Refuses(j) BY <1>3, Zenon DEF Data
  <2> QED BY <1>1, <2>1, RefusesIInv
<1>4. CASE ~(total > MaxBytes)
  <2>1. PICK full \in BOOLEAN : Goes(j, [job[j] EXCEPT !.total = total, !.paused = full])
    BY <1>4, Zenon DEF Data
  <2>2. total \in Nat /\ total <= MaxBytes BY <1>2, <1>4, FilesAssumption DEF Streaming
  <2> HIDE DEF total
  <2> DEFINE to == [job[j] EXCEPT !.total = total, !.paused = full]
  <2>3. /\ to.at = "streaming" /\ DOMAIN to = DOMAIN job[j] /\ to.total = total
        /\ to.bytes = job[j].bytes /\ to.name = job[j].name /\ to.opened = job[j].opened /\ to.ref = job[j].ref
    BY <1>1, <1>2 DEF Streaming
  <2>4. Goes(j, to) BY <2>1
  <2> HIDE DEF to
  <2>5. Moves(j) /\ job'[j] = to BY <2>4, GoesMoves DEF IInv
  <2>6. job'[j].at # "renaming" /\ job'[j].opened \in BOOLEAN BY <1>2, <2>3, <2>5 DEF Streaming
  <2>7. Streaming(j)' BY <1>1, <1>2, <2>2, <2>3, <2>5, <2>6, StillStreaming
  <2>8. job'[j].at \in StreamStages /\ Unstored(j) BY <1>1, <2>3, <2>5 DEF StreamStages, Unstored
  <2> QED BY <1>1, <2>3, <2>5, <2>7, <2>8, StreamGoesOn
<1> QED BY <1>3, <1>4

LEMMA DrainIInv == ASSUME IInv, NEW j \in Jobs, Drain(j) PROVE IInv'
<1>1. /\ job[j].at = "streaming" /\ UNCHANGED <<disk, temps, rows, artifacts, drawn, clock, held, history>>
      /\ job[j].at \in StreamStages
  BY DEF Drain, StreamStages
<1>2. Streaming(j) BY <1>1, StreamTyped
<1> DEFINE to == [job[j] EXCEPT !.paused = FALSE]
<1>3. /\ to.at = "streaming" /\ DOMAIN to = DOMAIN job[j] /\ to.total = job[j].total
      /\ to.bytes = job[j].bytes /\ to.name = job[j].name /\ to.opened = job[j].opened /\ to.ref = job[j].ref
  BY <1>1, <1>2 DEF Streaming
<1>4. Goes(j, to) BY DEF Drain
<1> HIDE DEF to
<1>5. Moves(j) /\ job'[j] = to BY <1>4, GoesMoves DEF IInv
<1>6. /\ job'[j].at # "renaming" /\ job'[j].opened \in BOOLEAN
      /\ job'[j].total \in Nat /\ job'[j].total <= MaxBytes
  BY <1>2, <1>3, <1>5 DEF Streaming
<1>7. Streaming(j)' BY <1>1, <1>2, <1>3, <1>5, <1>6, StillStreaming
<1>8. job'[j].at \in StreamStages /\ Unstored(j) BY <1>1, <1>3, <1>5 DEF StreamStages, Unstored
<1> QED BY <1>1, <1>3, <1>5, <1>7, <1>8, StreamGoesOn

LEMMA StreamFailsIInv == ASSUME IInv, NEW j \in Jobs, StreamFails(j) PROVE IInv'
<1>1. /\ Refuses(j) /\ UNCHANGED <<disk, temps, rows, artifacts, drawn, clock, held, history>>
      /\ job[j].at \in StreamStages
  BY DEF StreamFails, StreamStages
<1> QED BY <1>1, RefusesIInv

LEMMA FinishIInv == ASSUME IInv, NEW j \in Jobs, Finish(j) PROVE IInv'
<1>1. /\ job[j].at = "streaming" /\ job[j].opened /\ job[j].total = job[j].bytes.size
      /\ UNCHANGED <<disk, temps, rows, artifacts, drawn, clock, held, history>>
      /\ job[j].at \in StreamStages
  BY DEF Finish, StreamStages
<1>2. Streaming(j) BY <1>1, StreamTyped
<1>3. CASE validateFile(job[j].bytes, None, Accepted) # 200
  <2>1. Refuses(j) BY <1>3 DEF Finish
  <2> QED BY <1>1, <2>1, RefusesIInv
<1>4. CASE validateFile(job[j].bytes, None, Accepted) = 200
  <2>1. Waits(j, "renaming") BY <1>4 DEF Finish
  <2>2. Whole(job[j].bytes) BY <1>1, <1>2, <1>4, StreamWhole DEF Streaming
  <2> DEFINE place == "renaming"
  <2>3. Waits(j, place) /\ place \in StreamStages BY <2>1 DEF StreamStages
  <2> HIDE DEF place
  <2>4. /\ Moves(j) /\ job'[j].at = place /\ DOMAIN job'[j] = DOMAIN job[j]
        /\ job'[j].bytes = job[j].bytes /\ job'[j].name = job[j].name /\ job'[j].total = job[j].total
        /\ job'[j].opened = job[j].opened /\ job'[j].ref = job[j].ref
    BY <1>1, <2>3, WaitsAt
  <2>5. /\ job'[j].opened /\ job'[j].opened \in BOOLEAN
        /\ job'[j].total \in Nat /\ job'[j].total <= MaxBytes /\ job'[j].total = job'[j].bytes.size
    BY <1>1, <1>2, <2>4 DEF Streaming
  <2>6. Streaming(j)' BY <1>1, <1>2, <2>2, <2>4, <2>5, StillStreaming
  <2>7. Unstored(j) BY <1>1 DEF Unstored
  <2> QED BY <1>1, <2>3, <2>4, <2>6, <2>7, StreamGoesOn
<1> QED BY <1>3, <1>4

(* A stream takes a step that stores nothing, or ends. *)
LEMMA StreamStep ==
  ASSUME IInv, NEW j \in Jobs, Moves(j), Sound(j)', Tidy', job[j].at \in StreamStages,
         job'[j].at = "idle" \/ (job'[j].at = job[j].at /\ job'[j].ref = job[j].ref),
         UNCHANGED <<disk, rows, artifacts, drawn, clock, held, stored, named, letGo>>
  PROVE  IInv'
<1>1. Grows BY DEF Grows, IInv, RowTypes
<1>2. Requests' BY <1>1, RequestsNext
<1>3. RowTypes' BY <1>1, RowTypesStay DEF IInv
<1>4. Kept' BY <1>1, KeptStays DEF IInv
<1>5. \A i \in Jobs : Calm(i) BY DEF Moves, Calm, Begun, Unstored, Uploads, StreamStages
<1>6. Private' BY <1>5, PrivateStays DEF IInv
<1>7. Pictured' BY <1>1, PicturedStays DEF IInv, Moves, StreamStages, Uploads
<1>8. Stamped' BY <1>1, StampedStays DEF IInv
<1> QED BY <1>2, <1>3, <1>4, <1>6, <1>7, <1>8 DEF IInv

LEMMA TempOpensIInv == ASSUME IInv, NEW j \in Jobs, TempOpens(j) PROVE IInv'
<1>1. /\ job[j].at = "streaming" /\ ~job[j].opened /\ temps' = temps \cup {job[j].name}
      /\ UNCHANGED <<disk, rows, artifacts, drawn, clock, held, stored, named, letGo, smooth, left>>
  BY DEF TempOpens, history
<1>2. job[j].at \in StreamStages /\ Streaming(j) BY <1>1, StreamTyped DEF StreamStages
<1> DEFINE to == [job[j] EXCEPT !.opened = TRUE]
<1>3. /\ to.at = "streaming" /\ DOMAIN to = DOMAIN job[j] /\ to.total = job[j].total /\ to.opened = TRUE
      /\ to.bytes = job[j].bytes /\ to.name = job[j].name /\ to.ref = job[j].ref
  BY <1>1, <1>2 DEF Streaming
<1>4. Goes(j, to) BY DEF TempOpens
<1> HIDE DEF to
<1>5. Moves(j) /\ job'[j] = to BY <1>4, GoesMoves DEF IInv
<1>6. /\ job'[j].at # "renaming" /\ job'[j].opened \in BOOLEAN
      /\ job'[j].total \in Nat /\ job'[j].total <= MaxBytes
  BY <1>2, <1>3, <1>5 DEF Streaming
<1>7. Streaming(j)' BY <1>1, <1>2, <1>3, <1>5, <1>6, StillStreaming
<1>8. job'[j].at = "streaming" /\ job'[j].opened /\ job'[j].name = job[j].name /\ job'[j].ref = job[j].ref
  BY <1>3, <1>5
<1>9. Sound(j)' BY <1>7, <1>8 DEF Sound, StreamStages, Uploads, Reads
<1>10. Opened(j)' BY <1>8 DEF Opened, StreamStages
<1>11. \A i \in Jobs : i # j => (Opened(i)' <=> Opened(i)) /\ job'[i].name = job[i].name
  BY <1>5 DEF Moves, Opened
<1>12. Tidy'
  <2>1. LeftBehind'
    <3>1. Grows BY <1>1 DEF Grows, IInv, RowTypes
    <3>2. ASSUME NEW i \in Jobs, job'[i].at \in StreamStages PROVE job[i].at \in StreamStages /\ job'[i].name = job[i].name
      BY <1>2, <1>5, <1>8, <3>2 DEF Moves
    <3>3. LeftBehind BY DEF IInv, Tidy
    <3>4. \A i \in Jobs : job'[i].at \in StreamStages => job'[i].name \notin left BY <3>2, <3>3 DEF LeftBehind
    <3> QED BY <1>1, <3>1, <3>3, <3>4, LeftStays
  <2> SUFFICES ASSUME smooth' PROVE temps' = {job'[i].name : i \in {k \in Jobs : Opened(k)'}} \cup left'
    BY <2>1 DEF Tidy
  <2>2. temps = {job[i].name : i \in {k \in Jobs : Opened(k)}} \cup left BY <1>1 DEF IInv, Tidy
  <2>3. ~Opened(j) BY <1>1 DEF Opened
  <2>4. {job'[i].name : i \in {k \in Jobs : Opened(k)'}} = {job[i].name : i \in {k \in Jobs : Opened(k)}} \cup {job[j].name}
    BY <1>8, <1>10, <1>11, <2>3
  <2> QED BY <1>1, <2>2, <2>4
<1> QED BY <1>1, <1>2, <1>5, <1>8, <1>9, <1>12, StreamStep

(* Its temporary file goes with it, or is left behind: no other stream has *)
(* that name.                                                              *)
LEMMA TidyEnds ==
  ASSUME IInv, Grows, NEW j \in Jobs, job[j].at \in StreamStages, Moves(j), job'[j].at \notin StreamStages,
         UNCHANGED smooth,
         \/ temps' = temps \ {job[j].name} /\ UNCHANGED left
         \/ temps' = temps \cup {job[j].name} /\ left' = left \cup {job[j].name}
  PROVE  Tidy'
<1> DEFINE theirs == {job'[i].name : i \in {k \in Jobs : Opened(k)'}}
<1>1. Tidy /\ LeftBehind BY DEF IInv, Tidy
<1>2. ASSUME NEW i \in Jobs, i # j PROVE job'[i] = job[i] /\ (Opened(i)' <=> Opened(i))
  BY <1>2 DEF Moves, Opened
<1>3. ~Opened(j)' BY DEF Opened
<1>4. Streaming(j) /\ Begun(j) /\ job[j].ref \in NameRefs(drawn) /\ job[j].name = job[j].ref.segs[2]
  BY StreamTyped DEF Streaming, NameOf
<1>5. ASSUME NEW i \in Jobs, i # j, job[i].at \in StreamStages PROVE job[i].name # job[j].name
  <2>1. Streaming(i) /\ Begun(i) BY <1>5, StreamTyped
  <2>2. NameOf(i) # NameOf(j) BY <1>4, <1>5, <2>1 DEF IInv, Private
  <2> QED BY <1>4, <2>1, <2>2 DEF Streaming
<1>6. job[j].name \notin left /\ job[j].name \notin theirs
  <2>1. job[j].name \notin left BY <1>1 DEF LeftBehind
  <2>2. ASSUME NEW i \in Jobs, Opened(i)' PROVE job'[i].name # job[j].name
    <3>1. i # j BY <1>3, <2>2
    <3>2. Opened(i) /\ job'[i] = job[i] BY <1>2, <2>2, <3>1
    <3>3. job[i].at \in StreamStages BY <3>2 DEF Opened
    <3> QED BY <1>5, <3>1, <3>2, <3>3
  <2> QED BY <2>1, <2>2
<1>7. LeftBehind'
  <2>1. \A i \in Jobs : job'[i].at \in StreamStages => i # j /\ job'[i] = job[i] BY <1>2
  <2>2. \A i \in Jobs : job'[i].at \in StreamStages => job'[i].name \notin left' BY <1>1, <1>5, <2>1 DEF LeftBehind
  <2>3. \A name \in left' : \E ref \in NameRefs(drawn) : name = ref.segs[2] BY <1>1, <1>4 DEF LeftBehind
  <2> QED BY <2>2, <2>3, NamesKept DEF LeftBehind
<1>8. ASSUME smooth' PROVE temps' = theirs \cup left'
  <2>1. temps = {job[i].name : i \in {k \in Jobs : Opened(k)}} \cup left BY <1>1, <1>8 DEF Tidy
  <2>2. theirs \cup {job[j].name} = {job[i].name : i \in {k \in Jobs : Opened(k)}} \cup {job[j].name}
    BY <1>2, <1>3
  <2> HIDE DEF theirs
  <2> QED BY <1>6, <2>1, <2>2
<1> QED BY <1>7, <1>8 DEF Tidy

LEMMA CleanupTempIInv == ASSUME IInv, NEW j \in Jobs, cleanupTemp(j) PROVE IInv'
<1>1. /\ job[j].at = "refused" /\ Ends(j)
      /\ UNCHANGED <<disk, rows, artifacts, drawn, clock, held, stored, named, letGo, smooth>>
      /\ \/ temps' = temps \ {job[j].name} /\ UNCHANGED left
         \/ temps' = temps \cup {job[j].name} /\ left' = left \cup {job[j].name}
  BY DEF cleanupTemp
<1>2. job[j].at \in StreamStages BY <1>1 DEF StreamStages
<1>3. Moves(j) /\ job'[j] = Idle BY <1>1, GoesMoves DEF Ends, IInv
<1>4. job'[j].at = "idle" /\ Sound(j)' BY <1>3, IdleSound DEF Idle
<1>5. job'[j].at \notin StreamStages /\ Grows BY <1>1, <1>4 DEF StreamStages, Grows, IInv, RowTypes
<1>6. Tidy' BY <1>1, <1>2, <1>3, <1>5, TidyEnds
<1>7. /\ job'[j].at = "idle"
      /\ UNCHANGED <<disk, rows, artifacts, drawn, clock, held, stored, named, letGo>>
  BY <1>1, <1>4
<1> QED BY <1>2, <1>3, <1>4, <1>6, <1>7, StreamStep

LEMMA RenameStreamIInv == ASSUME IInv, NEW j \in Jobs, RenameStream(j) PROVE IInv'
<1> DEFINE bytes == [job[j].bytes EXCEPT !.size = job[j].total]
<1>1. /\ job[j].at = "renaming" /\ job[j].at \in StreamStages
      /\ UNCHANGED <<rows, artifacts, drawn, clock, held, named, letGo, smooth, left>>
  BY DEF RenameStream, StreamStages
<1>2. Streaming(j) /\ Begun(j) /\ Unstored(j) BY <1>1, StreamTyped DEF Unstored
<1>3. Whole(bytes)
  <2>1. job[j].bytes \in Octets /\ job[j].total = job[j].bytes.size /\ Whole(job[j].bytes)
    BY <1>1, <1>2 DEF Streaming, Whole
  <2>2. bytes = job[j].bytes BY <2>1 DEF Octets
  <2> QED BY <2>1, <2>2
<1> HIDE DEF bytes
<1>4. CASE Keep(job[j].ref, bytes) /\ temps' = temps \ {job[j].name} /\ Ends(j)
  <2>1. /\ Grows /\ Kept' /\ DOMAIN disk \subseteq DOMAIN disk'
        /\ DOMAIN stored' = DOMAIN stored \cup {Path(j)}
    BY <1>1, <1>2, <1>3, <1>4, Stores
  <2>2. Moves(j) /\ job'[j] = Idle BY <1>4, GoesMoves DEF Ends, IInv
  <2>3. job'[j].at = "idle" /\ Sound(j)' BY <2>2, IdleSound DEF Idle
  <2>4. job'[j].at \notin StreamStages /\ ~Begun(j)' /\ ~Unstored(j)'
    BY <2>3 DEF Begun, Unstored, StreamStages, Uploads
  <2>5. Requests' BY <2>1, <2>2, <2>3, RequestsNext
  <2>6. RowTypes' BY <1>1, <2>1, RowTypesStay DEF IInv
  <2>7. Private' BY <1>2, <2>1, <2>2, <2>4, StoresPrivate
  <2>8. Pictured'
    <3>1. ASSUME NEW i \in Jobs, job'[i].at \in Uploads \cup {"discarding"} PROVE job'[i] = job[i]
      BY <2>2, <2>3, <3>1 DEF Moves, Uploads
    <3> QED BY <1>1, <2>1, <3>1, PicturedGrows DEF IInv, Uploads
  <2>9. Tidy' BY <1>1, <1>4, <2>1, <2>2, <2>4, TidyEnds
  <2>10. Stamped' BY <1>1, <2>1, StampedStays DEF IInv
  <2> QED BY <2>1, <2>5, <2>6, <2>7, <2>8, <2>9, <2>10 DEF IInv
<1>5. CASE Refuses(j) /\ UNCHANGED <<disk, stored, temps>>
  <2>1. UNCHANGED history BY <1>1, <1>5 DEF history
  <2> QED BY <1>1, <1>5, <2>1, RefusesIInv
<1> QED BY <1>4, <1>5 DEF RenameStream, bytes

-----------------------------------------------------------------------------
(* Artifacts, which name files by what clients say. *)

LEMMA OffersType == ASSUME IInv PROVE Offers \subseteq AnyReference
<1>1. drawn \in 0..Len(FileNames) BY DEF IInv, RowTypes
<1>2. "artifacts" \in BucketNames BY DEF BucketNames
<1>3. {Reference("artifacts", FileNames[k]) : k \in 1..drawn} \subseteq NameRefs(drawn) BY <1>2 DEF NameRefs
<1>4. NameRefs(drawn) \subseteq AnyReference BY <1>1, NamesApart
<1> QED BY <1>3, <1>4, FilesAssumption DEF Offers

(* Who gives up the file of an artifact is no owner of a picture. *)
LEMMA ArtifactIInv ==
  ASSUME IInv, NEW j \in Jobs, Free(j), NEW a \in Artifacts, NEW ref \in AnyReference \cup {None},
         GivesUp(j, a, ref),
         artifacts' = [b \in Artifacts |-> artifacts'[b]],
         \A b \in Artifacts : b # a => artifacts'[b] = artifacts[b],
         {"file", "content"} \subseteq DOMAIN artifacts'[a], artifacts'[a].file \in AnyReference \cup {None},
         UNCHANGED <<disk, temps, rows, drawn, clock, held, stored, named, smooth, left>>
  PROVE  IInv'
<1>1. /\ Moves(j) /\ letGo \subseteq letGo' /\ Sound(j)'
      /\ \/ ref = None /\ job'[j].at = "idle"
         \/ /\ ref # None /\ job'[j].at = "discarding" /\ job'[j].ref = ref
            /\ <<a, resolveAndVerify(ref)>> \in letGo'
  BY GivesUpGone
<1>2. Grows BY <1>1 DEF Grows, IInv, RowTypes
<1>3. RowTypes' BY DEF IInv, RowTypes
<1>4. Stamped' BY <1>2, StampedStays DEF IInv
<1>5. ~Begun(j) /\ ~Begun(j)' BY <1>1, FreeNotBegun DEF Begun, Uploads, StreamStages
<1>6. ASSUME job'[j].at = "discarding" PROVE Lost(job[j].ref)'
  <2> DEFINE gone == <<a, resolveAndVerify(job'[j].ref)>>
  <2>1. gone \in letGo' BY <1>1, <1>6
  <2>2. gone[1] = a /\ gone[2] = resolveAndVerify(job'[j].ref) OBVIOUS
  <2>3. a \notin Owners BY FilesAssumption
  <2> HIDE DEF gone
  <2> QED BY <2>1, <2>2, <2>3 DEF Lost
<1> QED BY <1>1, <1>2, <1>3, <1>4, <1>5, <1>6, Answering

LEMMA CreateArtifactIInv ==
  ASSUME IInv, NEW j \in Jobs, NEW a \in Artifacts, NEW body \in ArtifactBodies, NEW known,
         createArtifact(j, a, body, known)
  PROVE  IInv'
<1> DEFINE row == Overlay(body, [version |-> <<1>>])
<1>1. /\ Free(j) /\ Ends(j) /\ UNCHANGED <<disk, temps, rows, drawn, clock, held, history>>
      /\ artifacts' = [artifacts EXCEPT ![a] = row] \/ artifacts' = artifacts
  BY DEF createArtifact
<1>2. DOMAIN body = {"content", "file"} /\ body.file \in AnyReference \cup {None}
  BY OffersType DEF ArtifactBodies
<1>3. {"file", "content"} \subseteq DOMAIN row /\ row.file = body.file
  <2> DEFINE more == [version |-> <<1>>]
  <2>1. row = Overlay(body, more) OBVIOUS
  <2> HIDE DEF more, row
  <2>2. DOMAIN row = DOMAIN body \cup DOMAIN more /\ row["file"] = body["file"] BY <1>2, <2>1 DEF Overlay
  <2> QED BY <1>2, <2>2
<1> HIDE DEF row
<1> DEFINE ref == None
<1>4. ref \in AnyReference \cup {None} /\ GivesUp(j, a, ref) BY <1>1 DEF GivesUp, history
<1> HIDE DEF ref
<1>5. /\ artifacts = [b \in Artifacts |-> artifacts[b]] /\ {"file", "content"} \subseteq DOMAIN artifacts[a]
      /\ artifacts[a].file \in AnyReference \cup {None}
  BY DEF IInv, RowTypes
<1>6. /\ artifacts' = [b \in Artifacts |-> artifacts'[b]]
      /\ \A b \in Artifacts : b # a => artifacts'[b] = artifacts[b]
      /\ artifacts'[a] = row \/ artifacts'[a] = artifacts[a]
  BY <1>1, <1>5
<1> QED BY <1>1, <1>2, <1>3, <1>4, <1>5, <1>6, ArtifactIInv DEF history

LEMMA DeleteArtifactIInv ==
  ASSUME IInv, NEW j \in Jobs, NEW a \in Artifacts, deleteArtifact(j, a)
  PROVE  IInv'
<1> DEFINE ref == artifacts[a].file
<1>1. Free(j) /\ UNCHANGED <<disk, temps, rows, drawn, clock, held, stored, named, smooth, left>> BY DEF deleteArtifact
<1>2. /\ artifacts = [b \in Artifacts |-> artifacts[b]] /\ ref \in AnyReference \cup {None}
  BY DEF IInv, RowTypes
<1>3. CASE artifacts[a] = Absent
  <2>1. Ends(j) /\ UNCHANGED <<artifacts, letGo>> BY <1>3 DEF deleteArtifact
  <2> QED BY <1>1, <2>1, EndsAtOnce DEF history
<1>4. CASE artifacts[a] # Absent
  <2>1. artifacts' = [artifacts EXCEPT ![a] = Absent] /\ GivesUp(j, a, ref) BY <1>4 DEF deleteArtifact
  <2> HIDE DEF ref
  <2>2. {"file", "content"} \subseteq DOMAIN Absent /\ Absent.file = None BY DEF Absent
  <2>3. /\ artifacts' = [b \in Artifacts |-> artifacts'[b]] /\ artifacts'[a] = Absent
        /\ \A b \in Artifacts : b # a => artifacts'[b] = artifacts[b]
    BY <1>2, <2>1
  <2> QED BY <1>1, <1>2, <2>1, <2>2, <2>3, ArtifactIInv
<1> QED BY <1>3, <1>4

(* A change leaves the file, or sets it to what the body says; the file it *)
(* lets go of is the one that was there.                                   *)
LEMMA UpdatedFile ==
  ASSUME NEW row, NEW body, NEW now, NEW S, "file" \in DOMAIN row, row.file \in S, None \in S,
         "file" \in DOMAIN body => body.file \in S
  PROVE  /\ applyArtifactUpdates(row, body, now).row["file"] \in S
         /\ applyArtifactUpdates(row, body, now).unlinked \in S
<1> DEFINE columns == {"title", "type", "mime", "project", "chat", "agent", "content", "file"}
           given == [c \in columns \cap DOMAIN body |-> body[c]]
           next == Overlay(given, row)
           changed == Changed(row, body, columns)
           later == [next EXCEPT !.version = <<@[1] + 1>>, !.updated = now]
           new == IF changed = {} THEN row ELSE later
           unlinked == IF next.file # row.file THEN row.file ELSE None
           refused == DOMAIN body \cap {"content", "file"} # {} /\ (next.content = None) = (next.file = None)
           result == IF refused THEN [code |-> 400, row |-> row, unlinked |-> None]
                     ELSE [code |-> 200, row |-> new, unlinked |-> unlinked]
<1>1. applyArtifactUpdates(row, body, now) = result BY DEF applyArtifactUpdates
<1>2. "file" \in DOMAIN next /\ next.file \in S BY DEF Overlay
<1> HIDE DEF next
<1>3. "file" \in DOMAIN later /\ later["file"] = next["file"] BY <1>2
<1> HIDE DEF later, changed
<1>4. new["file"] \in S /\ unlinked \in S BY <1>2, <1>3
<1> HIDE DEF new, unlinked, refused
<1>5. result.row["file"] \in S /\ result.unlinked \in S
  <2>1. CASE refused BY <2>1
  <2>2. CASE ~refused BY <1>4, <2>2
  <2> QED BY <2>1, <2>2
<1> QED BY <1>1, <1>5

LEMMA UpdateArtifactIInv ==
  ASSUME IInv, NEW j \in Jobs, NEW a \in Artifacts, NEW body \in ArtifactPatches, NEW known,
         updateArtifact(j, a, body, known)
  PROVE  IInv'
<1> DEFINE before == Overlay(artifacts[a], [updated |-> 0])
           result == applyArtifactUpdates(before, body, 0)
           row == [c \in {"content", "file", "version"} |-> result.row[c]]
           ref == result.unlinked
<1>1. Free(j) /\ UNCHANGED <<disk, temps, rows, drawn, clock, held, stored, named, smooth, left>>
  BY DEF updateArtifact
<1>2. \/ Ends(j) /\ UNCHANGED <<artifacts, letGo>>
      \/ artifacts' = [artifacts EXCEPT ![a] = row] /\ GivesUp(j, a, ref)
  BY DEF updateArtifact
<1>3. /\ artifacts = [b \in Artifacts |-> artifacts[b]] /\ "file" \in DOMAIN artifacts[a]
      /\ artifacts[a].file \in AnyReference \cup {None}
  BY DEF IInv, RowTypes
<1>4. "file" \in DOMAIN before /\ before.file = artifacts[a].file BY <1>3 DEF Overlay
<1>5. "file" \in DOMAIN body => body.file \in AnyReference \cup {None}
  BY OffersType DEF ArtifactPatches, ArtifactBodies
<1> HIDE DEF before
<1>6. result.row["file"] \in AnyReference \cup {None} /\ ref \in AnyReference \cup {None}
  <2> DEFINE S == AnyReference \cup {None}
             zero == 0
  <2>1. before.file \in S /\ None \in S /\ ("file" \in DOMAIN body => body.file \in S) BY <1>3, <1>4, <1>5
  <2> HIDE DEF S, zero
  <2>2. /\ applyArtifactUpdates(before, body, zero).row["file"] \in S
        /\ applyArtifactUpdates(before, body, zero).unlinked \in S
    BY <1>4, <2>1, UpdatedFile
  <2> QED BY <2>2 DEF S, zero
<1> HIDE DEF result
<1>7. {"file", "content"} \subseteq DOMAIN row /\ row.file = result.row["file"] OBVIOUS
<1> HIDE DEF row, ref
<1>8. CASE Ends(j) /\ UNCHANGED <<artifacts, letGo>> BY <1>1, <1>8, EndsAtOnce DEF history
<1>9. CASE artifacts' = [artifacts EXCEPT ![a] = row] /\ GivesUp(j, a, ref)
  <2>1. /\ artifacts' = [b \in Artifacts |-> artifacts'[b]] /\ artifacts'[a] = row
        /\ \A b \in Artifacts : b # a => artifacts'[b] = artifacts[b]
    BY <1>3, <1>9
  <2> QED BY <1>1, <1>6, <1>7, <1>9, <2>1, ArtifactIInv
<1> QED BY <1>2, <1>8, <1>9

-----------------------------------------------------------------------------
(* The file itself goes, and faults. *)

(* Nothing appears, and what goes was given up. *)
LEMMA KeptShrinks ==
  ASSUME IInv, Grows, UNCHANGED stored, NEW path, path \notin DOMAIN Elsewhere,
         disk' = Delete(disk, {path}) \/ UNCHANGED disk, path \in Gone'
  PROVE  Kept'
<1>1. /\ DOMAIN disk' \subseteq DOMAIN disk /\ \A p \in DOMAIN disk : p # path => p \in DOMAIN disk'
      /\ \A p \in DOMAIN disk' : disk'[p] = disk[p]
  BY DEF Delete
<1>2. \A p \in DOMAIN disk' : p \in DOMAIN stored' /\ disk'[p] = stored'[p] BY <1>1 DEF IInv, Kept
<1>3. \A p \in DOMAIN stored' \ DOMAIN disk' : p \in Gone' BY <1>1, GoneGrows DEF IInv, Kept
<1>4. \A p \in DOMAIN Elsewhere : p \in DOMAIN disk' /\ disk'[p] = Elsewhere[p] BY <1>1 DEF IInv, Kept
<1>5. \A p \in DOMAIN stored' \ DOMAIN Elsewhere :
        Whole(stored'[p]) /\ \E ref \in NameRefs(drawn') : p = resolveAndVerify(ref)
  BY NamesKept DEF IInv, Kept
<1> QED BY <1>2, <1>3, <1>4, <1>5 DEF Kept

(* The picture of a row or of an upload is still there, or the file that   *)
(* went was lost.                                                          *)
LEMMA PicturedShrinks ==
  ASSUME IInv, Grows, UNCHANGED <<rows, drawn>>, NEW path,
         disk' = Delete(disk, {path}) \/ UNCHANGED disk,
         \A i \in Jobs : job'[i] = job[i] \/ job'[i].at = "idle",
         \/ \E gone \in letGo' : gone[1] \notin Owners /\ gone[2] = path
         \/ /\ \A o \in Owners : rows[o].picture # None => resolveAndVerify(rows[o].picture) # path
            /\ \A i \in Jobs : job[i].at \in Uploads => Path(i) # path
  PROVE  Pictured'
<1>1. ASSUME NEW ref, There(ref),
             \/ \E gone \in letGo' : gone[1] \notin Owners /\ gone[2] = path
             \/ resolveAndVerify(ref) # path
      PROVE  exists(ref)' \/ \E gone \in letGo' : gone[1] \notin Owners /\ gone[2] = resolveAndVerify(ref)
  BY <1>1 DEF There, exists, Lost, Delete, Grows
<1>2. ASSUME NEW o \in Owners, rows'[o].picture # None PROVE There(rows[o].picture)'
  <2>1. There(rows[o].picture) BY <1>2 DEF IInv, Pictured
  <2> QED BY <1>1, <1>2, <2>1 DEF There, exists, Lost
<1>3. \A i \in Jobs : job'[i].at \in Uploads \cup {"discarding"} => job'[i] = job[i] BY DEF Uploads
<1>4. ASSUME NEW k \in Jobs, job'[k].at \in Uploads
      PROVE  /\ job'[k].at = "recording" => There(job[k].ref)'
             /\ \A o \in Owners : rows'[o].picture # job'[k].ref
             /\ \A o \in Owners : rows'[o].picture = job'[k].old => o = job'[k].owner \/ job'[k].old = None
             /\ \A i \in Jobs : job'[i].at \in Uploads => job'[i].old # job'[k].ref
  <2>1. job'[k] = job[k] BY <1>3, <1>4
  <2>2. /\ job[k].at = "recording" => There(job[k].ref)
        /\ \A o \in Owners : rows[o].picture # job[k].ref
        /\ \A o \in Owners : rows[o].picture = job[k].old => o = job[k].owner \/ job[k].old = None
        /\ \A i \in Jobs : job[i].at \in Uploads => job[i].old # job[k].ref
    BY <1>4, <2>1 DEF IInv, Pictured
  <2>3. job'[k].at = "recording" => There(job[k].ref)'
    BY <1>1, <1>4, <2>1, <2>2 DEF There, exists, Lost, Path
  <2>4. \A i \in Jobs : job'[i].at \in Uploads => job'[i].old # job'[k].ref BY <1>3, <2>1, <2>2
  <2> QED BY <2>1, <2>2, <2>3, <2>4
<1>5. ASSUME NEW k \in Jobs, job'[k].at = "discarding", ~Lost(job[k].ref)'
      PROVE  /\ job'[k].ref \in PictureRefs(drawn')
             /\ \A p \in Owners : rows'[p].picture # job'[k].ref
             /\ \A i \in Jobs : job'[i].at \in Uploads => job'[i].ref # job'[k].ref
  <2>1. job'[k] = job[k] BY <1>3, <1>5
  <2>2. ~Lost(job[k].ref) BY <1>5, <2>1 DEF Lost, Grows
  <2>3. /\ job[k].ref \in PictureRefs(drawn)
        /\ \A p \in Owners : rows[p].picture # job[k].ref
        /\ \A i \in Jobs : job[i].at \in Uploads => job[i].ref # job[k].ref
    BY <1>5, <2>1, <2>2 DEF IInv, Pictured
  <2>4. \A i \in Jobs : job'[i].at \in Uploads => job'[i].ref # job'[k].ref BY <1>3, <2>1, <2>3
  <2> QED BY <2>1, <2>3, <2>4
<1>6. \A p, q \in Owners : rows'[p].picture = rows'[q].picture => p = q \/ rows'[p].picture = None
  BY DEF IInv, Pictured
<1> QED BY <1>2, <1>4, <1>5, <1>6 DEF Pictured

LEMMA DeleteIInv == ASSUME IInv, NEW j \in Jobs, delete(j) PROVE IInv'
<1> DEFINE path == Path(j)
<1>1. /\ job[j].at = "discarding" /\ Ends(j)
      /\ UNCHANGED <<temps, rows, artifacts, drawn, clock, held, history>>
      /\ UNCHANGED disk \/ (path # None /\ disk' = Delete(disk, {path}))
  BY DEF delete, Path
<1>2. job[j].ref \in AnyReference /\ path \in Gone
  BY <1>1 DEF IInv, Requests, Sound, Discarding
<1>3. Moves(j) /\ job'[j] = Idle BY <1>1, GoesMoves DEF Ends, IInv
<1>4. job'[j].at = "idle" /\ Sound(j)' BY <1>3, IdleSound DEF Idle
<1>5. ~Begun(j) BY <1>1 DEF Begun, Uploads, StreamStages
<1>6. CASE UNCHANGED disk
  <2>1. UNCHANGED <<disk, rows, artifacts, drawn, clock, held, history>> BY <1>1, <1>6
  <2>2. RowTypes' /\ Stamped' BY <2>1, NothingNoted
  <2> QED BY <1>1, <1>3, <1>4, <1>5, <2>1, <2>2, ReaderStep
<1>7. CASE path # None /\ disk' = Delete(disk, {path})
  <2>1. path \notin DOMAIN Elsewhere
    <3>1. StrictlyInside(Root, path) BY <1>2, <1>7, ReferencesStayInside DEF Path
    <3> QED BY <3>1, FilesAssumption
  <2>2. \/ \E gone \in letGo : gone[1] \notin Owners /\ gone[2] = path
        \/ /\ \A o \in Owners : rows[o].picture # None => resolveAndVerify(rows[o].picture) # path
           /\ \A i \in Jobs : job[i].at \in Uploads => Path(i) # path
    <3>1. CASE Lost(job[j].ref) BY <3>1 DEF Lost, Path
    <3>2. CASE ~Lost(job[j].ref)
      <4>1. /\ job[j].ref \in PictureRefs(drawn)
            /\ \A o \in Owners : rows[o].picture # job[j].ref
            /\ \A i \in Jobs : job[i].at \in Uploads => job[i].ref # job[j].ref
        BY <1>1, <3>2 DEF IInv, Pictured
      <4>2. \A ref \in PictureRefs(drawn) : ref # job[j].ref => resolveAndVerify(ref) # path
        <5>1. drawn \in 0..Len(FileNames) BY DEF IInv, RowTypes
        <5> QED BY <4>1, <5>1, PictureRefType, NamesApart DEF Path
      <4>3. ASSUME NEW o \in Owners, rows[o].picture # None PROVE rows[o].picture \in PictureRefs(drawn)
        BY <4>3 DEF IInv, RowTypes
      <4>4. ASSUME NEW i \in Jobs, job[i].at \in Uploads PROVE job[i].ref \in PictureRefs(drawn)
        BY <4>4 DEF IInv, Requests, Sound, Uploading
      <4> HIDE DEF path
      <4> QED BY <4>1, <4>2, <4>3, <4>4 DEF Path
    <3> QED BY <3>1, <3>2
  <2> HIDE DEF path
  <2>3. UNCHANGED <<drawn, letGo, stored, named, smooth, left>> BY <1>1 DEF history
  <2>4. Grows BY <2>3 DEF Grows, IInv, RowTypes
  <2>5. Requests' BY <1>3, <1>4, <2>4, RequestsNext
  <2>6. RowTypes' BY <1>1, <2>4, RowTypesStay DEF IInv
  <2>7. Kept' BY <1>2, <1>7, <2>1, <2>3, <2>4, KeptShrinks, GoneGrows
  <2>8. \A i \in Jobs : Calm(i) BY <1>3, <1>4 DEF Moves, Calm, Begun, Unstored, Uploads, StreamStages
  <2>9. Private' BY <2>3, <2>8, PrivateStays DEF IInv
  <2>10. \A i \in Jobs : job'[i] = job[i] \/ job'[i].at = "idle" BY <1>3, <1>4 DEF Moves
  <2>11. Pictured'
    <3>1. UNCHANGED <<rows, drawn>> BY <1>1
    <3> QED BY <1>7, <2>2, <2>3, <2>4, <2>10, <3>1, PicturedShrinks
  <2>12. ~Opened(j) /\ ~Opened(j)' /\ job'[j].at \notin StreamStages BY <1>1, <1>4 DEF Opened, StreamStages
  <2>13. Tidy' BY <1>1, <1>3, <2>3, <2>4, <2>12, TidyBegins
  <2>14. Stamped' BY <1>1, <2>3, <2>4, StampedStays DEF IInv
  <2> QED BY <2>5, <2>6, <2>7, <2>9, <2>11, <2>13, <2>14 DEF IInv
<1> QED BY <1>1, <1>6, <1>7

(* After a crash there are no requests. *)
LEMMA CrashIInv == ASSUME IInv, Crash PROVE IInv'
<1>1. /\ job' = [j \in Jobs |-> Idle] /\ smooth' = FALSE
      /\ UNCHANGED <<disk, temps, rows, artifacts, drawn, clock, held, stored, named, letGo, left>>
  BY DEF Crash
<1>2. \A j \in Jobs : job'[j] = Idle /\ job'[j].at = "idle" BY <1>1 DEF Idle
<1>3. Grows BY <1>1 DEF Grows, IInv, RowTypes
<1>4. \A j \in Jobs : Sound(j)' BY <1>2, IdleSound
<1>5. Requests' BY <1>1, <1>4 DEF Requests
<1>6. RowTypes' BY <1>1, <1>3, RowTypesStay DEF IInv
<1>7. Kept' BY <1>1, <1>3, KeptStays DEF IInv
<1>8. Private' BY <1>2 DEF Private, Begun, Uploads, StreamStages
<1>9. \A j \in Jobs : job'[j].at \notin Uploads /\ job'[j].at # "discarding" BY <1>2 DEF Uploads
<1>10. Pictured' BY <1>1, <1>3, <1>9, PicturedStays DEF IInv
<1>11. Tidy'
  <2>1. LeftBehind' BY <1>1, <1>2, <1>3, LeftStays DEF IInv, Tidy, StreamStages
  <2> QED BY <1>1, <2>1 DEF Tidy
<1>12. Stamped' BY <1>1, <1>3, StampedStays DEF IInv
<1> QED BY <1>5, <1>6, <1>7, <1>8, <1>10, <1>11, <1>12 DEF IInv

LEMMA LoseFileIInv == ASSUME IInv, NEW path, LoseFile(path) PROVE IInv'
<1> DEFINE gone == <<"restore", path>>
<1>1. /\ path \notin DOMAIN Elsewhere /\ disk' = Delete(disk, {path}) /\ letGo' = letGo \cup {gone}
      /\ UNCHANGED <<temps, rows, artifacts, job, drawn, clock, held, stored, named, smooth, left>>
  BY DEF LoseFile
<1>2. gone[1] \notin Owners /\ gone[2] = path BY FilesAssumption
<1> HIDE DEF gone
<1>3. gone \in letGo' /\ path \in Gone' BY <1>1, <1>2 DEF Gone
<1>4. Grows BY <1>1 DEF Grows, IInv, RowTypes
<1>5. Requests' BY <1>1, <1>4, NobodyMoves
<1>6. RowTypes' BY <1>1, <1>4, RowTypesStay DEF IInv
<1>7. Kept' BY <1>1, <1>3, <1>4, KeptShrinks
<1>8. Private' BY <1>1, PrivateStays DEF IInv, Calm, Begun, Unstored
<1>9. Pictured' BY <1>1, <1>2, <1>3, <1>4, PicturedShrinks
<1>10. Tidy' BY <1>1, <1>4, TidyWaits DEF IInv
<1>11. Stamped' BY <1>1, <1>4, StampedStays DEF IInv
<1> QED BY <1>5, <1>6, <1>7, <1>8, <1>9, <1>10, <1>11 DEF IInv

-----------------------------------------------------------------------------
LEMMA NextIInv == IInv /\ [Next]_vars => IInv'
<1> SUFFICES ASSUME IInv, [Next]_vars PROVE IInv' OBVIOUS
<1>1. ASSUME NEW o \in Owners, NextPictures(o) PROVE IInv'
  <2>1. CASE editAgent(o) BY <2>1, EditAgentIInv
  <2>2. ASSUME NEW j \in Jobs, NEW parts \in Bodies, uploadPicture(j, o, parts) PROVE IInv'
    BY <2>2, UploadPictureIInv
  <2>3. ASSUME NEW j \in Jobs, deletePicture(j, o) PROVE IInv' BY <2>3, DeletePictureIInv
  <2>4. ASSUME NEW j \in Jobs, openPicture(j, o) \/ openAgentPicture(j, o) PROVE IInv'
    <3>1. Opens(j, o) BY <2>4 DEF openPicture, openAgentPicture
    <3> QED BY <3>1, OpensIInv
  <2>5. ASSUME NEW j \in Jobs, write(j) PROVE IInv' BY <2>5, WriteIInv
  <2>6. ASSUME NEW j \in Jobs, recordPicture(j) PROVE IInv' BY <2>6, RecordPictureIInv
  <2>7. ASSUME NEW j \in Jobs, stat(j) PROVE IInv' BY <2>7, StatIInv
  <2>8. ASSUME NEW j \in Jobs, findPicture(j) PROVE IInv' BY <2>8, FindPictureIInv
  <2>9. ASSUME NEW j \in Jobs, createReadStream(j) PROVE IInv' BY <2>9, CreateReadStreamIInv
  <2>10. ASSUME NEW j \in Jobs, SendPicture(j) PROVE IInv' BY <2>10, SendPictureIInv
  <2> QED
    BY Zenon, <1>1, <2>1, <2>2, <2>3, <2>4, <2>5, <2>6, <2>7, <2>8, <2>9, <2>10 DEF NextPictures
<1>2. CASE NextStreams
  <2>1. ASSUME NEW j \in Jobs, NEW bytes \in Streamed, NEW bucket \in Buckets, WriteStream(j, bytes, bucket)
        PROVE  IInv'
    BY <2>1, WriteStreamIInv
  <2>2. ASSUME NEW j \in Jobs, TempOpens(j) PROVE IInv' BY <2>2, TempOpensIInv
  <2>3. ASSUME NEW j \in Jobs, Data(j) PROVE IInv' BY <2>3, DataIInv
  <2>4. ASSUME NEW j \in Jobs, Drain(j) PROVE IInv' BY <2>4, DrainIInv
  <2>5. ASSUME NEW j \in Jobs, StreamFails(j) PROVE IInv' BY <2>5, StreamFailsIInv
  <2>6. ASSUME NEW j \in Jobs, Finish(j) PROVE IInv' BY <2>6, FinishIInv
  <2>7. ASSUME NEW j \in Jobs, RenameStream(j) PROVE IInv' BY <2>7, RenameStreamIInv
  <2>8. ASSUME NEW j \in Jobs, cleanupTemp(j) PROVE IInv' BY <2>8, CleanupTempIInv
  <2> QED BY Zenon, <1>2, <2>1, <2>2, <2>3, <2>4, <2>5, <2>6, <2>7, <2>8 DEF NextStreams
<1>3. CASE NextArtifacts
  <2>1. ASSUME NEW j \in Jobs, NEW a \in Artifacts, NEW body \in ArtifactBodies, NEW known \in BOOLEAN,
               createArtifact(j, a, body, known)
        PROVE  IInv'
    BY <2>1, CreateArtifactIInv
  <2>2. ASSUME NEW j \in Jobs, NEW a \in Artifacts, NEW body \in ArtifactPatches, NEW known \in BOOLEAN,
               updateArtifact(j, a, body, known)
        PROVE  IInv'
    BY <2>2, UpdateArtifactIInv
  <2>3. ASSUME NEW j \in Jobs, NEW a \in Artifacts, deleteArtifact(j, a) PROVE IInv'
    BY <2>3, DeleteArtifactIInv
  <2> QED BY Zenon, <1>3, <2>1, <2>2, <2>3 DEF NextArtifacts
<1>4. CASE NextStore BY <1>4, DeleteIInv DEF NextStore
<1>5. CASE Faults
  <2>1. CASE Crash BY <2>1, CrashIInv
  <2>2. ASSUME NEW path, LoseFile(path) PROVE IInv' BY <2>2, LoseFileIInv
  <2> QED BY <1>5, <2>1, <2>2 DEF Faults
<1>6. CASE UNCHANGED vars
  <2> USE <1>6 DEF vars, history
  <2>1. Grows BY DEF Grows, IInv, RowTypes
  <2>2. Requests' BY <2>1, NobodyMoves
  <2>3. RowTypes' BY <2>1, RowTypesStay DEF IInv
  <2>4. Kept' BY <2>1, KeptStays DEF IInv
  <2>5. Private' BY PrivateStays DEF IInv, Calm, Begun, Unstored
  <2>6. Pictured' BY <2>1, PicturedStays DEF IInv
  <2>7. Tidy' BY <2>1, TidyWaits DEF IInv
  <2>8. Stamped' BY <2>1, StampedStays DEF IInv
  <2> QED BY <2>2, <2>3, <2>4, <2>5, <2>6, <2>7, <2>8 DEF IInv
<1> QED BY Zenon, <1>1, <1>2, <1>3, <1>4, <1>5, <1>6 DEF Next

LEMMA SpecIInv == Spec => []IInv
BY InitIInv, NextIInv, PTL DEF Spec

(* A picture that a request is answered with is the one that was stored:   *)
(* all of it, with its size and its type; a client is told to keep what it *)
(* has only if that is the same picture, twins aside; and it is refused    *)
(* only when the file was given up or lost (UserService.openPicture,       *)
(* AgentsService.openPicture, FileStorageService.createReadStream).        *)
THEOREM PicturesServed == Spec => []ReadersServed
<1>1. IInv => ReadersServed
  <2> SUFFICES ASSUME IInv, NEW j \in Jobs, job[j].at = "answered"
               PROVE  LET path == resolveAndVerify(job[j].ref)
                      IN  CASE job[j].code = 200 ->
                                 /\ job[j].bytes = stored[path] /\ job[j].size = stored[path].size
                                 /\ job[j].type \in {OctetStream, detectContentType(stored[path]).mime}
                            [] job[j].code = 304 ->
                                 job[j].had = stored[path] \/ Twins(job[j].owner, path, job[j].size)
                            [] OTHER -> path \in Gone
    BY DEF ReadersServed
  <2>1. Answered(j) BY DEF IInv, Requests, Sound
  <2>2. CASE job[j].code = 200 BY <2>1, <2>2 DEF Answered, Path, Sized, Typed
  <2>3. CASE job[j].code = 304 BY <2>1, <2>3 DEF Answered, Path
  <2>4. CASE job[j].code \notin {200, 304} BY <2>1, <2>4 DEF Answered, Path
  <2> QED BY <2>2, <2>3, <2>4
<1> QED BY <1>1, SpecIInv, PTL

(* Files go only when a row that named them gave them up, and the picture  *)
(* a row names stays unless it was lost or an artifact that named it gave  *)
(* it up; what is stored is a whole upload of a size and type that are     *)
(* allowed; what is outside the store stays; and without a crash there are *)
(* no temporary files but those of running uploads and those that refused  *)
(* uploads left behind (FileStorageService.write, delete, writeStream;     *)
(* ArtifactsService.delete).                                               *)
THEOREM FilesStay == Spec => []FilesAccounted
<1>1. IInv => FilesAccounted
  <2> SUFFICES ASSUME IInv PROVE FilesAccounted OBVIOUS
  <2>1. \A path \in DOMAIN stored \ DOMAIN disk : path \in Gone BY DEF IInv, Kept
  <2>2. \A o \in Owners : rows[o].picture # None =>
          \/ exists(rows[o].picture)
          \/ \E gone \in letGo : gone[1] \notin Owners /\ gone[2] = resolveAndVerify(rows[o].picture)
    BY DEF IInv, Pictured, There, Lost
  <2>3. \A path \in DOMAIN disk \ DOMAIN Elsewhere : Whole(disk[path]) BY DEF IInv, Kept
  <2>4. \A path \in DOMAIN Elsewhere : path \in DOMAIN disk /\ disk[path] = Elsewhere[path] BY DEF IInv, Kept
  <2>5. {i \in Jobs : Opened(i)} = {i \in Jobs : /\ job[i].at \in {"streaming", "refused", "renaming"}
                                                 /\ job[i].opened}
    BY DEF Opened, StreamStages
  <2>6. smooth => temps = Running \cup left BY <2>5 DEF IInv, Tidy, Running
  <2> QED BY <2>1, <2>2, <2>3, <2>4, <2>6 DEF FilesAccounted, Whole
<1> QED BY <1>1, SpecIInv, PTL
=============================================================================
