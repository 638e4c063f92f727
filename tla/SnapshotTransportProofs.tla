----------------------- MODULE SnapshotTransportProofs -----------------------
(***************************************************************************)
(* Proofs about SnapshotTransport, for every working tree and every size:  *)
(* project code of a central build sees the working tree, the remote takes *)
(* what the CLI makes, the runner restores what was split unless its own   *)
(* limits forbid it, and no job ends with a live token.                    *)
(***************************************************************************)
EXTENDS SnapshotTransport, SequenceTheorems, FiniteSetTheorems, TLAPS

(***************************************************************************)
(* Induction: a nonempty set of numbers has a least one.                   *)
(***************************************************************************)
LEMMA SmallestMember ==
    ASSUME NEW S, IsFiniteSet(S), NEW F, F # {}, \A X \in F : X \subseteq S
    PROVE  \E X \in F : \A Y \in F : Y \subseteq X => Y = X
<1>1. IsWellFoundedOn(StrictSubsetOrdering(S), SUBSET S)
  BY FS_StrictSubsetOrderingWellFounded, FS_FiniteSubsetsOfFinite
<1>2. PICK X \in F : \A Y \in F : ~(<<Y, X>> \in StrictSubsetOrdering(S))
  <2>1. F \subseteq SUBSET S
    OBVIOUS
  <2> QED
    BY <1>1, <2>1, WFMin
<1> QED
  BY <1>2 DEF StrictSubsetOrdering

\* A nonempty set of numbers has a least one.
LEMMA LeastNatural ==
    ASSUME NEW T \in SUBSET Nat, T # {}
    PROVE  \E m \in T : \A n \in T : m <= n
<1>1. PICK t \in T : TRUE
  OBVIOUS
<1> DEFINE F == {0..k : k \in {x \in T : x <= t}}
<1>a. IsFiniteSet(0..t)
  BY FS_Interval
<1>b. \A X \in F : X \subseteq 0..t
  OBVIOUS
<1>2. 0..t \in F
  OBVIOUS
<1>3. PICK X \in F : \A Y \in F : Y \subseteq X => Y = X
  <2> HIDE DEF F
  <2> QED
    BY <1>a, <1>b, <1>2, SmallestMember
<1>4. PICK m \in T : m <= t /\ X = 0..m
  BY <1>3
<1>5. ASSUME NEW n \in T, n < m PROVE FALSE
  <2>1. 0..n \in F
    BY <1>4, <1>5
  <2>2. 0..n \subseteq 0..m /\ 0..n # 0..m
    BY <1>5
  <2> QED
    BY <1>3, <1>4, <2>1, <2>2
<1> QED
  BY <1>5

\* The last of the partial concatenations is what FlattenSeq returns.
LEMMA FlattenEquation ==
    ASSUME NEW T, NEW s \in Seq(T), NEW n \in Nat, Len(s) = n, n > 0
    PROVE  \E f : /\ FlattenSeq(s) = f[n] /\ f[1] = s[1]
                  /\ \A k \in 2..n : f[k] = f[k - 1] \o s[k]
<1> DEFINE E(k, f) == f = [i \in 1..k |-> IF i = 1 THEN s[i] ELSE f[i - 1] \o s[i]]
<1>1. E(0, [i \in 1..0 |-> s[i]])
  OBVIOUS
<1>2. ASSUME NEW k \in Nat, NEW f, E(k, f) PROVE \E g : E(k + 1, g)
  <2> DEFINE g == [i \in 1..(k + 1) |-> IF i = k + 1 THEN (IF i = 1 THEN s[i] ELSE f[i - 1] \o s[i]) ELSE f[i]]
  <2>1. \A i \in 1..k : f[i] = IF i = 1 THEN s[i] ELSE f[i - 1] \o s[i]
    BY <1>2
  <2>2. \A i \in 1..(k + 1) : g[i] = IF i = 1 THEN s[i] ELSE g[i - 1] \o s[i]
    <3> SUFFICES ASSUME NEW i \in 1..(k + 1) PROVE g[i] = IF i = 1 THEN s[i] ELSE g[i - 1] \o s[i]
      OBVIOUS
    <3>1. CASE i = k + 1
      <4>1. i # 1 => i - 1 \in 1..(k + 1) /\ i - 1 # k + 1
        BY <3>1
      <4>2. i # 1 => g[i - 1] = f[i - 1]
        BY <4>1
      <4>3. g[i] = IF i = 1 THEN s[i] ELSE f[i - 1] \o s[i]
        BY <3>1
      <4> HIDE DEF g
      <4> QED
        BY <4>2, <4>3
    <3>2. CASE i # k + 1
      <4>1. i \in 1..k /\ (i # 1 => i - 1 \in 1..(k + 1) /\ i - 1 # k + 1)
        BY <3>2
      <4>2. i # 1 => g[i - 1] = f[i - 1]
        BY <4>1
      <4>3. g[i] = f[i]
        BY <3>2
      <4> HIDE DEF g
      <4> QED
        BY <2>1, <4>1, <4>2, <4>3
    <3> QED
      BY <3>1, <3>2
  <2>3. g = [i \in 1..(k + 1) |-> g[i]]
    OBVIOUS
  <2> HIDE DEF g
  <2>4. E(k + 1, g)
    BY <2>2, <2>3
  <2> QED
    BY <2>4
<1> DEFINE B == {k \in Nat : ~ \E f : E(k, f)}
<1>3. B = {}
  <2> SUFFICES ASSUME B # {} PROVE FALSE
    OBVIOUS
  <2>1. B \in SUBSET Nat
    OBVIOUS
  <2>2. PICK m \in B : \A k \in B : m <= k
    <3> HIDE DEF B
    <3> QED
      BY <2>1, LeastNatural
  <2>3. m # 0 /\ m \in Nat
    BY <1>1
  <2>4. m - 1 \in Nat /\ m - 1 \notin B
    <3> HIDE DEF B
    <3>1. m - 1 \in Nat /\ ~(m <= m - 1)
      BY <2>3
    <3> QED
      BY <2>2, <3>1
  <2>5. PICK f : E(m - 1, f)
    BY <2>4
  <2> HIDE DEF E
  <2>6. \E g : E((m - 1) + 1, g)
    BY <1>2, <2>4, <2>5
  <2>7. (m - 1) + 1 = m
    BY <2>3
  <2> QED
    BY <2>2, <2>6, <2>7
<1>4. \E f : E(n, f)
  <2> HIDE DEF E
  <2> QED
    BY <1>3
<1> DEFINE h == CHOOSE f : E(n, f)
<1>5. E(n, h)
  <2> HIDE DEF E
  <2> QED
    BY <1>4
<1>6. FlattenSeq(s) = h[n]
  BY DEF FlattenSeq
<1> HIDE DEF h
<1>7. h[1] = s[1] /\ \A k \in 2..n : h[k] = h[k - 1] \o s[k]
  <2>1. h = [i \in 1..n |-> IF i = 1 THEN s[i] ELSE h[i - 1] \o s[i]]
    BY <1>5
  <2>2. \A k \in 2..n : k \in 1..n /\ k # 1
    OBVIOUS
  <2>3. 1 \in 1..n
    OBVIOUS
  <2> QED
    BY <2>1, <2>2, <2>3
<1> QED
  BY <1>6, <1>7

LEMMA TimesMonotone == \A a, b, c \in Nat : a <= b => a * c <= b * c
<1> SUFFICES ASSUME NEW a \in Nat, NEW b \in Nat, NEW c \in Nat, a <= b PROVE a * c <= b * c
  OBVIOUS
<1>1. PICK d \in Nat : b = a + d
  <2> WITNESS b - a \in Nat
  <2> QED OBVIOUS
<1>2. b * c = a * c + d * c /\ d * c >= 0 BY <1>1
<1> QED BY <1>2

(***************************************************************************)
(* The parts of a content, in the order of its chunks.                     *)
(***************************************************************************)
\* Where the k-th part ends.
End(n, k) == IF k * ChunkSize < n THEN k * ChunkSize ELSE n

\* There are enough parts, none of them is empty and each begins where the one
\* before it ends.
LEMMA Ends ==
    ASSUME NEW n \in Nat, n > 0
    PROVE  /\ Parts(n) \in Nat /\ Parts(n) > 0 /\ End(n, Parts(n)) = n /\ End(n, 0) = 0
           /\ \A k \in 1..Parts(n) : /\ (k - 1) * ChunkSize = End(n, k - 1)
                                     /\ End(n, k - 1) \in Nat /\ End(n, k) \in Nat
                                     /\ End(n, k - 1) < End(n, k) /\ End(n, k) <= n /\ End(n, k) - End(n, k - 1) <= ChunkSize
<1> DEFINE C == ChunkSize
           P == Parts(n)
<1>1. C \in Nat \ {0}
  BY TransportAssumption
<1>2. P = (n + C - 1) \div C /\ P \in Nat
  BY <1>1 DEF Parts
<1>3. P * C <= n + C - 1 /\ n <= P * C
  BY <1>1, <1>2
<1>4. P > 0
  BY <1>1, <1>2, <1>3
<1>5. ASSUME NEW k \in 1..P
      PROVE  (k - 1) * C \in Nat /\ k * C \in Nat /\ k * C = (k - 1) * C + C /\ (k - 1) * C <= n - 1
  <2>1. k * C <= P * C
    BY <1>1, <1>2, <1>5, TimesMonotone
  <2>2. (k - 1) * C \in Nat /\ k * C = (k - 1) * C + C
    BY <1>1, <1>5
  <2> DEFINE a == (k - 1) * C
             b == k * C
             d == P * C
  <2>3. a \in Nat /\ b = a + C /\ b <= d /\ d <= n + C - 1 /\ d \in Nat
    BY <1>1, <1>2, <1>3, <2>1, <2>2
  <2>4. a <= n - 1 /\ b \in Nat
    <3> HIDE DEF a, b, d
    <3> QED
      BY <1>1, <2>3
  <2> QED
    BY <2>3, <2>4
<1>6. 0 * C = 0
  BY <1>1
<1> HIDE DEF P
<1>7. ASSUME NEW k \in 1..P
      PROVE  /\ (k - 1) * ChunkSize = End(n, k - 1) /\ End(n, k - 1) \in Nat /\ End(n, k) \in Nat
             /\ End(n, k - 1) < End(n, k) /\ End(n, k) <= n /\ End(n, k) - End(n, k - 1) <= ChunkSize
  <2> DEFINE a == (k - 1) * C
             b == k * C
  <2>1. a \in Nat /\ b \in Nat /\ b = a + C /\ a <= n - 1
    BY <1>5
  <2>2. End(n, k - 1) = (IF a < n THEN a ELSE n) /\ End(n, k) = (IF b < n THEN b ELSE n)
    BY DEF End
  <2>3. End(n, k - 1) = a
    <3> HIDE DEF a, b
    <3> QED
      BY <2>1, <2>2
  <2>4. a < End(n, k) /\ End(n, k) <= n /\ End(n, k) - a <= C /\ End(n, k) \in Nat
    <3> HIDE DEF a, b
    <3> QED
      BY <1>1, <2>1, <2>2
  <2> QED
    BY <2>1, <2>3, <2>4
<1>8. End(n, P) = n /\ End(n, 0) = 0
  <2>1. End(n, P) = (IF P * C < n THEN P * C ELSE n)
    BY DEF End
  <2>2. P * C >= n
    BY <1>3 DEF P
  <2>3. P * C \in Nat
    BY <1>1, <1>2
  <2>4. End(n, P) = n
    BY <2>1, <2>2, <2>3
  <2> QED
    BY <1>6, <2>4 DEF End
<1> QED
  BY <1>2, <1>4, <1>7, <1>8 DEF P

\* A part is a content between one unit and a chunk long.
LEMMA PartLength ==
    ASSUME NEW data \in Seq(Units), Len(data) > 0, NEW k \in 1..Parts(Len(data))
    PROVE  Part(data, k) \in Seq(Units) /\ Len(Part(data, k)) \in 1..ChunkSize
<1> DEFINE n == Len(data)
           a == End(n, k - 1)
           b == End(n, k)
<1>1. n \in Nat /\ n > 0
  OBVIOUS
<1>2. (k - 1) * ChunkSize = a /\ a \in Nat /\ b \in Nat /\ a < b /\ b <= n /\ b - a <= ChunkSize
  BY <1>1, Ends
<1>3. Part(data, k) = SubSeq(data, a + 1, b)
  BY <1>2 DEF Part, End
<1>4. ChunkSize \in Nat
  BY TransportAssumption
<1> HIDE DEF a, b
<1>5. \A i \in (a + 1)..b : data[i] \in Units
  BY <1>2
<1>6. SubSeq(data, a + 1, b) \in Seq(Units) /\ Len(SubSeq(data, a + 1, b)) = b - a
  BY <1>2, <1>5, SubSeqProperties
<1> QED
  BY <1>2, <1>3, <1>4, <1>6

\* The parts of a content, one after the other, are the content: what a split
\* takes apart, the restoration puts together.
LEMMA PartsJoin ==
    ASSUME NEW data \in Seq(Units), Len(data) > 0
    PROVE  FlattenSeq([k \in 1..Parts(Len(data)) |-> Part(data, k)]) = data
<1> DEFINE n == Len(data)
           P == Parts(n)
           s == [k \in 1..P |-> Part(data, k)]
<1>1. n \in Nat /\ n > 0
  OBVIOUS
<1>2. /\ P \in Nat /\ P > 0 /\ End(n, P) = n /\ End(n, 0) = 0
      /\ \A k \in 1..P : /\ (k - 1) * ChunkSize = End(n, k - 1)
                         /\ End(n, k - 1) \in Nat /\ End(n, k) \in Nat
                         /\ End(n, k - 1) < End(n, k) /\ End(n, k) <= n
  BY <1>1, Ends
<1>3. \A k \in 1..P : s[k] = SubSeq(data, End(n, k - 1) + 1, End(n, k))
  BY <1>2 DEF Part, End
<1>4. \A k \in 1..P : s[k] \in Seq(Units)
  BY PartLength
<1>5. s \in Seq(Seq(Units)) /\ Len(s) = P
  BY <1>2, <1>4
<1> HIDE DEF P, s, n
<1>6. PICK f : FlattenSeq(s) = f[P] /\ f[1] = s[1] /\ \A k \in 2..P : f[k] = f[k - 1] \o s[k]
  <2>1. s \in Seq(Seq(Units)) /\ P \in Nat /\ Len(s) = P /\ P > 0
    BY <1>2, <1>5
  <2> QED
    BY <2>1, FlattenEquation
<1> DEFINE B == {k \in Nat : k \in 1..P /\ f[k] # SubSeq(data, 1, End(n, k))}
<1>7. B = {}
  <2> SUFFICES ASSUME B # {} PROVE FALSE
    OBVIOUS
  <2>0. B \in SUBSET Nat
    OBVIOUS
  <2>1. PICK m \in B : \A k \in B : m <= k
    <3> HIDE DEF B
    <3> QED
      BY <2>0, LeastNatural
  <2>2. m \in Nat /\ m \in 1..P /\ f[m] # SubSeq(data, 1, End(n, m))
    OBVIOUS
  <2>3. m # 1
    <3>1. s[1] = SubSeq(data, 1, End(n, 1))
      <4>1. 1 \in 1..P
        BY <1>2
      <4>2. s[1] = SubSeq(data, End(n, 0) + 1, End(n, 1))
        BY <1>3, <4>1
      <4>3. End(n, 0) = 0
        BY <1>2
      <4>4. End(n, 0) + 1 = 1
        BY <4>3
      <4> QED
        BY <4>2, <4>4
    <3> QED
      BY <1>6, <2>2, <3>1
  <2>4. m - 1 \in 1..P /\ m \in 2..P /\ ~(m <= m - 1) /\ m - 1 \in Nat
    BY <1>2, <2>2, <2>3
  <2>5. f[m - 1] = SubSeq(data, 1, End(n, m - 1))
    <3>1. m - 1 \notin B
      <4> HIDE DEF B
      <4> QED
        BY <2>1, <2>4
    <3> QED
      BY <2>4, <3>1
  <2>6. f[m] = SubSeq(data, 1, End(n, m - 1)) \o SubSeq(data, End(n, m - 1) + 1, End(n, m))
    BY <1>3, <1>6, <2>2, <2>4, <2>5
  <2>7. End(n, m - 1) \in Nat /\ End(n, m) \in Nat /\ End(n, m - 1) < End(n, m) /\ End(n, m) <= n
    BY <1>2, <2>2
  <2>8. SubSeq(data, 1, End(n, m - 1)) \o SubSeq(data, End(n, m - 1) + 1, End(n, m)) = SubSeq(data, 1, End(n, m))
    <3> DEFINE a == End(n, m - 1)
               b == End(n, m)
    <3>1. a \in Nat /\ b \in Nat /\ a < b /\ b <= n
      BY <2>7
    <3> HIDE DEF a, b
    <3>2. 1 \in 1..(n + 1) /\ a \in (1 - 1)..n /\ b \in a..n
      BY <1>1, <3>1
    <3>3. 1 \in 1..(Len(data) + 1) /\ a \in (1 - 1)..Len(data) /\ b \in a..Len(data)
      BY <3>2 DEF n
    <3>4. SubSeq(data, 1, a) \o SubSeq(data, a + 1, b) = SubSeq(data, 1, b)
      BY <3>3, ConcatAdjacentSubSeq
    <3> QED
      BY <3>4 DEF a, b
  <2> QED
    BY <2>2, <2>6, <2>8
<1>8. P \in 1..P
  BY <1>2
<1>9. f[P] = SubSeq(data, 1, n)
  BY <1>2, <1>7, <1>8
<1>10. SubSeq(data, 1, Len(data)) = data
  BY SubSeqFull
<1> QED
  <2>1. FlattenSeq(s) = data
    BY <1>6, <1>9, <1>10 DEF n
  <2> QED
    BY <2>1 DEF s, P, n

Back(file) == [mode |-> IF file.exec THEN "exec" ELSE "file", data |-> file.sha]

\* A tree and the files that are still to be restored into it make the working tree.
Covers(t, man) ==
    /\ t = [q \in DOMAIN t |-> t[q]]
    /\ DOMAIN t \cap Paths \subseteq DOMAIN working
    /\ \A p \in DOMAIN t \cap Paths : t[p] = working[p]
    /\ \A p \in DOMAIN working : p \notin DOMAIN t => \E i \in DOMAIN man : man[i].path = p
    /\ \A i \in DOMAIN man : man[i].path \in DOMAIN working /\ Back(man[i]) = working[man[i].path]

Working == /\ DOMAIN working \subseteq Paths /\ working = [p \in DOMAIN working |-> working[p]]
           /\ \A p \in DOMAIN working : working[p] \in Files

ManifestFile == [path : Paths, exec : BOOLEAN, sha : Seq(Units), chunks : Seq([path : Paths \X Nat, sha : Seq(Units)])]

Chunk == [path : Paths \X Nat, sha : Seq(Units)]

(***************************************************************************)
(* The invariant.                                                          *)
(***************************************************************************)
Manifests == Seq(ManifestFile)
Small(t) == \A q \in DOMAIN t : Size(t[q]) \in Nat /\ Size(t[q]) <= BlobLimit
AtRunner == {"revoke", "verify", "manifest", "restore"}

TransportInv ==
    /\ Working /\ manifest \in Manifests /\ restoring \in Manifests
    /\ pc = "create" => manifest = <<>>
    /\ pc = "split" =>
         /\ Covers(index, manifest) /\ (manifest = <<>> => DOMAIN index \subseteq Paths)
         /\ todo \subseteq DOMAIN index \cap Paths
         /\ \A q \in DOMAIN index : Size(index[q]) \in Nat /\ (q \in todo \/ Size(index[q]) <= BlobLimit)
         /\ \A p \in todo : Large(index[p])
    /\ pc \in {"pushed", "checkout"} =>
         /\ pushed = [tree |-> pushed.tree, manifest |-> manifest] /\ Covers(pushed.tree, manifest)
         /\ manifest = <<>> => DOMAIN pushed.tree \subseteq Paths
    /\ pc \in AtRunner =>
         /\ Covers(source, restoring)
         /\ pc # "restore" /\ restoring = <<>> => DOMAIN source \subseteq Paths
    /\ pc = "code" /\ (backend = "central" \/ manifest = <<>>) => source = working
    /\ pc = "rejected" => oversized

LEMMA TransportInit == Init => TransportInv
<1>1. <<>> \in Manifests BY DEF Manifests
<1> QED BY <1>1 DEF Init, TransportInv, Working, AtRunner

\* What a split file leaves: its description in the manifest, its chunks in the tree.
LEMMA DescribedOK ==
    ASSUME TransportInv, pc = "split", NEW p \in todo
    PROVE  /\ p \in DOMAIN index \cap Paths /\ p \in DOMAIN working /\ index[p] = working[p]
           /\ Described(p) \in ManifestFile /\ Described(p).path = p /\ Back(Described(p)) = working[p]
           /\ ChunkPaths(Chunks(p)) \subseteq Paths \X Nat
           /\ \A q \in ChunkPaths(Chunks(p)) :
                Size([mode |-> "file", data |-> Chunks(p)[q[2]].sha]) \in Nat /\ Size([mode |-> "file", data |-> Chunks(p)[q[2]].sha]) <= BlobLimit
<1>1. p \in DOMAIN index \cap Paths /\ p \in DOMAIN working /\ index[p] = working[p] /\ Large(index[p])
  BY DEF TransportInv, Covers
<1>2. index[p] \in [mode : {"file", "exec", "link"}, data : Seq(Units)] /\ index[p].mode \in {"file", "exec"}
  BY <1>1, FilesAssumption DEF TransportInv, Working, Large
<1>3. \A k \in 1..Parts(Size(index[p])) : /\ Chunks(p)[k] = [path |-> <<p, k>>, sha |-> Part(index[p].data, k)]
                                          /\ Chunks(p)[k] \in Chunk /\ Len(Chunks(p)[k].sha) <= ChunkSize
  <2> SUFFICES ASSUME NEW k \in 1..Parts(Size(index[p])) 
      PROVE /\ Chunks(p)[k] = [path |-> <<p, k>>, sha |-> Part(index[p].data, k)]
            /\ Chunks(p)[k] \in Chunk /\ Len(Chunks(p)[k].sha) <= ChunkSize
    OBVIOUS
  <2>0. Len(index[p].data) > 0 BY <1>1, <1>2, TransportAssumption DEF Large, Size
  <2>1. Part(index[p].data, k) \in Seq(Units) /\ Len(Part(index[p].data, k)) <= ChunkSize BY <1>2, <2>0, PartLength DEF Size
  <2>2. Chunks(p)[k] = [path |-> <<p, k>>, sha |-> Part(index[p].data, k)] BY DEF Chunks
  <2>3. <<p, k>> \in Paths \X Nat BY <1>1
  <2> QED BY <2>1, <2>2, <2>3 DEF Chunk
<1>4. Parts(Size(index[p])) \in Nat /\ DOMAIN Chunks(p) = 1..Parts(Size(index[p]))
  <2>1. Size(index[p]) \in Nat BY <1>2 DEF Size
  <2> QED BY <2>1, TransportAssumption DEF Parts, Chunks
<1>5. Chunks(p) \in Seq(Chunk)
  <2>1. Chunks(p) \in [1..Parts(Size(index[p])) -> Chunk] BY <1>3, <1>4 DEF Chunks
  <2> QED BY <1>4, <2>1
<1>6. \A q \in ChunkPaths(Chunks(p)) : /\ q \in Paths \X Nat
                                       /\ Len(Chunks(p)[q[2]].sha) \in Nat /\ Len(Chunks(p)[q[2]].sha) <= BlobLimit
  <2> SUFFICES ASSUME NEW k \in DOMAIN Chunks(p)
      PROVE Chunks(p)[k].path \in Paths \X Nat /\ Len(Chunks(p)[Chunks(p)[k].path[2]].sha) \in Nat /\ Len(Chunks(p)[Chunks(p)[k].path[2]].sha) <= BlobLimit
    BY DEF ChunkPaths
  <2>1. Chunks(p)[k].path = <<p, k>> /\ Chunks(p)[k] \in Chunk /\ Len(Chunks(p)[k].sha) <= ChunkSize BY <1>3, <1>4
  <2>2. Chunks(p)[k].path[2] = k /\ Chunks(p)[k].sha \in Seq(Units) /\ Chunks(p)[k].path \in Paths \X Nat BY <2>1 DEF Chunk
  <2>3. Len(Chunks(p)[k].sha) \in Nat BY <2>2
  <2> QED BY <2>1, <2>2, <2>3, TransportAssumption
<1>7. Described(p) \in ManifestFile BY <1>1, <1>2, <1>5 DEF Described, ManifestFile, Chunk
<1>8. Back(Described(p)) = working[p] BY <1>1, <1>2 DEF Described, Back
<1> QED BY <1>1, <1>6, <1>7, <1>8 DEF Described, Size

LEMMA SplitPreserves == ASSUME TransportInv, NEW p \in Paths, SplitBlob(p) PROVE TransportInv'
<1> DEFINE new == ChunkPaths(Chunks(p))
<1>1. /\ pc = "split" /\ p \in todo /\ todo' = todo \ {p} /\ manifest' = Append(manifest, Described(p))
      /\ index' = [q \in (DOMAIN index \ {p}) \cup new |->
                    IF q \in DOMAIN index THEN index[q] ELSE [mode |-> "file", data |-> Chunks(p)[q[2]].sha]]
      /\ UNCHANGED <<backend, working, oversized, pushed, source, restoring, pc>>
  BY DEF SplitBlob, inputs, job
<1>2. /\ p \in DOMAIN index \cap Paths /\ p \in DOMAIN working /\ index[p] = working[p]
      /\ Described(p) \in ManifestFile /\ Described(p).path = p /\ Back(Described(p)) = working[p]
      /\ new \subseteq Paths \X Nat
      /\ \A q \in new : Size([mode |-> "file", data |-> Chunks(p)[q[2]].sha]) \in Nat /\ Size([mode |-> "file", data |-> Chunks(p)[q[2]].sha]) <= BlobLimit
  BY <1>1, DescribedOK
<1>3. /\ manifest' \in Manifests /\ Len(manifest') = Len(manifest) + 1 /\ manifest' # <<>>
      /\ DOMAIN manifest = 1..Len(manifest) /\ DOMAIN manifest' = 1..Len(manifest') /\ Len(manifest) \in Nat
      /\ \A i \in DOMAIN manifest : manifest'[i] = manifest[i]
      /\ manifest'[Len(manifest) + 1] = Described(p)
  <2> HIDE DEF new
  <2>1. manifest \in Seq(ManifestFile) /\ Described(p) \in ManifestFile BY <1>2 DEF TransportInv, Manifests
  <2>2. /\ Append(manifest, Described(p)) \in Seq(ManifestFile) /\ Append(manifest, Described(p)) # <<>>
        /\ Len(Append(manifest, Described(p))) = Len(manifest) + 1
        /\ \A i \in 1..Len(manifest) : Append(manifest, Described(p))[i] = manifest[i]
        /\ Append(manifest, Described(p))[Len(manifest) + 1] = Described(p)
    BY <2>1, AppendProperties
  <2>3. DOMAIN manifest = 1..Len(manifest) /\ Len(manifest) \in Nat
        /\ DOMAIN Append(manifest, Described(p)) = 1..Len(Append(manifest, Described(p)))
    BY <2>1, <2>2
  <2> QED BY <1>1, <2>2, <2>3 DEF Manifests
<1> HIDE DEF new
<1>4. /\ DOMAIN index' = (DOMAIN index \ {p}) \cup new
      /\ \A q \in DOMAIN index \ {p} : index'[q] = index[q]
      /\ \A q \in new : q \in DOMAIN index \/ index'[q] = [mode |-> "file", data |-> Chunks(p)[q[2]].sha]
      /\ index' = [q \in DOMAIN index' |-> index'[q]]
      /\ p \notin new
  BY <1>1, <1>2, FilesAssumption
<1>5. DOMAIN index' \cap Paths = (DOMAIN index \cap Paths) \ {p}
  BY <1>2, <1>4, FilesAssumption
<1>6. Covers(index, manifest) BY <1>1 DEF TransportInv
<1>7. Covers(index, manifest)'
  <2>1. index' = [q \in DOMAIN index' |-> index'[q]] BY <1>4
  <2>2. DOMAIN index' \cap Paths \subseteq DOMAIN working' BY <1>1, <1>5, <1>6 DEF Covers
  <2>3. \A q \in DOMAIN index' \cap Paths : index'[q] = working'[q] BY <1>1, <1>4, <1>5, <1>6 DEF Covers
  <2>4. \A q \in DOMAIN working' : q \notin DOMAIN index' => \E i \in DOMAIN manifest' : manifest'[i].path = q
    <3> SUFFICES ASSUME NEW q \in DOMAIN working, q \notin DOMAIN index' PROVE \E i \in DOMAIN manifest' : manifest'[i].path = q
      BY <1>1
    <3>1. CASE q = p BY <1>2, <1>3, <3>1
    <3>2. CASE q # p
      <4>1. q \notin DOMAIN index BY <1>4, <3>2
      <4>2. PICK i \in DOMAIN manifest : manifest[i].path = q BY <1>6, <4>1 DEF Covers
      <4> QED BY <1>3, <4>2
    <3> QED BY <3>1, <3>2
  <2>5. \A i \in DOMAIN manifest' : manifest'[i].path \in DOMAIN working' /\ Back(manifest'[i]) = working'[manifest'[i].path]
    <3> SUFFICES ASSUME NEW i \in DOMAIN manifest' PROVE manifest'[i].path \in DOMAIN working /\ Back(manifest'[i]) = working[manifest'[i].path]
      BY <1>1
    <3>1. CASE i \in DOMAIN manifest BY <1>3, <1>6, <3>1 DEF Covers
    <3>2. CASE i = Len(manifest) + 1 BY <1>2, <1>3, <3>2
    <3> QED BY <1>3, <3>1, <3>2
  <2> QED BY <2>1, <2>2, <2>3, <2>4, <2>5 DEF Covers, Back
<1>8. \A q \in DOMAIN index' : Size(index'[q]) \in Nat /\ (q \in todo' \/ Size(index'[q]) <= BlobLimit)
  <2> SUFFICES ASSUME NEW q \in DOMAIN index' PROVE Size(index'[q]) \in Nat /\ (q \in todo' \/ Size(index'[q]) <= BlobLimit)
    OBVIOUS
  <2>1. CASE q \in DOMAIN index \ {p} BY <1>1, <1>4, <2>1 DEF TransportInv
  <2>2. CASE q \notin DOMAIN index
    <3>1. q \in new /\ index'[q] = [mode |-> "file", data |-> Chunks(p)[q[2]].sha] BY <1>4, <2>2
    <3> QED BY <1>2, <3>1
  <2> QED BY <1>2, <1>4, <2>1, <2>2, FilesAssumption
<1>9. todo' \subseteq DOMAIN index' \cap Paths /\ \A q \in todo' : Large(index'[q])
  BY <1>1, <1>4, <1>5 DEF TransportInv
<1>10. /\ Working' /\ restoring' \in Manifests /\ pc' = "split"
  BY <1>1 DEF TransportInv, Working
<1>11. \A q \in todo' : Large(index[q])' BY <1>9 DEF Large, Size
<1>12. \A q \in DOMAIN index' : Size(index[q])' \in Nat /\ (q \in todo' \/ Size(index[q])' <= BlobLimit)
  BY <1>8 DEF Size
<1> QED BY <1>3, <1>7, <1>9, <1>10, <1>11, <1>12 DEF TransportInv, AtRunner, Manifests, ManifestFile

LEMMA RestorePreserves == ASSUME TransportInv, RestoreTransportFile PROVE TransportInv'
<1> DEFINE file == Head(restoring)
<1>1. /\ pc = "restore" /\ restoring # <<>> /\ UNCHANGED <<backend, working, oversized, manifest>>
      /\ \/ /\ source' = [q \in DOMAIN source \cup {file.path} |->
                           IF q = file.path THEN [mode |-> IF file.exec THEN "exec" ELSE "file", data |-> file.sha] ELSE source[q]]
            /\ restoring' = Tail(restoring) /\ pc' = pc
         \/ pc' = "unrestorable" /\ UNCHANGED <<source, restoring>>
  BY DEF RestoreTransportFile, inputs, cli
<1>2. /\ restoring \in Manifests /\ Covers(source, restoring) /\ manifest \in Manifests /\ Working
  BY <1>1 DEF TransportInv, AtRunner
<1>3. /\ file \in ManifestFile /\ Tail(restoring) \in Manifests /\ Len(Tail(restoring)) = Len(restoring) - 1
      /\ \A i \in 1..Len(Tail(restoring)) : Tail(restoring)[i] = restoring[i + 1]
      /\ DOMAIN restoring = 1..Len(restoring) /\ DOMAIN Tail(restoring) = 1..Len(Tail(restoring)) /\ Len(restoring) \in Nat
      /\ file = restoring[1] /\ 1 \in DOMAIN restoring
  BY <1>1, <1>2, HeadTailProperties DEF Manifests
<1>4. file.path \in DOMAIN working /\ Back(file) = working[file.path] /\ file.path \in Paths
  BY <1>2, <1>3 DEF Covers, ManifestFile
<1>5. CASE pc' = "unrestorable" BY <1>1, <1>2, <1>5 DEF TransportInv, Working, AtRunner, Manifests, ManifestFile
<1>6. CASE pc' = "restore"
  <2> HIDE DEF file
  <2>1. /\ DOMAIN source' = DOMAIN source \cup {file.path} /\ restoring' = Tail(restoring)
        /\ source'[file.path] = Back(file) /\ \A q \in DOMAIN source : q # file.path => source'[q] = source[q]
        /\ source' = [q \in DOMAIN source' |-> source'[q]]
    BY <1>1, <1>6 DEF Back
  <2>2. DOMAIN source' \cap Paths \subseteq DOMAIN working BY <1>2, <1>4, <2>1 DEF Covers
  <2>3. \A q \in DOMAIN source' \cap Paths : source'[q] = working[q] BY <1>2, <1>4, <2>1 DEF Covers
  <2>4. \A q \in DOMAIN working : q \notin DOMAIN source' => \E i \in DOMAIN restoring' : restoring'[i].path = q
    <3> SUFFICES ASSUME NEW q \in DOMAIN working, q \notin DOMAIN source' PROVE \E i \in DOMAIN restoring' : restoring'[i].path = q
      OBVIOUS
    <3>1. q \notin DOMAIN source /\ q # file.path BY <2>1
    <3>2. PICK i \in DOMAIN restoring : restoring[i].path = q BY <1>2, <3>1 DEF Covers
    <3>3. i # 1 BY <1>3, <3>1, <3>2
    <3>4. i - 1 \in DOMAIN restoring' /\ restoring'[i - 1] = restoring[i] BY <1>3, <2>1, <3>3
    <3> QED BY <3>2, <3>4
  <2>5. \A i \in DOMAIN restoring' : restoring'[i].path \in DOMAIN working /\ Back(restoring'[i]) = working[restoring'[i].path]
    BY <1>2, <1>3, <2>1 DEF Covers
  <2>6. Covers(source, restoring)'
    BY <1>1, <2>1, <2>2, <2>3, <2>4, <2>5 DEF Covers, Back
  <2> QED BY <1>1, <1>2, <1>3, <1>6, <2>1, <2>6 DEF TransportInv, Working, AtRunner, Manifests, ManifestFile
<1> QED BY <1>1, <1>5, <1>6

LEMMA TransportNext == TransportInv /\ [Next]_vars => TransportInv'
<1> SUFFICES ASSUME TransportInv, [Next]_vars PROVE TransportInv'
  OBVIOUS
<1> DEFINE Still == UNCHANGED <<backend, working, oversized, manifest>>
<1>k. Still => Working' /\ manifest' \in Manifests
  BY DEF TransportInv, Working, Manifests, ManifestFile
<1>1. CASE UNCHANGED vars
  BY <1>1 DEF vars, inputs, cli, job, TransportInv, Working, Covers, Back, Large, Size, Manifests, ManifestFile, AtRunner
<1>2. CASE Create
  <2>1. Still /\ pc = "create" /\ manifest = <<>> /\ index' = working /\ restoring' = restoring
    BY <1>2 DEF Create, inputs, job, TransportInv
  <2>2. CASE pc' = "refused"
    BY <1>k, <2>1, <2>2 DEF TransportInv, AtRunner, Manifests, ManifestFile
  <2>3. CASE pc' = "split"
    <3>1. todo' = {p \in DOMAIN working : Large(working[p])} BY <1>2, <2>3 DEF Create
    <3>2. Covers(working, <<>>) /\ DOMAIN working \subseteq Paths BY DEF TransportInv, Working, Covers
    <3>3. \A q \in DOMAIN working : Size(working[q]) \in Nat /\ (Large(working[q]) \/ Size(working[q]) <= BlobLimit)
      BY FilesAssumption, TransportAssumption DEF TransportInv, Working, Large, Size
    <3>4. Covers(index, manifest)' BY <2>1, <3>2 DEF Covers, Back
    <3>5. /\ \A q \in DOMAIN index' : Size(index[q])' \in Nat /\ (q \in todo' \/ Size(index[q])' <= BlobLimit)
          /\ \A p \in todo' : Large(index[p])'
      BY <2>1, <3>1, <3>3 DEF Size, Large
    <3> QED BY <1>k, <2>1, <2>3, <3>1, <3>2, <3>4, <3>5 DEF TransportInv, AtRunner, Manifests, ManifestFile
  <2> QED BY <1>2, <2>2, <2>3 DEF Create
<1>3. ASSUME NEW p \in Paths, SplitBlob(p) PROVE TransportInv' BY <1>3, SplitPreserves
<1>4. CASE Push
  <2>1. Still /\ pc = "split" /\ todo = {} /\ restoring' = restoring /\ Covers(index, manifest) /\ (manifest = <<>> => DOMAIN index \subseteq Paths)
    BY <1>4 DEF Push, inputs, job, TransportInv
  <2>2. CASE pc' = "rejected"
    <3>1. oversized BY <1>4, <2>1, <2>2, TransportAssumption DEF Push, TransportInv
    <3> QED BY <1>k, <2>1, <2>2, <3>1 DEF TransportInv, AtRunner, Manifests, ManifestFile
  <2>3. CASE pc' = "pushed"
    <3>1. pushed' = [tree |-> index, manifest |-> manifest] BY <1>4, <2>3 DEF Push
    <3>2. Covers(pushed.tree, manifest)' BY <2>1, <3>1 DEF Covers, Back
    <3> QED BY <1>k, <2>1, <2>3, <3>1, <3>2 DEF TransportInv, AtRunner, Manifests, ManifestFile
  <2> QED BY <1>4, <2>2, <2>3 DEF Push
<1>5. CASE CheckoutSnapshot
  <2>1. Still /\ pc = "pushed" /\ pc' = "code" /\ restoring' = restoring /\ backend = "repository" /\ source' = pushed.tree
    BY <1>5 DEF CheckoutSnapshot, inputs, cli
  <2>2. manifest = <<>> => pushed.tree = working BY <2>1 DEF TransportInv, Covers, Working
  <2> QED BY <1>k, <2>1, <2>2 DEF TransportInv, AtRunner, Manifests, ManifestFile
<1>6. CASE CreateToken
  <2>1. Still /\ pc = "pushed" /\ pc' = "checkout" /\ restoring' = restoring /\ pushed' = pushed
    BY <1>6 DEF CreateToken, inputs, cli
  <2>2. Covers(pushed.tree, manifest)' BY <2>1 DEF TransportInv, Covers, Back
  <2> QED BY <1>k, <2>1, <2>2 DEF TransportInv, AtRunner, Manifests, ManifestFile
<1>7. CASE Checkout
  <2>1. Still /\ pc = "checkout" /\ pushed.manifest = manifest /\ Covers(pushed.tree, manifest) /\ (manifest = <<>> => DOMAIN pushed.tree \subseteq Paths)
    BY <1>7 DEF Checkout, inputs, cli, TransportInv
  <2>2. CASE pc' = "abandon" /\ UNCHANGED <<source, restoring>>
    BY <1>k, <2>1, <2>2 DEF TransportInv, AtRunner, Manifests, ManifestFile
  <2>3. CASE source' = pushed.tree /\ restoring' = pushed.manifest /\ pc' = "revoke"
    <3>1. Covers(source, restoring)' BY <2>1, <2>3 DEF Covers, Back
    <3> QED BY <1>k, <2>1, <2>3, <3>1 DEF TransportInv, AtRunner, Manifests, ManifestFile
  <2> QED BY <1>7, <2>2, <2>3 DEF Checkout
<1>8. ASSUME Still, UNCHANGED <<source, restoring>>, pc \in {"revoke", "verify", "manifest"}, pc' \in {"verify", "manifest", "restore", "failed", "unrestorable"}
      PROVE  TransportInv'
  <2>1. pc' \in AtRunner => Covers(source, restoring)' BY <1>8 DEF TransportInv, Covers, Back, AtRunner
  <2> QED BY <1>k, <1>8, <2>1 DEF TransportInv, AtRunner, Manifests, ManifestFile
<1>9. ASSUME Still, restoring' = restoring, pc' = "failed" PROVE TransportInv'
  BY <1>k, <1>9 DEF TransportInv, AtRunner, Manifests, ManifestFile
<1>10. CASE RevokeInstallationToken BY <1>8, <1>9, <1>10 DEF RevokeInstallationToken, inputs, cli
<1>11. CASE VerifyCheckoutNoCredentials BY <1>8, <1>11 DEF VerifyCheckoutNoCredentials, inputs, cli, job
<1>12. CASE ReadManifest
  <2>1. CASE restoring = <<>>
    <3>1. Still /\ pc = "manifest" /\ pc' = "code" /\ UNCHANGED <<source, restoring>> BY <1>12, <2>1 DEF ReadManifest, inputs, cli, job
    <3>2. source = working BY <2>1, <3>1 DEF TransportInv, AtRunner, Covers, Working
    <3> QED BY <1>k, <3>1, <3>2 DEF TransportInv, AtRunner, Manifests, ManifestFile
  <2>2. CASE restoring # <<>> BY <1>8, <1>12, <2>2 DEF ReadManifest, inputs, cli, job
  <2> QED BY <2>1, <2>2
<1>13. CASE RestoreTransportFile BY <1>13, RestorePreserves
<1>14. CASE RemoveTransport
  <2>1. Still /\ pc = "restore" /\ pc' = "code" /\ restoring = <<>> /\ restoring' = restoring /\ source' = [q \in DOMAIN source \cap Paths |-> source[q]]
    BY <1>14 DEF RemoveTransport, inputs, cli
  <2>2. Covers(source, restoring) BY <2>1 DEF TransportInv, AtRunner
  <2>3. DOMAIN source \cap Paths = DOMAIN working BY <2>1, <2>2 DEF TransportInv, Working, Covers
  <2>4. source' = working BY <2>1, <2>2, <2>3 DEF TransportInv, Working, Covers
  <2> QED BY <1>k, <2>1, <2>4 DEF TransportInv, AtRunner, Manifests, ManifestFile
<1>15. CASE Fail BY <1>9, <1>15 DEF Fail, inputs, cli, job
<1> QED BY <1>1, <1>2, <1>3, <1>4, <1>5, <1>6, <1>7, <1>10, <1>11, <1>12, <1>13, <1>14, <1>15 DEF Next

\* Project code of a central build sees the working tree, whatever its sizes and
\* wherever a step fails; and so does that of a repository build without large files.
THEOREM CodeSees == Spec => []CodeSeesWorkingTree
<1>1. TransportInv => CodeSeesWorkingTree BY DEF TransportInv, CodeSeesWorkingTree
<1> QED BY <1>1, TransportInit, TransportNext, PTL DEF Spec

\* No blob the CLI makes of a working tree is over the remote's limit.
THEOREM RemoteAccepts == Spec => []BlobsAccepted
<1>1. TransportInv => BlobsAccepted BY DEF TransportInv, BlobsAccepted
<1> QED BY <1>1, TransportInit, TransportNext, PTL DEF Spec

(***************************************************************************)
(* The paths of the chunks.                                                *)
(***************************************************************************)
\* Different paths of chunks of the files in Q.
Unlike(s, Q) ==
    /\ s \in Seq(Paths \X Nat)
    /\ \A i \in 1..Len(s) : s[i][1] \in Q
    /\ \A i, j \in 1..Len(s) : s[i] = s[j] => i = j

LEMMA UnlikeDistinct == ASSUME NEW s, NEW Q, Unlike(s, Q) PROVE Distinct(s)
<1> DEFINE S == {s[i] : i \in DOMAIN s}
           n == Len(s)
<1>1. n \in Nat /\ DOMAIN s = 1..n /\ \A i, j \in 1..n : s[i] = s[j] => i = j
  BY DEF Unlike
<1>2. s = [i \in 1..n |-> s[i]]
  BY DEF Unlike
<1>3. s \in [1..n -> S] /\ S = {s[i] : i \in 1..n}
  BY <1>1, <1>2
<1>4. \A x \in S : \E i \in 1..n : s[i] = x
  BY <1>3
<1> HIDE DEF S, n
<1>5. s \in Bijection(1..n, S)
  BY <1>1, <1>3, <1>4 DEF Bijection, Injection, Surjection, IsInjective
<1>6. Cardinality(S) = n
  BY <1>1, <1>5, FS_CountingElements DEF ExistsBijection
<1> QED
  BY <1>6 DEF Distinct, S, n

LEMMA JoinUnlike ==
    ASSUME NEW s, NEW Q, Unlike(s, Q), NEW t, NEW R, Unlike(t, R), Q \cap R = {}
    PROVE  Unlike(s \o t, Q \cup R)
<1> DEFINE u == s \o t
           m == Len(s)
           n == Len(t)
<1>1. /\ u \in Seq(Paths \X Nat) /\ Len(u) = m + n /\ m \in Nat /\ n \in Nat
      /\ \A i \in 1..(m + n) : u[i] = IF i <= m THEN s[i] ELSE t[i - m]
  BY ConcatProperties DEF Unlike
<1>2. /\ \A i \in 1..m : s[i][1] \in Q
      /\ \A i \in 1..n : t[i][1] \in R
      /\ \A i, j \in 1..m : s[i] = s[j] => i = j
      /\ \A i, j \in 1..n : t[i] = t[j] => i = j
  BY DEF Unlike
<1> HIDE DEF u, m, n
<1>3. ASSUME NEW i \in 1..(m + n)
      PROVE  \/ i \in 1..m /\ u[i] = s[i] /\ u[i][1] \in Q
             \/ i > m /\ i - m \in 1..n /\ u[i] = t[i - m] /\ u[i][1] \in R
  BY <1>1, <1>2
<1>4. ASSUME NEW i \in 1..(m + n), NEW j \in 1..(m + n), u[i] = u[j]
      PROVE  i = j
  <2>1. CASE u[i][1] \in Q
    <3>1. u[i][1] \notin R /\ u[j][1] \notin R
      BY <1>4, <2>1
    <3>2. i \in 1..m /\ u[i] = s[i] /\ j \in 1..m /\ u[j] = s[j]
      BY <1>3, <3>1
    <3> QED
      BY <1>2, <1>4, <3>2
  <2>2. CASE u[i][1] \notin Q
    <3>1. u[j][1] \notin Q
      BY <1>4, <2>2
    <3>2. i - m \in 1..n /\ u[i] = t[i - m] /\ j - m \in 1..n /\ u[j] = t[j - m]
      BY <1>3, <2>2, <3>1
    <3>3. i - m = j - m
      BY <1>2, <1>4, <3>2
    <3> QED
      BY <1>1, <3>3
  <2> QED
    BY <2>1, <2>2
<1>5. \A i \in 1..(m + n) : u[i][1] \in Q \cup R
  BY <1>3
<1> QED
  BY <1>1, <1>4, <1>5 DEF Unlike, u

\* Each member of s has chunks of its own file only, and no two are of one file.
OfFiles(s, P, n) ==
    /\ n \in Nat /\ s = [i \in 1..n |-> s[i]]
    /\ \A i \in 1..n : Unlike(s[i], {P[i]})
    /\ \A i, j \in 1..n : P[i] = P[j] => i = j

\* The chunks of several files have different paths.
LEMMA FlattenUnlike ==
    ASSUME NEW s, NEW P, NEW n, OfFiles(s, P, n), n > 0
    PROVE  Unlike(FlattenSeq(s), {P[i] : i \in 1..n})
<1> DEFINE T == Seq(Paths \X Nat)
           First(k) == {P[i] : i \in 1..k}
<1>1. /\ n \in Nat /\ s = [i \in 1..n |-> s[i]]
      /\ \A i \in 1..n : Unlike(s[i], {P[i]})
      /\ \A i, j \in 1..n : P[i] = P[j] => i = j
  BY DEF OfFiles
<1>2. \A i \in 1..n : s[i] \in T
  BY <1>1 DEF Unlike
<1>3. s \in Seq(T) /\ Len(s) = n
  <2> HIDE DEF T
  <2>1. s \in [1..n -> T]
    BY <1>1, <1>2
  <2> QED
    BY <1>1, <2>1
<1>4. PICK f : FlattenSeq(s) = f[n] /\ f[1] = s[1] /\ \A k \in 2..n : f[k] = f[k - 1] \o s[k]
  <2> HIDE DEF T, First
  <2>1. s \in Seq(T) /\ n \in Nat /\ Len(s) = n /\ n > 0
    BY <1>1, <1>3
  <2> QED
    BY <2>1, FlattenEquation
<1> DEFINE B == {k \in Nat : k \in 1..n /\ ~Unlike(f[k], First(k))}
<1>5. B = {}
  <2> SUFFICES ASSUME B # {} PROVE FALSE
    OBVIOUS
  <2>0. B \in SUBSET Nat
    OBVIOUS
  <2>1. PICK m \in B : \A k \in B : m <= k
    <3> HIDE DEF B
    <3> QED
      BY <2>0, LeastNatural
  <2>2. m \in Nat /\ m \in 1..n /\ ~Unlike(f[m], First(m))
    OBVIOUS
  <2>3. m # 1
    <3>1. First(1) = {P[1]}
      OBVIOUS
    <3>2. Unlike(s[1], {P[1]})
      BY <1>1
    <3> HIDE DEF First
    <3> QED
      BY <1>4, <2>2, <3>1, <3>2
  <2>4. m - 1 \in 1..n /\ m \in 2..n /\ ~(m <= m - 1) /\ m - 1 \in Nat
    BY <1>1, <2>2, <2>3
  <2>5. Unlike(f[m - 1], First(m - 1))
    <3>1. m - 1 \notin B
      <4> HIDE DEF B
      <4> QED
        BY <2>1, <2>4
    <3> QED
      BY <2>4, <3>1
  <2>6. First(m) = First(m - 1) \cup {P[m]} /\ First(m - 1) \cap {P[m]} = {}
    <3>1. \A i \in 1..(m - 1) : i \in 1..m /\ i \in 1..n /\ i # m
      BY <1>1, <2>2, <2>4
    <3>2. \A i \in 1..m : i = m \/ i \in 1..(m - 1)
      BY <2>2
    <3>3. m \in 1..m
      BY <2>2
    <3>4. First(m) = First(m - 1) \cup {P[m]}
      BY <3>1, <3>2, <3>3
    <3>5. \A i \in 1..(m - 1) : P[i] # P[m]
      BY <1>1, <2>2, <3>1
    <3> QED
      BY <3>4, <3>5
  <2>7. Unlike(s[m], {P[m]})
    BY <1>1, <2>2
  <2> HIDE DEF First
  <2>8. Unlike(f[m - 1] \o s[m], First(m - 1) \cup {P[m]})
    BY <2>5, <2>6, <2>7, JoinUnlike
  <2> QED
    BY <1>4, <2>2, <2>4, <2>6, <2>8
<1>6. n \in 1..n
  BY <1>1
<1>7. Unlike(f[n], First(n))
  <2> HIDE DEF First
  <2> QED
    BY <1>1, <1>5, <1>6
<1> QED
  BY <1>4, <1>7

(***************************************************************************)
(* What the restoration finds.                                             *)
(***************************************************************************)
\* The file was taken out of the tree, and its chunks are there.
TakenOut(t, file) ==
    /\ file.path \in Paths \ Reserved /\ file.path \notin DOMAIN t
    /\ file.sha \in Seq(Units) /\ Len(file.sha) > Threshold
    /\ file.chunks = [k \in 1..Parts(Len(file.sha)) |-> [path |-> <<file.path, k>>, sha |-> Part(file.sha, k)]]
    /\ \A k \in 1..Parts(Len(file.sha)) : <<file.path, k>> \in DOMAIN t /\ t[<<file.path, k>>].data = Part(file.sha, k)
Prepared(t, man) ==
    /\ \A i \in DOMAIN man : TakenOut(t, man[i])
    /\ \A i, j \in DOMAIN man : man[i].path = man[j].path => i = j
\* No chunks but those of the manifest's files.
Accounted(t, man) == \A q \in DOMAIN t \ Paths : \E i \in DOMAIN man : q[1] = man[i].path

\* The checkout with the first d files restored.
Restored(d) ==
    /\ d \in 0..Len(manifest) /\ restoring = SubSeq(manifest, d + 1, Len(manifest))
    /\ DOMAIN source = DOMAIN pushed.tree \cup {manifest[i].path : i \in 1..d}
    /\ \A q \in DOMAIN pushed.tree : source[q] = pushed.tree[q]

RestoreInv ==
    /\ pc = "split" => DOMAIN working \cap Reserved = {} /\ Prepared(index, manifest) /\ Accounted(index, manifest)
    /\ pc \in {"pushed", "checkout"} \cup AtRunner => pushed.manifest = manifest /\ Prepared(pushed.tree, manifest)
    /\ pc \in AtRunner \ {"restore"} => restoring = manifest /\ source = pushed.tree
    /\ pc = "restore" => \E d \in Nat : Restored(d)
    /\ pc = "unrestorable" => Len(pushed.manifest) > MaxFiles \/ ~WithinLimits

\* A split takes one more file out of the tree.
LEMMA SplitTakesOut == ASSUME TransportInv, RestoreInv, NEW p \in Paths, SplitBlob(p) PROVE RestoreInv'
<1> DEFINE new == ChunkPaths(Chunks(p))
           file == Described(p)
           n == Len(manifest)
           N == Parts(Len(file.sha))
<1>1. /\ pc = "split" /\ pc' = "split" /\ p \in todo /\ manifest' = Append(manifest, file) /\ working' = working
      /\ index' = [q \in (DOMAIN index \ {p}) \cup new |->
                    IF q \in DOMAIN index THEN index[q] ELSE [mode |-> "file", data |-> Chunks(p)[q[2]].sha]]
  BY DEF SplitBlob, inputs
<1>2. /\ DOMAIN working \cap Reserved = {} /\ Prepared(index, manifest) /\ Accounted(index, manifest)
  BY <1>1 DEF RestoreInv
<1>3. /\ p \in DOMAIN index /\ p \in DOMAIN working /\ index[p] = working[p] /\ Large(index[p]) /\ file \in ManifestFile
      /\ new \subseteq Paths \X Nat
  BY <1>1, DescribedOK DEF TransportInv
<1>4. file.path = p /\ file.sha = index[p].data /\ file.chunks = Chunks(p)
  BY DEF Described
<1>5. file.sha \in Seq(Units) /\ Len(file.sha) > Threshold /\ Len(file.sha) \in Nat /\ Len(file.sha) > 0
  BY <1>3, <1>4, TransportAssumption DEF Large, Size, ManifestFile
<1>6. N \in Nat /\ Chunks(p) = [k \in 1..N |-> [path |-> <<p, k>>, sha |-> Part(file.sha, k)]]
  BY <1>4, <1>5, Ends DEF Chunks, Size
<1>7. new = {<<p, k>> : k \in 1..N}
  <2> HIDE DEF N, file
  <2> QED
    BY <1>6 DEF ChunkPaths
<1>8. /\ n \in Nat /\ DOMAIN manifest = 1..n /\ DOMAIN manifest' = 1..(n + 1)
      /\ \A i \in 1..n : manifest'[i] = manifest[i]
      /\ manifest'[n + 1] = file
  <2> HIDE DEF file
  <2>1. manifest \in Seq(ManifestFile) /\ file \in ManifestFile
    BY <1>3 DEF TransportInv, Manifests
  <2> QED
    BY <1>1, <2>1, AppendProperties
<1> HIDE DEF new, file, n, N
<1>9. /\ DOMAIN index' = (DOMAIN index \ {p}) \cup new
      /\ \A q \in DOMAIN index \ {p} : index'[q] = index[q]
      /\ \A q \in new : q \notin DOMAIN index => index'[q].data = Chunks(p)[q[2]].sha
  BY <1>1
<1>10. ASSUME NEW i \in 1..n PROVE TakenOut(index', manifest[i]) /\ manifest[i].path # p
  <2>1. TakenOut(index, manifest[i])
    BY <1>2, <1>8 DEF Prepared
  <2>2. manifest[i].path # p /\ manifest[i].path \in Paths
    BY <1>3, <2>1 DEF TakenOut
  <2>3. manifest[i].path \notin DOMAIN index'
    BY <1>3, <1>9, <2>1, FilesAssumption DEF TakenOut
  <2>4. \A k \in 1..Parts(Len(manifest[i].sha)) :
            /\ <<manifest[i].path, k>> \in DOMAIN index' /\ index'[<<manifest[i].path, k>>] = index[<<manifest[i].path, k>>]
    <3> SUFFICES ASSUME NEW k \in 1..Parts(Len(manifest[i].sha))
                 PROVE  /\ <<manifest[i].path, k>> \in DOMAIN index'
                        /\ index'[<<manifest[i].path, k>>] = index[<<manifest[i].path, k>>]
      OBVIOUS
    <3>1. <<manifest[i].path, k>> \in DOMAIN index
      BY <2>1 DEF TakenOut
    <3>2. k \in Nat
      <4>1. Len(manifest[i].sha) \in Nat /\ Len(manifest[i].sha) > 0
        BY <2>1, TransportAssumption DEF TakenOut
      <4>2. Parts(Len(manifest[i].sha)) \in Nat
        BY <4>1, Ends
      <4> QED
        BY <4>2
    <3>3. <<manifest[i].path, k>> \in Paths \X Nat
      BY <2>2, <3>2
    <3>4. <<manifest[i].path, k>> # p
      BY <3>3, FilesAssumption
    <3> QED
      BY <1>9, <3>1, <3>4
  <2> QED
    BY <2>1, <2>2, <2>3, <2>4 DEF TakenOut
<1>11. TakenOut(index', file)
  <2>1. p \in Paths \ Reserved
    BY <1>2, <1>3
  <2>2. p \notin DOMAIN index'
    BY <1>3, <1>9, FilesAssumption
  <2>3. ASSUME NEW k \in 1..N
        PROVE  <<p, k>> \in DOMAIN index' /\ index'[<<p, k>>].data = Part(file.sha, k)
    <3>1. <<p, k>> \in new
      BY <1>7
    <3>2. <<p, k>> \notin Paths
      BY <1>3, <3>1, FilesAssumption
    <3>3. <<p, k>> \notin DOMAIN index
      <4> SUFFICES ASSUME <<p, k>> \in DOMAIN index PROVE FALSE
        OBVIOUS
      <4>1. PICK i \in 1..n : <<p, k>>[1] = manifest[i].path
        BY <1>2, <1>8, <3>2 DEF Accounted
      <4> QED
        BY <1>10, <4>1
    <3>4. index'[<<p, k>>].data = Chunks(p)[<<p, k>>[2]].sha
      BY <1>9, <3>1, <3>3
    <3>5. <<p, k>>[2] = k
      OBVIOUS
    <3>6. Chunks(p)[k].sha = Part(file.sha, k)
      BY <1>6
    <3> QED
      BY <1>9, <3>1, <3>4, <3>5, <3>6
  <2> QED
    BY <1>4, <1>5, <1>6, <2>1, <2>2, <2>3 DEF TakenOut, N
<1>12. Prepared(index', manifest')
  <2>1. \A i \in 1..(n + 1) : TakenOut(index', manifest'[i])
    BY <1>8, <1>10, <1>11
  <2>2. ASSUME NEW i \in 1..(n + 1), NEW j \in 1..(n + 1), manifest'[i].path = manifest'[j].path PROVE i = j
    <3>1. CASE i \in 1..n /\ j \in 1..n
      BY <1>2, <1>8, <2>2, <3>1 DEF Prepared
    <3>2. CASE i = n + 1 /\ j = n + 1
      BY <3>2
    <3>3. CASE i = n + 1 /\ j \in 1..n
      BY <1>4, <1>8, <1>10, <2>2, <3>3
    <3>4. CASE i \in 1..n /\ j = n + 1
      BY <1>4, <1>8, <1>10, <2>2, <3>4
    <3> QED
      BY <1>8, <3>1, <3>2, <3>3, <3>4
  <2> QED
    BY <1>8, <2>1, <2>2 DEF Prepared
<1>13. Accounted(index', manifest')
  <2> SUFFICES ASSUME NEW q \in DOMAIN index' \ Paths PROVE \E i \in 1..(n + 1) : q[1] = manifest'[i].path
    BY <1>8 DEF Accounted
  <2>1. CASE q \in new
    BY <1>4, <1>7, <1>8, <2>1
  <2>2. CASE q \in DOMAIN index
    BY <1>2, <1>8, <2>2 DEF Accounted
  <2> QED
    BY <1>9, <2>1, <2>2
<1> QED
  BY <1>1, <1>2, <1>12, <1>13 DEF RestoreInv, AtRunner, Prepared, TakenOut, Accounted

\* The next file of the manifest passes every check of restoreTransportFile but that
\* of the limits.
LEMMA RestorableUnlessLimited ==
    ASSUME TransportInv, RestoreInv, pc = "restore", restoring # <<>>, WithinLimits
    PROVE  Restorable(Head(restoring))
<1> DEFINE file == Head(restoring)
           n == Len(manifest)
           N == Parts(Len(file.sha))
<1>1. manifest \in Seq(ManifestFile) /\ pushed.manifest = manifest /\ Prepared(pushed.tree, manifest)
  BY DEF TransportInv, RestoreInv, Manifests, AtRunner
<1>2. n \in Nat /\ DOMAIN manifest = 1..n /\ \A i \in 1..n : manifest[i] \in ManifestFile /\ TakenOut(pushed.tree, manifest[i])
  BY <1>1 DEF Prepared
<1>3. PICK d \in Nat : Restored(d)
  BY DEF RestoreInv
<1>4. d <= n /\ restoring = SubSeq(manifest, d + 1, n)
  BY <1>2, <1>3 DEF Restored
<1> HIDE DEF n
<1>5. /\ restoring \in Seq(ManifestFile) /\ Len(restoring) = n - d /\ d < n
      /\ \A i \in 1..(n - d) : restoring[i] = manifest[d + i]
  <2>1. \A i \in (d + 1)..n : manifest[i] \in ManifestFile
    BY <1>2
  <2>2. /\ restoring \in Seq(ManifestFile) /\ Len(restoring) = IF d + 1 <= n THEN n - (d + 1) + 1 ELSE 0
        /\ \A i \in 1..(n - (d + 1) + 1) : restoring[i] = manifest[(d + 1) + i - 1]
    BY <1>2, <1>4, <2>1, SubSeqProperties
  <2>3. Len(restoring) # 0
    BY <2>2
  <2>4. d + 1 <= n /\ n - (d + 1) + 1 = n - d
    BY <1>2, <1>4, <2>2, <2>3
  <2>5. \A i \in 1..(n - d) : (d + 1) + i - 1 = d + i
    OBVIOUS
  <2> QED
    BY <1>2, <2>2, <2>4, <2>5
<1>6. d + 1 \in 1..n /\ file = manifest[d + 1]
  <2>1. 1 \in 1..(n - d)
    BY <1>2, <1>5
  <2> QED
    BY <1>2, <1>5, <2>1
<1>7. TakenOut(pushed.tree, file)
  BY <1>2, <1>6
<1> HIDE DEF file
<1>8. Len(file.sha) \in Nat /\ Len(file.sha) > 0 /\ N \in Nat /\ N > 0
  <2>1. Len(file.sha) \in Nat /\ Len(file.sha) > 0
    BY <1>7, TransportAssumption DEF TakenOut
  <2> QED
    BY <2>1, Ends
<1>9. DOMAIN file.chunks = 1..N /\ file.chunks # <<>>
  BY <1>7, <1>8 DEF TakenOut
<1>10. file.path \notin DOMAIN source
  <2>1. \A i \in 1..d : i \in 1..n /\ i # d + 1
    BY <1>2, <1>4
  <2>2. \A i \in 1..d : manifest[i].path # file.path
    BY <1>1, <1>2, <1>6, <2>1 DEF Prepared
  <2> QED
    BY <1>3, <1>7, <2>2 DEF Restored, TakenOut
<1>11. ASSUME NEW k \in 1..N
       PROVE  ChunkMatches(file.chunks[k]) /\ source[file.chunks[k].path].data = Part(file.sha, k)
  <2>1. file.chunks[k] = [path |-> <<file.path, k>>, sha |-> Part(file.sha, k)]
    BY <1>7, <1>8 DEF TakenOut
  <2>2. <<file.path, k>> \in DOMAIN pushed.tree /\ pushed.tree[<<file.path, k>>].data = Part(file.sha, k)
    BY <1>7 DEF TakenOut
  <2>3. <<file.path, k>> \in DOMAIN source /\ source[<<file.path, k>>].data = Part(file.sha, k)
    BY <1>3, <2>2 DEF Restored
  <2>4. Len(Part(file.sha, k)) \in 1..ChunkSize
    BY <1>7, <1>8, PartLength DEF TakenOut
  <2>5. <<file.path, k>> \in Paths \X Nat
    BY <1>7, <1>8 DEF TakenOut
  <2> QED
    BY <2>1, <2>3, <2>4, <2>5 DEF ChunkMatches, ValidateTransportPath
<1>12. FlattenSeq([k \in DOMAIN file.chunks |-> source[file.chunks[k].path].data]) = file.sha
  <2>1. [k \in DOMAIN file.chunks |-> source[file.chunks[k].path].data] = [k \in 1..N |-> Part(file.sha, k)]
    BY <1>9, <1>11
  <2> QED
    BY <1>7, <1>8, <2>1, PartsJoin DEF TakenOut
<1>13. Len(Upto) = d + 1 /\ DOMAIN Upto = 1..(d + 1) /\ \A i \in 1..(d + 1) : Upto[i] = manifest[i]
  <2>1. Upto = SubSeq(manifest, 1, n - (n - d) + 1)
    BY <1>1, <1>5 DEF Upto, n
  <2>2. n - (n - d) + 1 = d + 1
    BY <1>2
  <2>3. Upto = SubSeq(manifest, 1, d + 1)
    BY <2>1, <2>2
  <2>4. \A i \in 1..(d + 1) : manifest[i] \in ManifestFile
    BY <1>2, <1>6
  <2>5. /\ Upto \in Seq(ManifestFile) /\ Len(Upto) = IF 1 <= d + 1 THEN (d + 1) - 1 + 1 ELSE 0
        /\ \A i \in 1..((d + 1) - 1 + 1) : Upto[i] = manifest[1 + i - 1]
    BY <2>3, <2>4, SubSeqProperties
  <2>6. Len(Upto) = d + 1 /\ \A i \in 1..(d + 1) : i \in 1..((d + 1) - 1 + 1) /\ 1 + i - 1 = i
    BY <2>5
  <2> QED
    BY <2>5, <2>6
<1>14. Distinct(FlattenSeq([i \in DOMAIN Upto |-> [k \in DOMAIN Upto[i].chunks |-> Upto[i].chunks[k].path]]))
  <2> DEFINE s == [i \in DOMAIN Upto |-> [k \in DOMAIN Upto[i].chunks |-> Upto[i].chunks[k].path]]
             P == [i \in 1..(d + 1) |-> manifest[i].path]
  <2>1. ASSUME NEW i \in 1..(d + 1)
        PROVE  Unlike(s[i], {P[i]})
    <3> DEFINE M == Parts(Len(manifest[i].sha))
               t == s[i]
    <3>1. TakenOut(pushed.tree, manifest[i])
      BY <1>2, <1>6
    <3>2. Len(manifest[i].sha) \in Nat /\ Len(manifest[i].sha) > 0
      BY <3>1, TransportAssumption DEF TakenOut
    <3>3. M \in Nat
      BY <3>2, Ends
    <3>4. t = [k \in DOMAIN manifest[i].chunks |-> manifest[i].chunks[k].path]
      BY <1>13
    <3>5. t = [k \in 1..M |-> <<manifest[i].path, k>>]
      <4>1. manifest[i].chunks = [k \in 1..M |-> [path |-> <<manifest[i].path, k>>, sha |-> Part(manifest[i].sha, k)]]
        BY <3>1 DEF TakenOut
      <4> HIDE DEF M, t
      <4>2. DOMAIN manifest[i].chunks = 1..M /\ \A k \in 1..M : manifest[i].chunks[k].path = <<manifest[i].path, k>>
        BY <4>1
      <4> QED
        BY <3>4, <4>2
    <3>6. manifest[i].path \in Paths /\ P[i] = manifest[i].path
      BY <3>1 DEF TakenOut
    <3> HIDE DEF t, M, P, s
    <3>7. t \in Seq(Paths \X Nat) /\ Len(t) = M
      BY <3>3, <3>5, <3>6
    <3> QED
      BY <3>3, <3>5, <3>6, <3>7 DEF Unlike, t
  <2>2. s = [i \in 1..(d + 1) |-> s[i]]
    BY <1>13
  <2>3. \A i, j \in 1..(d + 1) : P[i] = P[j] => i = j
    BY <1>1, <1>2, <1>6 DEF Prepared
  <2> HIDE DEF s, P
  <2>4. OfFiles(s, P, d + 1)
    BY <2>1, <2>2, <2>3 DEF OfFiles
  <2>5. Unlike(FlattenSeq(s), {P[i] : i \in 1..(d + 1)})
    BY <2>4, FlattenUnlike
  <2>6. Distinct(FlattenSeq(s))
    BY <2>5, UnlikeDistinct
  <2> QED
    BY <2>6 DEF s
<1>15. ValidateTransportPath(file.path, FALSE) /\ Len(file.sha) > Threshold
  BY <1>7 DEF ValidateTransportPath, TakenOut
<1> QED
  BY <1>9, <1>10, <1>11, <1>12, <1>14, <1>15 DEF Restorable, file

\* ... so the invariant survives a restoration, and a refusal is one for the limits.
LEMMA RestoresOrRefuses == ASSUME TransportInv, RestoreInv, RestoreTransportFile PROVE RestoreInv'
<1> DEFINE file == Head(restoring)
           n == Len(manifest)
<1>1. /\ pc = "restore" /\ restoring # <<>> /\ UNCHANGED <<manifest, pushed>>
      /\ IF Restorable(file)
         THEN /\ source' = [q \in DOMAIN source \cup {file.path} |->
                             IF q = file.path THEN [mode |-> IF file.exec THEN "exec" ELSE "file", data |-> file.sha] ELSE source[q]]
              /\ restoring' = Tail(restoring) /\ pc' = "restore"
         ELSE pc' = "unrestorable" /\ UNCHANGED <<source, restoring>>
  BY DEF RestoreTransportFile, cli
<1>2. manifest \in Seq(ManifestFile) /\ pushed.manifest = manifest /\ Prepared(pushed.tree, manifest)
  BY <1>1 DEF TransportInv, RestoreInv, Manifests, AtRunner
<1>3. (pushed.manifest = manifest /\ Prepared(pushed.tree, manifest))'
  BY <1>1, <1>2 DEF Prepared, TakenOut
<1>4. CASE Restorable(file)
  <2>1. PICK d \in Nat : Restored(d)
    BY <1>1 DEF RestoreInv
  <2>2. n \in Nat /\ d <= n /\ restoring = SubSeq(manifest, d + 1, n)
    BY <1>2, <2>1 DEF Restored
  <2>3. n' = n /\ manifest' = manifest
    BY <1>1
  <2> HIDE DEF n
  <2>4. d < n
    <3>1. \A i \in (d + 1)..n : manifest[i] \in ManifestFile
      BY <1>2, <2>2 DEF n
    <3>2. Len(restoring) = IF d + 1 <= n THEN n - (d + 1) + 1 ELSE 0
      BY <2>2, <3>1, SubSeqProperties
    <3>3. restoring \in Seq(ManifestFile)
      BY <2>2, <3>1, SubSeqProperties
    <3>4. Len(restoring) # 0
      BY <1>1, <3>3
    <3> QED
      BY <2>2, <3>2, <3>4
  <2>5. file = manifest[d + 1] /\ Tail(restoring) = SubSeq(manifest, (d + 1) + 1, n)
    <3>1. \A i \in (d + 1)..n : manifest[i] \in ManifestFile
      BY <1>2, <2>2 DEF n
    <3>2. restoring \in Seq(ManifestFile) /\ \A i \in 1..(n - (d + 1) + 1) : restoring[i] = manifest[(d + 1) + i - 1]
      BY <2>2, <3>1, SubSeqProperties
    <3>3. Len(restoring) = n - (d + 1) + 1
      <4>1. Len(restoring) = IF d + 1 <= n THEN n - (d + 1) + 1 ELSE 0
        BY <2>2, <3>1, SubSeqProperties
      <4> QED
        BY <2>2, <2>4, <4>1
    <3>4. file = restoring[1]
      BY <1>1, <3>2
    <3>5. 1 \in 1..(n - (d + 1) + 1) /\ (d + 1) + 1 - 1 = d + 1
      BY <2>2, <2>4
    <3>6. file = manifest[d + 1]
      BY <3>2, <3>4, <3>5
    <3> DEFINE u == SubSeq(manifest, (d + 1) + 1, n)
               v == Tail(restoring)
    <3>7. /\ v \in Seq(ManifestFile) /\ Len(v) = n - (d + 1)
          /\ \A i \in 1..(n - (d + 1)) : v[i] = restoring[i + 1]
      <4>1. /\ v \in Seq(ManifestFile) /\ Len(v) = Len(restoring) - 1
            /\ \A i \in 1..Len(v) : v[i] = restoring[i + 1]
        BY <1>1, <3>2, HeadTailProperties
      <4> HIDE DEF v
      <4>2. Len(v) = n - (d + 1)
        BY <2>2, <3>3, <4>1
      <4> QED
        BY <4>1, <4>2
    <3>8. /\ u \in Seq(ManifestFile) /\ Len(u) = n - (d + 1)
          /\ \A i \in 1..(n - (d + 1)) : u[i] = manifest[(d + 1) + i]
      <4>1. \A i \in ((d + 1) + 1)..n : manifest[i] \in ManifestFile
        BY <2>2, <3>1
      <4>2. /\ u \in Seq(ManifestFile) /\ Len(u) = IF (d + 1) + 1 <= n THEN n - ((d + 1) + 1) + 1 ELSE 0
            /\ \A i \in 1..(n - ((d + 1) + 1) + 1) : u[i] = manifest[((d + 1) + 1) + i - 1]
        BY <2>2, <4>1, SubSeqProperties
      <4> HIDE DEF u
      <4>3. Len(u) = n - (d + 1)
        BY <2>2, <2>4, <4>2
      <4>4. ASSUME NEW i \in 1..(n - (d + 1)) PROVE u[i] = manifest[(d + 1) + i]
        <5>1. i \in 1..(n - ((d + 1) + 1) + 1) /\ ((d + 1) + 1) + i - 1 = (d + 1) + i
          BY <2>2, <4>4
        <5> QED
          BY <4>2, <5>1
      <4> QED
        BY <4>2, <4>3, <4>4
    <3> HIDE DEF u, v
    <3>9. ASSUME NEW i \in 1..(n - (d + 1)) PROVE v[i] = u[i]
      <4>1. i + 1 \in 1..(n - (d + 1) + 1) /\ (d + 1) + (i + 1) - 1 = (d + 1) + i
        BY <2>2, <3>9
      <4>2. restoring[i + 1] = manifest[(d + 1) + (i + 1) - 1]
        BY <3>2, <4>1
      <4>3. restoring[i + 1] = manifest[(d + 1) + i]
        BY <4>1, <4>2
      <4> QED
        BY <3>7, <3>8, <4>3
    <3>10. v = u
      BY <3>7, <3>8, <3>9
    <3> QED
      BY <3>6, <3>10 DEF u, v
  <2> HIDE DEF file
  <2>6. DOMAIN source' = DOMAIN pushed.tree \cup {manifest[i].path : i \in 1..(d + 1)}
    <3>1. DOMAIN source' = DOMAIN source \cup {file.path}
      BY <1>1, <1>4
    <3>2. \A i \in 1..(d + 1) : i = d + 1 \/ i \in 1..d
      BY <2>2
    <3>3. d + 1 \in 1..(d + 1) /\ \A i \in 1..d : i \in 1..(d + 1)
      BY <2>2
    <3>4. {manifest[i].path : i \in 1..(d + 1)} = {manifest[i].path : i \in 1..d} \cup {file.path}
      BY <2>5, <3>2, <3>3
    <3> QED
      BY <2>1, <3>1, <3>4 DEF Restored
  <2>7. \A q \in DOMAIN pushed.tree : source'[q] = pushed.tree[q]
    <3>1. file.path \notin DOMAIN pushed.tree
      <4>1. d + 1 \in DOMAIN manifest
        BY <1>2, <2>2, <2>4 DEF n
      <4> QED
        BY <1>2, <2>5, <4>1 DEF Prepared, TakenOut
    <3> QED
      BY <1>1, <1>4, <2>1, <3>1 DEF Restored
  <2>8. d + 1 \in 0..n /\ restoring' = SubSeq(manifest, (d + 1) + 1, n)
    <3>1. d + 1 \in 0..n
      BY <2>2, <2>4
    <3>2. restoring' = Tail(restoring)
      BY <1>1, <1>4
    <3> QED
      BY <2>5, <3>1, <3>2
  <2>9. Restored(d + 1)'
    BY <1>1, <2>3, <2>6, <2>7, <2>8 DEF Restored, n
  <2>10. d + 1 \in Nat
    OBVIOUS
  <2>11. \E e \in Nat : Restored(e)'
    BY <2>9, <2>10
  <2>12. pc' = "restore"
    BY <1>1, <1>4
  <2> QED
    BY <1>3, <2>11, <2>12 DEF RestoreInv, AtRunner
<1>5. CASE ~Restorable(file)
  <2>1. ~WithinLimits
    BY <1>1, <1>5, RestorableUnlessLimited
  <2>2. pc' = "unrestorable" /\ restoring' = restoring
    BY <1>1, <1>5
  <2>3. ~WithinLimits'
    BY <1>1, <2>1, <2>2 DEF WithinLimits, Upto
  <2> QED
    BY <2>2, <2>3 DEF RestoreInv, AtRunner
<1> QED
  BY <1>4, <1>5

LEMMA RestoreNext == TransportInv /\ RestoreInv /\ [Next]_vars => RestoreInv'
<1> SUFFICES ASSUME TransportInv, RestoreInv, [Next]_vars PROVE RestoreInv'
  OBVIOUS
\* A step to another phase that leaves the commit and the checkout alone.
<1>0. ASSUME pc' \in {"checkout", "abandon", "verify", "manifest", "failed", "code", "refused", "rejected"},
             UNCHANGED <<manifest, pushed>>,
             pc' = "checkout" => pc = "pushed",
             pc' \in {"verify", "manifest"} => pc \in {"revoke", "verify"} /\ UNCHANGED <<restoring, source>>
      PROVE  RestoreInv'
  <2>1. pc' \in {"checkout", "verify", "manifest"} => (pushed.manifest = manifest /\ Prepared(pushed.tree, manifest))'
    BY <1>0 DEF RestoreInv, AtRunner, Prepared, TakenOut
  <2>2. pc' \in {"verify", "manifest"} => (restoring = manifest /\ source = pushed.tree)'
    BY <1>0 DEF RestoreInv, AtRunner
  <2> QED
    BY <1>0, <2>1, <2>2 DEF RestoreInv, AtRunner
<1>1. CASE UNCHANGED vars
  <2> USE DEF vars, inputs, cli, job
  <2>1. /\ Prepared(index, manifest) => Prepared(index, manifest)'
        /\ Prepared(pushed.tree, manifest) => Prepared(pushed.tree, manifest)'
        /\ Accounted(index, manifest) => Accounted(index, manifest)'
    BY <1>1 DEF Prepared, TakenOut, Accounted
  <2>2. \A d \in Nat : Restored(d) => Restored(d)'
    BY <1>1 DEF Restored
  <2>3. ~WithinLimits => ~WithinLimits'
    BY <1>1 DEF WithinLimits, Upto
  <2> QED
    BY <1>1, <2>1, <2>2, <2>3 DEF RestoreInv, AtRunner
<1>2. CASE Create
  <2>1. pc = "create" /\ manifest = <<>> /\ manifest' = <<>> /\ index' = working /\ working' = working /\ UNCHANGED pushed
    BY <1>2 DEF Create, inputs, job, TransportInv
  <2>2. CASE pc' = "refused"
    BY <2>2 DEF RestoreInv, AtRunner
  <2>3. CASE pc' = "split" /\ DOMAIN working \cap Reserved = {}
    <3>1. Prepared(index, manifest)'
      BY <2>1 DEF Prepared
    <3>2. Accounted(index, manifest)'
      BY <2>1 DEF TransportInv, Working, Accounted
    <3> QED
      BY <2>1, <2>3, <3>1, <3>2 DEF RestoreInv, AtRunner
  <2> QED
    BY <1>2, <2>2, <2>3 DEF Create
<1>3. ASSUME NEW p \in Paths, SplitBlob(p) PROVE RestoreInv'
  BY <1>3, SplitTakesOut
<1>4. CASE Push
  <2>1. pc = "split" /\ UNCHANGED <<index, manifest>> /\ Prepared(index, manifest)
    BY <1>4 DEF Push, RestoreInv
  <2>2. CASE pc' = "rejected"
    BY <2>2 DEF RestoreInv, AtRunner
  <2>3. CASE pc' = "pushed" /\ pushed' = [tree |-> index, manifest |-> manifest]
    <3>1. (pushed.manifest = manifest /\ Prepared(pushed.tree, manifest))'
      BY <2>1, <2>3 DEF Prepared, TakenOut
    <3> QED
      BY <2>3, <3>1 DEF RestoreInv, AtRunner
  <2> QED
    BY <1>4, <2>2, <2>3 DEF Push
<1>5. CASE CheckoutSnapshot
  BY <1>0, <1>5 DEF CheckoutSnapshot, cli
<1>6. CASE CreateToken
  BY <1>0, <1>6 DEF CreateToken, cli
<1>7. CASE Checkout
  <2>1. pc = "checkout" /\ UNCHANGED <<manifest, pushed>>
    BY <1>7 DEF Checkout, cli
  <2>2. CASE pc' = "abandon"
    BY <1>0, <2>1, <2>2
  <2>3. CASE source' = pushed.tree /\ restoring' = pushed.manifest /\ pc' = "revoke"
    <3>1. pushed.manifest = manifest /\ Prepared(pushed.tree, manifest)
      BY <2>1 DEF RestoreInv
    <3>2. (pushed.manifest = manifest /\ Prepared(pushed.tree, manifest))'
      BY <2>1, <3>1 DEF Prepared, TakenOut
    <3> QED
      BY <2>1, <2>3, <3>1, <3>2 DEF RestoreInv, AtRunner
  <2> QED
    BY <1>7, <2>2, <2>3 DEF Checkout
<1>8. CASE RevokeInstallationToken
  BY <1>0, <1>8 DEF RevokeInstallationToken, cli
<1>9. CASE VerifyCheckoutNoCredentials
  BY <1>0, <1>9 DEF VerifyCheckoutNoCredentials, cli, job
<1>10. CASE ReadManifest
  <2>1. pc = "manifest" /\ UNCHANGED <<manifest, pushed, source, restoring>>
    BY <1>10 DEF ReadManifest, cli, job
  <2>2. pushed.manifest = manifest /\ Prepared(pushed.tree, manifest) /\ restoring = manifest /\ source = pushed.tree
    BY <2>1 DEF RestoreInv, AtRunner
  <2>3. CASE pc' = "code"
    BY <1>0, <2>1, <2>3
  <2>4. CASE pc' = "unrestorable" /\ Len(restoring) > MaxFiles
    BY <2>1, <2>2, <2>4 DEF RestoreInv, AtRunner
  <2>5. CASE pc' = "restore"
    <3>1. (pushed.manifest = manifest /\ Prepared(pushed.tree, manifest))'
      BY <2>1, <2>2 DEF Prepared, TakenOut
    <3>2. manifest \in Seq(ManifestFile)
      BY DEF TransportInv, Manifests
    <3>3. SubSeq(manifest, 0 + 1, Len(manifest)) = manifest
      BY <3>2, SubSeqFull
    <3>4. Restored(0)'
      <4>1. 0 \in 0..Len(manifest) /\ 1..0 = {}
        BY <3>2
      <4>2. {manifest[i].path : i \in 1..0} = {}
        BY <4>1
      <4> QED
        BY <2>1, <2>2, <3>3, <4>1, <4>2 DEF Restored
    <3>5. \E d \in Nat : Restored(d)'
      BY <3>4
    <3> QED
      BY <2>5, <3>1, <3>5 DEF RestoreInv, AtRunner
  <2> QED
    BY <1>10, <2>3, <2>4, <2>5 DEF ReadManifest
<1>11. CASE RestoreTransportFile
  BY <1>11, RestoresOrRefuses
<1>12. CASE RemoveTransport
  BY <1>0, <1>12 DEF RemoveTransport, cli
<1>13. CASE Fail
  BY <1>0, <1>13 DEF Fail, cli, job
<1> QED
  BY <1>1, <1>2, <1>3, <1>4, <1>5, <1>6, <1>7, <1>8, <1>9, <1>10, <1>11, <1>12, <1>13 DEF Next

\* A snapshot that this CLI made is refused by the remote only for HEAD's history,
\* and by the runner only for its limits: whatever was split is put together again.
THEOREM RefusesForLimits == Spec => []RefusedForLimits
<1>1. Init => RestoreInv
  BY DEF Init, RestoreInv, AtRunner
<1>2. TransportInv /\ RestoreInv => RefusedForLimits
  BY DEF TransportInv, RestoreInv, RefusedForLimits, BlobsAccepted
<1> QED
  BY <1>1, <1>2, TransportInit, TransportNext, RestoreNext, PTL DEF Spec

(***************************************************************************)
(* The token.                                                              *)
(***************************************************************************)
TokenInv ==
    /\ pc \in {"create", "split", "pushed", "refused", "rejected"} => credential # "live"
    /\ pc \in {"verify", "manifest", "restore", "unrestorable"} => credential = "revoked"
    /\ pc \in {"manifest", "restore"} => ~persisted
    /\ CredentialEnds

\* The token is given back before project code runs and before a job ends.
THEOREM TokenEnds == Spec => []CredentialEnds
<1>1. Init => TokenInv BY DEF Init, TokenInv, CredentialEnds
<1>2. TokenInv /\ [Next]_vars => TokenInv'
  <2> SUFFICES ASSUME TokenInv, [Next]_vars PROVE TokenInv'
    OBVIOUS
  <2> USE DEF TokenInv, CredentialEnds
  <2>1. CASE UNCHANGED vars BY <2>1 DEF vars, inputs, job
  <2>2. CASE Create BY <2>2 DEF Create, inputs, job
  <2>3. ASSUME NEW p \in Paths, SplitBlob(p) PROVE TokenInv' BY <2>3 DEF SplitBlob, inputs, job
  <2>4. CASE Push BY <2>4 DEF Push, inputs, job
  <2>5. CASE CheckoutSnapshot BY <2>5 DEF CheckoutSnapshot, inputs
  <2>6. CASE CreateToken BY <2>6 DEF CreateToken, inputs
  <2>7. CASE Checkout BY <2>7 DEF Checkout, inputs
  <2>8. CASE RevokeInstallationToken BY <2>8 DEF RevokeInstallationToken, inputs
  <2>9. CASE VerifyCheckoutNoCredentials BY <2>9 DEF VerifyCheckoutNoCredentials, inputs, job
  <2>10. CASE ReadManifest BY <2>10 DEF ReadManifest, inputs, job
  <2>11. CASE RestoreTransportFile BY <2>11 DEF RestoreTransportFile, inputs
  <2>12. CASE RemoveTransport BY <2>12 DEF RemoveTransport, inputs
  <2>13. CASE Fail BY <2>13 DEF Fail, inputs, job
  <2> QED BY <2>1, <2>2, <2>3, <2>4, <2>5, <2>6, <2>7, <2>8, <2>9, <2>10, <2>11, <2>12, <2>13 DEF Next
<1>3. TokenInv => CredentialEnds BY DEF TokenInv
<1> QED BY <1>1, <1>2, <1>3, PTL DEF Spec
=============================================================================
