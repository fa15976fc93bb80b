-------------------------- MODULE FileSystemProofs --------------------------
(***************************************************************************)
(* Proofs about the file system, for any number of clusters, entries and   *)
(* files and any size of a cluster, as long as no empty file is saved (the *)
(* run filesystem_empty shows what happens otherwise).                     *)
(*                                                                         *)
(* The invariant says of an image that it holds a table of files in a      *)
(* layout, the sequence of the clusters of each file: the links of the     *)
(* allocation table follow the sequence, the blocks have the content, no   *)
(* cluster is in two sequences, and none that is marked is in no sequence. *)
(* The first lemmas show that the loops of the code, recursive functions   *)
(* of the model, read exactly that: a load gets the content, and freeing a *)
(* chain reaches its sequence.  Then come the clusters save_file() takes,  *)
(* what it leaves of the other files, and the steps of                     *)
(* write_entire_disk(), during which image and disk agree on every sector  *)
(* but the flagged ones.                                                   *)
(***************************************************************************)
EXTENDS FileSystem, NaturalLemmas, FiniteSetTheorems, SequenceTheorems

(* The values of the constants.                                            *)
LEMMA Numbers ==
  /\ number_of_clusters \in Nat \ {0} /\ cluster_size \in Nat \ {0}
  /\ LinksPerSector \in Nat \ {0} /\ number_of_root_directory_entries \in Nat \ {0}
  /\ Clusters \subseteq Links /\ Links \subseteq Nat
  /\ no_more_clusters \notin Links /\ MediaLink \notin Links
  /\ no_more_clusters # 0 /\ MediaLink # 0
  /\ \A c \in Links : c <= number_of_clusters + 1
  /\ \A c \in Clusters : c # 0
BY FileSystemAssumption DEF Clusters, Links, no_more_clusters, MediaLink

(* Division by the number of entries of a sector, or by the cluster size.  *)
LEMMA DivBounds ==
  ASSUME NEW a \in Nat, NEW n \in Nat \ {0}
  PROVE  /\ a \div n \in Nat
         /\ n * (a \div n) <= a /\ a < n * (a \div n) + n
OBVIOUS

(* A later link is in the same or a later sector.                          *)
LEMMA DivMonotonic ==
  ASSUME NEW a \in Nat, NEW b \in Nat, a <= b, NEW n \in Nat \ {0}
  PROVE  a \div n <= b \div n
<1> DEFINE p == a \div n
           q == b \div n
<1>1. /\ p \in Nat /\ q \in Nat
      /\ n * p <= a /\ b < n * q + n
  BY DivBounds
<1> HIDE DEF p, q
<1>2. SUFFICES ASSUME q + 1 <= p PROVE FALSE
  BY <1>1 DEF p, q
<1>3. n * (q + 1) <= n * p
  BY <1>1, <1>2
<1>4. n * (q + 1) = n * q + n
  BY <1>1
<1>5. n * p \in Int /\ n * q \in Int
  BY <1>1
<1>6. QED
  BY <1>1, <1>3, <1>4, <1>5

(* Every link and every cluster has its sector on the disk.                *)
LEMMA SectorsTyped ==
  /\ DirectorySector \in Sectors
  /\ \A c \in Links : FatSector(c) \in Sectors
  /\ \A c \in Clusters : ClusterSector(c) \in Sectors
  /\ Sectors \subseteq Nat
<1> DEFINE last == FatSector(number_of_clusters + 1)
<1>1. last \in Nat
  BY Numbers, DivBounds DEF FatSector
<1>2. \A c \in Links : FatSector(c) \in Nat /\ FatSector(c) <= last
  BY Numbers, DivBounds, DivMonotonic DEF FatSector
<1>3. DirectorySector = last + 1
  BY DEF DirectorySector
<1> HIDE DEF last
<1>4. QED
  BY <1>1, <1>2, <1>3, Numbers DEF Sectors, ClusterSector, Clusters

(* A file that is not empty fills all its clusters but the last one.       *)
LEMMA NecessaryBounds ==
  ASSUME NEW length \in Nat \ {0}
  PROVE  /\ Necessary(length) \in Nat \ {0}
         /\ (Necessary(length) - 1) * cluster_size < length
         /\ length <= Necessary(length) * cluster_size
<1> DEFINE a == length + cluster_size - 1
           k == a \div cluster_size
<1>1. /\ a \in Nat /\ k \in Nat
      /\ cluster_size * k <= a /\ a < cluster_size * k + cluster_size
  BY Numbers, DivBounds
<1>2. k = Necessary(length)
  BY DEF Necessary
<1> HIDE DEF k
<1>3. k # 0
  BY <1>1, Numbers
<1>4. (k - 1) * cluster_size = cluster_size * k - cluster_size /\ k * cluster_size = cluster_size * k
  BY <1>1, Numbers
<1>5. QED
  BY <1>1, <1>2, <1>3, <1>4, Numbers
(* What save_file() is called with.                                        *)
Contents == {Units(v, length) : v \in 1 .. MaxSaves, length \in Lengths}

(* In image im, file n has the content, in the clusters g[1], g[2], ...    *)
Stored(im, n, content, g) ==
  /\ content \in Contents
  /\ g \in Seq(Clusters) /\ Len(g) = Necessary(Len(content))
  /\ \E s \in Slots : /\ Found(im, n) = {s}
                      /\ im.entries[s].cluster_number = g[1]
                      /\ im.entries[s].size = Len(content)
  /\ \A i \in 1 .. Len(g) : /\ im.links[g[i]] = IF i = Len(g) THEN no_more_clusters ELSE g[i + 1]
                            /\ im.blocks[g[i]] = Block(content, i)
  /\ \A i, j \in 1 .. Len(g) : i < j => g[i] # g[j]

(* The same, or there is no such file.                                     *)
Held(im, n, content, g) ==
  \/ Found(im, n) = {} /\ content = NULL /\ g = <<>>
  \/ Stored(im, n, content, g)

(* Every cluster that is marked is in the layout.                          *)
Owned(im, layout) ==
  \A c \in Clusters : im.links[c] # 0 => \E n \in Names : c \in Range(layout[n])

(* Image im has the files of table fs, file n in the clusters layout[n].   *)
Holds(im, fs, layout) ==
  /\ Owned(im, layout)
  /\ \A n \in Names : Held(im, n, fs[n], layout[n])
  /\ \A m, n \in Names : m # n => Range(layout[m]) \cap Range(layout[n]) = {}

(* The sectors on which the disk may differ from the image.                *)
Stale == IF writer.copied THEN sector_flags \ {writer.sector} ELSE sector_flags

Agree(im, dk, stale) ==
  /\ \A c \in Links : FatSector(c) \notin stale => dk.links[c] = im.links[c]
  /\ DirectorySector \notin stale => dk.entries = im.entries
  /\ \A c \in Clusters : ClusterSector(c) \notin stale => dk.blocks[c] = im.blocks[c]

(* The writer has passed over no sector with a flag.                       *)
WriterOK ==
  IF Writing
  THEN /\ writer.sector \in Sectors \cup {ClusterSector(number_of_clusters + 1) + 1}
       /\ writer.copied \in BOOLEAN
       /\ \A s \in sector_flags : writer.sector <= s
       /\ writer.copied => writer.sector \in sector_flags
  ELSE writer = NoWriter

(* A load of content from the clusters g has read j of them.               *)
Progress(l, content, g, j) ==
  /\ l.cluster_number = IF j = Len(g) THEN no_more_clusters ELSE g[j + 1]
  /\ LET size == IF j = Len(g) THEN Len(content) ELSE j * cluster_size
     IN l.got = SubSeq(content, 1, size) /\ l.unwritten_size = Len(content) - size

(* The files in memory, those on the disk that were not saved since the    *)
(* last write, in the same clusters.                                       *)
Consistent(layout) ==
  /\ Holds(image, files, layout)
  /\ \A n \in Names \ touched : saved[n] = files[n] /\ Held(disk, n, files[n], layout[n])

(* An image as the code keeps it.                                          *)
Image(im) == ImageOK(im) /\ DOMAIN im = {"links", "entries", "blocks"}

Typed ==
  /\ Image(image) /\ Image(disk)
  /\ sector_flags \subseteq Sectors
  /\ saves \in Nat /\ DOMAIN files = Names /\ DOMAIN saved = Names

(* Between two calls of write_entire_disk() the disk holds the files as of *)
(* the last one; what is in the image and not on the disk is flagged.      *)
FileInv ==
  /\ Typed
  /\ WriterOK
  /\ Agree(image, disk, Stale)
  /\ \E layout : Consistent(layout)
  /\ ~Writing => \E layout : Holds(disk, saved, layout)
-----------------------------------------------------------------------------
(* Two loops that start alike and go on alike do the same.                 *)
LEMMA SameLoop ==
  ASSUME NEW n \in Nat, NEW f, NEW g, f[0] = g[0],
         \A k \in 1 .. n : f[k - 1] = g[k - 1] => f[k] = g[k]
  PROVE  \A k \in 0 .. n : f[k] = g[k]
<1> DEFINE S == {k \in Nat : k <= n => f[k] = g[k]}
<1>1. 0 \in S
  OBVIOUS
<1>2. \A k \in Nat : k \in S => k + 1 \in S
  <2> SUFFICES ASSUME NEW k \in Nat, k \in S, k + 1 <= n
               PROVE  f[k + 1] = g[k + 1]
    OBVIOUS
  <2>1. k + 1 \in 1 .. n /\ (k + 1) - 1 = k /\ f[k] = g[k]
    OBVIOUS
  <2>2. QED
    BY <2>1
<1> HIDE DEF S
<1>3. \A k \in Nat : k \in S
  BY <1>1, <1>2, InductionBySet
<1>4. QED
  BY <1>3 DEF S

(* A chain without repetition is not longer than the disk has clusters.    *)
LEMMA ChainShort ==
  ASSUME NEW g \in Seq(Clusters), \A i, j \in 1 .. Len(g) : i < j => g[i] # g[j]
  PROVE  Len(g) \in Nat /\ Len(g) <= number_of_clusters
<1> DEFINE n == Len(g)
<1>1. n \in Nat /\ g \in [1 .. n -> Clusters]
  OBVIOUS
<1> HIDE DEF n
<1>2. IsFiniteSet(Clusters) /\ Cardinality(Clusters) = number_of_clusters
  <2>1. number_of_clusters + 1 \in Int /\ 2 \in Int /\ ~(2 > number_of_clusters + 1)
    BY Numbers
  <2>2. (number_of_clusters + 1) - 2 + 1 = number_of_clusters
    BY Numbers
  <2>3. QED
    BY <2>1, <2>2, FS_Interval DEF Clusters
<1>3. g \in Injection(1 .. n, Clusters)
  <2>1. \A i, j \in 1 .. n : i < j => g[i] # g[j]
    BY DEF n
  <2>2. \A i, j \in 1 .. n : i = j \/ i < j \/ j < i
    BY <1>1
  <2>3. \A i, j \in 1 .. n : g[i] = g[j] => i = j
    BY <2>1, <2>2
  <2>4. QED
    BY <1>1, <2>3 DEF Injection, IsInjective
<1>4. Cardinality(1 .. n) <= Cardinality(Clusters)
  BY <1>2, <1>3, FS_Injection, Zenon
<1>5. Cardinality(1 .. n) = n
  BY <1>1, FS_Interval
<1>6. QED
  BY <1>1, <1>2, <1>4, <1>5 DEF n
-----------------------------------------------------------------------------
(* A content is a sequence, and not empty unless empty files are saved.    *)
LEMMA ContentTyped ==
  ASSUME 0 \notin Lengths, NEW content \in Contents
  PROVE  content \in Seq(Nat \X Nat) /\ Len(content) \in Nat \ {0}
<1>1. PICK v \in 1 .. MaxSaves, length \in Lengths : content = Units(v, length)
  BY DEF Contents
<1>2. length \in Nat \ {0} /\ v \in Nat
  BY FileSystemAssumption
<1>3. content = [i \in 1 .. length |-> <<v, i>>]
  BY <1>1 DEF Units
<1>4. QED
  BY <1>2, <1>3

(* What is copied from a block goes on where the buffer ends.              *)
LEMMA Joined ==
  ASSUME NEW X, NEW content \in Seq(X), NEW p \in Nat, NEW m \in Nat, p + m <= Len(content),
         NEW block, \A i \in 1 .. m : block[i] = content[p + i]
  PROVE  SubSeq(content, 1, p) \o SubSeq(block, 1, m) = SubSeq(content, 1, p + m)
<1> DEFINE a == SubSeq(content, 1, p)
           b == SubSeq(block, 1, m)
           c == SubSeq(content, 1, p + m)
           n == Len(content)
<1>1. n \in Nat /\ \A i \in 1 .. n : content[i] \in X
  BY ElementOfSeq, LenProperties
<1>2. (\A i \in 1 .. p : content[i] \in X) /\ (\A i \in 1 .. p + m : content[i] \in X)
  BY <1>1
<1>3. \A i \in 1 .. m : block[i] \in X
  <2> SUFFICES ASSUME NEW i \in 1 .. m PROVE content[p + i] \in X
    OBVIOUS
  <2>1. p + i \in 1 .. n
    BY <1>1
  <2>2. QED
    BY <1>1, <2>1
<1>4. a \in Seq(X) /\ Len(a) = p /\ \A i \in 1 .. p : a[i] = content[i]
  <2>1. /\ SubSeq(content, 1, p) \in Seq(X)
        /\ Len(SubSeq(content, 1, p)) = IF 1 <= p THEN p - 1 + 1 ELSE 0
        /\ \A i \in 1 .. p - 1 + 1 : SubSeq(content, 1, p)[i] = content[1 + i - 1]
    BY <1>2, SubSeqProperties
  <2>2. QED
    BY <2>1
<1>5. b \in Seq(X) /\ Len(b) = m /\ \A i \in 1 .. m : b[i] = block[i]
  <2>1. /\ SubSeq(block, 1, m) \in Seq(X)
        /\ Len(SubSeq(block, 1, m)) = IF 1 <= m THEN m - 1 + 1 ELSE 0
        /\ \A i \in 1 .. m - 1 + 1 : SubSeq(block, 1, m)[i] = block[1 + i - 1]
    BY <1>3, SubSeqProperties
  <2>2. QED
    BY <2>1
<1>6. c \in Seq(X) /\ Len(c) = p + m /\ \A i \in 1 .. p + m : c[i] = content[i]
  <2> DEFINE q == p + m
  <2>1. q \in Nat /\ \A i \in 1 .. q : content[i] \in X
    BY <1>2
  <2> HIDE DEF q
  <2>2. /\ SubSeq(content, 1, q) \in Seq(X)
        /\ Len(SubSeq(content, 1, q)) = IF 1 <= q THEN q - 1 + 1 ELSE 0
        /\ \A i \in 1 .. q - 1 + 1 : SubSeq(content, 1, q)[i] = content[1 + i - 1]
    BY <2>1, SubSeqProperties
  <2>3. /\ SubSeq(content, 1, q) \in Seq(X)
        /\ Len(SubSeq(content, 1, q)) = q
        /\ \A i \in 1 .. q : SubSeq(content, 1, q)[i] = content[i]
    BY <2>1, <2>2
  <2>4. QED
    BY <2>3 DEF q
<1> HIDE DEF a, b, c, n
<1>7. /\ a \o b \in Seq(X) /\ Len(a \o b) = p + m
      /\ \A i \in 1 .. p + m : (a \o b)[i] = IF i <= p THEN a[i] ELSE b[i - p]
  <2>1. /\ a \o b \in Seq(X) /\ Len(a \o b) = Len(a) + Len(b)
        /\ \A i \in 1 .. Len(a) + Len(b) : (a \o b)[i] = IF i <= Len(a) THEN a[i] ELSE b[i - Len(a)]
    BY <1>4, <1>5, ConcatProperties
  <2>2. QED
    BY <2>1, <1>4, <1>5
<1>8. ASSUME NEW i \in 1 .. p + m
      PROVE  (a \o b)[i] = c[i]
  <2>1. CASE i <= p
    <3>1. i \in 1 .. p
      BY <2>1
    <3>2. (a \o b)[i] = a[i] /\ a[i] = content[i] /\ c[i] = content[i]
      BY <3>1, <2>1, <1>4, <1>6, <1>7
    <3>3. QED
      BY <3>2
  <2>2. CASE ~(i <= p)
    <3>1. i - p \in 1 .. m /\ p + (i - p) = i
      BY <2>2
    <3>2. (a \o b)[i] = b[i - p] /\ c[i] = content[i]
      BY <2>2, <1>6, <1>7
    <3>3. b[i - p] = content[i]
      BY <3>1, <1>5
    <3>4. QED
      BY <3>2, <3>3
  <2>3. QED
    BY <2>1, <2>2
<1>9. a \o b = c
  BY <1>6, <1>7, <1>8, SeqEqual
<1>10. QED
  BY <1>9 DEF a, b, c

Copied(l) == IF cluster_size <= l.unwritten_size THEN cluster_size ELSE l.unwritten_size

(* One iteration of the loop of load_file(), field by field.               *)
LEMMA CopyFields ==
  ASSUME NEW im, NEW l, {"got", "unwritten_size", "cluster_number"} \subseteq DOMAIN l
  PROVE  /\ DOMAIN CopyCluster(im, l) = DOMAIN l
         /\ CopyCluster(im, l).got = l.got \o SubSeq(im.blocks[l.cluster_number], 1, Copied(l))
         /\ CopyCluster(im, l).unwritten_size = l.unwritten_size - Copied(l)
         /\ CopyCluster(im, l).cluster_number = im.links[l.cluster_number]
         /\ \A x \in DOMAIN l \ {"got", "unwritten_size", "cluster_number"} :
              CopyCluster(im, l)[x] = l[x]
<1> DEFINE a == l.got \o SubSeq(im.blocks[l.cluster_number], 1, Copied(l))
           b == l.unwritten_size - Copied(l)
           c == im.links[l.cluster_number]
           r == [l EXCEPT !.got = a, !.unwritten_size = b, !.cluster_number = c]
<1>1. CopyCluster(im, l) = r
  BY DEF CopyCluster, Copied
<1> HIDE DEF a, b, c
<1>2. /\ DOMAIN r = DOMAIN l /\ r.got = a /\ r.unwritten_size = b /\ r.cluster_number = c
      /\ \A x \in DOMAIN l \ {"got", "unwritten_size", "cluster_number"} : r[x] = l[x]
  OBVIOUS
<1> HIDE DEF r
<1>3. QED
  BY <1>1, <1>2 DEF a, b, c

(* Of a file in the clusters g, the loop reads one cluster after another.  *)
LEMMA ReadStep ==
  ASSUME 0 \notin Lengths, NEW im, NEW n, NEW content, NEW g, Stored(im, n, content, g),
         NEW l, {"got", "unwritten_size", "cluster_number"} \subseteq DOMAIN l,
         NEW j \in Nat, j < Len(g), Progress(l, content, g, j)
  PROVE  Reads(l) /\ Progress(CopyCluster(im, l), content, g, j + 1)
<1> DEFINE length == Len(content)
           k == Len(g)
           p == j * cluster_size
           m == Copied(l)
           r == CopyCluster(im, l)
<1>1. /\ content \in Seq(Nat \X Nat) /\ length \in Nat \ {0}
      /\ g \in Seq(Clusters) /\ k \in Nat
  BY ContentTyped DEF Stored
<1>2. p \in Nat /\ (j + 1) * cluster_size = p + cluster_size
  BY Numbers
<1>3. /\ j + 1 < k => p + cluster_size < length
      /\ j + 1 = k => p < length /\ length <= p + cluster_size
  <2>1. k = Necessary(length)
    BY DEF Stored
  <2>2. (k - 1) * cluster_size < length /\ length <= k * cluster_size
    BY <1>1, <2>1, NecessaryBounds
  <2>3. CASE j + 1 < k
    <3>1. (j + 1) * cluster_size <= (k - 1) * cluster_size
      <4>1. \A x, y, z \in Nat : x <= y => x * z <= y * z
        OBVIOUS
      <4>2. j + 1 \in Nat /\ k - 1 \in Nat /\ j + 1 <= k - 1 /\ cluster_size \in Nat
        BY <2>3, <1>1, Numbers
      <4>3. QED
        BY <4>1, <4>2
    <3>2. (k - 1) * cluster_size \in Int
      BY <1>1, Numbers
    <3>3. QED
      BY <3>1, <3>2, <2>2, <2>3, <1>1, <1>2, Numbers
  <2>4. CASE j + 1 = k
    <3>1. k - 1 = j
      BY <2>4, <1>1
    <3>2. QED
      BY <2>2, <2>4, <3>1, <1>2, <1>1
  <2>5. QED
    BY <2>3, <2>4, <1>1
<1>4. l.cluster_number = g[j + 1] /\ l.got = SubSeq(content, 1, p) /\ l.unwritten_size = length - p
  <2>1. j # Len(g)
    BY <1>1
  <2>2. QED
    BY <2>1 DEF Progress
<1> HIDE DEF p
<1>5. /\ m \in Nat /\ m <= cluster_size /\ p + m <= length
      /\ p + m = IF j + 1 = k THEN length ELSE (j + 1) * cluster_size
  <2> HIDE DEF k, length
  <2>1. m = IF cluster_size <= length - p THEN cluster_size ELSE length - p
    BY <1>4 DEF Copied
  <2>2. j + 1 < k \/ j + 1 = k
    BY <1>1 DEF k
  <2> HIDE DEF m
  <2>3. CASE j + 1 < k
    BY <2>1, <2>3, <1>1, <1>2, <1>3, Numbers
  <2>4. CASE j + 1 = k
    BY <2>1, <2>4, <1>1, <1>2, <1>3, Numbers
  <2>5. QED
    BY <2>2, <2>3, <2>4
<1>6. /\ r.got = l.got \o SubSeq(im.blocks[g[j + 1]], 1, m)
      /\ r.unwritten_size = l.unwritten_size - m
      /\ r.cluster_number = im.links[g[j + 1]]
  <2> HIDE DEF p, length, k
  <2>1. /\ r.got = l.got \o SubSeq(im.blocks[l.cluster_number], 1, m)
        /\ r.unwritten_size = l.unwritten_size - m
        /\ r.cluster_number = im.links[l.cluster_number]
    BY CopyFields, Zenon
  <2> HIDE DEF m, r
  <2>2. QED
    BY <2>1, <1>4
<1> HIDE DEF m, r
<1>7. j + 1 \in 1 .. k
  BY <1>1
<1>8. /\ im.links[g[j + 1]] = IF j + 1 = k THEN no_more_clusters ELSE g[(j + 1) + 1]
      /\ im.blocks[g[j + 1]] = Block(content, j + 1)
  BY <1>7 DEF Stored
<1>9. r.got = SubSeq(content, 1, p + m)
  <2> DEFINE block == im.blocks[g[j + 1]]
  <2>1. \A i \in 1 .. m : block[i] = content[p + i]
    <3> SUFFICES ASSUME NEW i \in 1 .. m
                 PROVE  block[i] = content[p + i]
      OBVIOUS
    <3>1. i \in 1 .. cluster_size /\ p + i <= length
      BY <1>1, <1>2, <1>5, Numbers
    <3>2. ((j + 1) - 1) * cluster_size = p
      BY DEF p
    <3>3. QED
      BY <3>1, <3>2, <1>8 DEF Block
  <2> HIDE DEF block, m, k
  <2>2. l.got \o SubSeq(block, 1, m) = SubSeq(content, 1, p + m)
    <3>1. p + m <= Len(content) /\ m \in Nat /\ p \in Nat /\ content \in Seq(Nat \X Nat)
      BY <1>1, <1>2, <1>5
    <3>2. SubSeq(content, 1, p) \o SubSeq(block, 1, m) = SubSeq(content, 1, p + m)
      BY <3>1, <2>1, Joined, ZenonT(40)
    <3>3. QED
      BY <3>2, <1>4
  <2>3. QED
    BY <2>2, <1>6 DEF block
<1>10. r.unwritten_size = length - (p + m)
  BY <1>1, <1>2, <1>4, <1>5, <1>6
<1>11. Progress(r, content, g, j + 1)
  BY <1>5, <1>6, <1>8, <1>9, <1>10 DEF Progress
<1>12. Reads(l)
  <2>1. g[j + 1] \in Clusters
    BY <1>1, <1>7
  <2>2. QED
    BY <2>1, <1>4, Numbers DEF Reads
<1>13. QED
  BY <1>11, <1>12 DEF r

(* The lowest slot of the name is the only one.                            *)
LEMMA InformationFound ==
  ASSUME NEW im, NEW n, NEW s \in Slots, Found(im, n) = {s}
  PROVE  get_file_information(im, n) = s
<1>1. s \in Nat
  BY Numbers DEF Slots
<1>2. \A x : x \in Found(im, n) <=> x = s
  BY Zenon
<1>3. get_file_information(im, n) = CHOOSE x \in Found(im, n) : \A y \in Found(im, n) : x <= y
  BY DEF get_file_information
<1>4. \E x \in Found(im, n) : \A y \in Found(im, n) : x <= y
  BY <1>1, <1>2
<1> HIDE DEF Found
<1>5. get_file_information(im, n) \in Found(im, n)
  BY <1>3, <1>4
<1>6. QED
  BY <1>2, <1>5

(* What load_file() has after j clusters.                                  *)
Size(content, g, j) == IF j = Len(g) THEN Len(content) ELSE j * cluster_size
Read(content, g, j) ==
  [cluster_number |-> IF j = Len(g) THEN no_more_clusters ELSE g[j + 1],
   unwritten_size |-> Len(content) - Size(content, g, j),
   got |-> SubSeq(content, 1, Size(content, g, j))]

(* The load that has read j clusters, and what is in it.                  *)
LEMMA ReadProgress ==
  ASSUME NEW content, NEW g, NEW j
  PROVE  /\ Progress(Read(content, g, j), content, g, j)
         /\ DOMAIN Read(content, g, j) = {"got", "unwritten_size", "cluster_number"}
BY DEF Progress, Read, Size

(* Each iteration of the loop takes the load from one such state to the   *)
(* next.                                                                  *)
LEMMA ReadNext ==
  ASSUME 0 \notin Lengths, NEW im, NEW n, NEW content, NEW g, Stored(im, n, content, g),
         NEW j \in Nat, j < Len(g)
  PROVE  /\ Reads(Read(content, g, j))
         /\ CopyCluster(im, Read(content, g, j)) = Read(content, g, j + 1)
<1> DEFINE l == Read(content, g, j)
           r == CopyCluster(im, l)
           a == l.got \o SubSeq(im.blocks[l.cluster_number], 1, Copied(l))
           b == l.unwritten_size - Copied(l)
           c == im.links[l.cluster_number]
<1>1. Progress(l, content, g, j) /\ DOMAIN l = {"got", "unwritten_size", "cluster_number"}
  BY ReadProgress
<1>2. r = [l EXCEPT !.got = a, !.unwritten_size = b, !.cluster_number = c]
  BY DEF CopyCluster, Copied
<1>3. l = [cluster_number |-> l.cluster_number, unwritten_size |-> l.unwritten_size, got |-> l.got]
  BY DEF Read
<1> HIDE DEF l
<1>4. Reads(l) /\ Progress(r, content, g, j + 1)
  BY <1>1, ReadStep
<1> HIDE DEF a, b, c, r
<1>5. r = [cluster_number |-> c, unwritten_size |-> b, got |-> a]
  BY <1>2, <1>3
<1>6. r = Read(content, g, j + 1)
  BY <1>4, <1>5 DEF Progress, Read, Size
<1>7. QED
  BY <1>4, <1>6 DEF l, r

(* The first state is the one load_file() starts in; a chain has a        *)
(* cluster, and no more than the disk has.                                *)
LEMMA ReadStart ==
  ASSUME 0 \notin Lengths, NEW im, NEW n, NEW content, NEW g, Stored(im, n, content, g)
  PROVE  /\ Len(g) \in Nat \ {0} /\ Len(g) <= number_of_clusters /\ g[1] \in Clusters
         /\ Read(content, g, 0) = [cluster_number |-> g[1], unwritten_size |-> Len(content), got |-> <<>>]
         /\ Read(content, g, Len(g)) =
              [cluster_number |-> no_more_clusters, unwritten_size |-> 0, got |-> content]
<1>1. /\ content \in Seq(Nat \X Nat) /\ Len(content) \in Nat \ {0}
      /\ g \in Seq(Clusters) /\ Len(g) = Necessary(Len(content))
  BY ContentTyped DEF Stored
<1>2. Len(g) \in Nat \ {0} /\ Len(g) <= number_of_clusters
  BY <1>1, NecessaryBounds, ChainShort DEF Stored
<1>3. g[1] \in Clusters
  BY <1>1, <1>2
<1>4. SubSeq(content, 1, 0) = <<>> /\ SubSeq(content, 1, Len(content)) = content
  <2>1. 0 \in Int /\ 1 \in Int /\ 0 < 1
    OBVIOUS
  <2>2. SubSeq(content, 1, 0) = <<>>
    BY <2>1, SubSeqEmpty
  <2>3. SubSeq(content, 1, Len(content)) = content
    BY <1>1, SubSeqFull
  <2>4. QED
    BY <2>2, <2>3
<1>5. Size(content, g, 0) = 0 /\ Size(content, g, Len(g)) = Len(content)
  BY <1>2, Numbers DEF Size
<1>6. Read(content, g, 0) = [cluster_number |-> g[1], unwritten_size |-> Len(content), got |-> <<>>]
  <2>1. Len(content) - 0 = Len(content) /\ 0 + 1 = 1 /\ 0 # Len(g)
    BY <1>1, <1>2
  <2>2. QED
    BY <2>1, <1>4, <1>5 DEF Read
<1>7. Read(content, g, Len(g)) = [cluster_number |-> no_more_clusters, unwritten_size |-> 0, got |-> content]
  <2>1. Len(content) - Len(content) = 0
    BY <1>1
  <2>2. QED
    BY <2>1, <1>4, <1>5 DEF Read
<1>8. QED
  BY <1>2, <1>3, <1>6, <1>7

(* What a file reads as is what is stored.                                 *)
LEMMA StoredRead ==
  ASSUME 0 \notin Lengths, NEW im, NEW n, NEW content, NEW g, Stored(im, n, content, g)
  PROVE  Content(im, n) = content
<1> DEFINE entry == im.entries[get_file_information(im, n)]
           Steps(a) == [k \in 0 .. number_of_clusters |->
                          IF k = 0 THEN [cluster_number |-> entry.cluster_number,
                                         unwritten_size |-> entry.size, got |-> <<>>]
                          ELSE IF Reads(a[k - 1]) THEN CopyCluster(im, a[k - 1]) ELSE a[k - 1]]
           after == CHOOSE a : a = Steps(a)
           last == Len(g)
           explicit == [k \in 0 .. number_of_clusters |-> Read(content, g, IF k < last THEN k ELSE last)]
<1>1. PICK s \in Slots : /\ Found(im, n) = {s}
                         /\ im.entries[s].cluster_number = g[1]
                         /\ im.entries[s].size = Len(content)
  BY DEF Stored
<1>2. entry = im.entries[s] /\ Found(im, n) # {}
  BY <1>1, InformationFound
<1>3. Content(im, n) = after[number_of_clusters].got
  BY <1>2 DEF Content
<1> HIDE DEF entry
<1>4. /\ last \in Nat \ {0} /\ last <= number_of_clusters
      /\ Read(content, g, 0) = [cluster_number |-> g[1], unwritten_size |-> Len(content), got |-> <<>>]
      /\ Read(content, g, last) = [cluster_number |-> no_more_clusters, unwritten_size |-> 0, got |-> content]
  BY ReadStart
<1>5. ~Reads(Read(content, g, last))
  BY <1>4, Numbers DEF Reads, no_more_clusters, MediaLink, Links
<1> HIDE DEF last
<1>6. explicit = Steps(explicit)
  <2> SUFFICES ASSUME NEW k \in 0 .. number_of_clusters
               PROVE  explicit[k] = Steps(explicit)[k]
    OBVIOUS
  <2>1. CASE k = 0
    BY <2>1, <1>1, <1>2, <1>4
  <2>2. CASE k # 0
    <3>1. k - 1 \in 0 .. number_of_clusters /\ k - 1 \in Nat /\ (k - 1) + 1 = k
      BY <2>2, Numbers
    <3>2. CASE k - 1 < last
      <4>1. explicit[k - 1] = Read(content, g, k - 1)
        BY <3>1, <3>2
      <4>2. explicit[k] = Read(content, g, k)
        BY <3>1, <3>2, <1>4
      <4>3. Reads(Read(content, g, k - 1)) /\ CopyCluster(im, Read(content, g, k - 1)) = Read(content, g, k)
        BY <3>1, <3>2, ReadNext DEF last
      <4>4. QED
        BY <2>2, <4>1, <4>2, <4>3
    <3>3. CASE ~(k - 1 < last)
      <4>1. explicit[k - 1] = Read(content, g, last) /\ explicit[k] = Read(content, g, last)
        BY <3>1, <3>3, <1>4
      <4>2. QED
        BY <2>2, <4>1, <1>5
    <3>4. QED
      BY <3>2, <3>3
  <2>3. QED
    BY <2>1, <2>2
<1> HIDE DEF explicit
<1>7. after = Steps(after)
  BY <1>6
<1> HIDE DEF after
<1>8. after[0] = explicit[0]
  <2>1. 0 \in 0 .. number_of_clusters
    BY Numbers
  <2>2. Steps(after)[0] = Steps(explicit)[0]
    BY <2>1
  <2>3. QED
    BY <2>2, <1>6, <1>7
<1>9. \A k \in 1 .. number_of_clusters : after[k - 1] = explicit[k - 1] => after[k] = explicit[k]
  <2> SUFFICES ASSUME NEW k \in 1 .. number_of_clusters, after[k - 1] = explicit[k - 1]
               PROVE  after[k] = explicit[k]
    OBVIOUS
  <2>1. k \in 0 .. number_of_clusters
    OBVIOUS
  <2>2. Steps(after)[k] = Steps(explicit)[k]
    BY <2>1
  <2>3. QED
    BY <2>2, <1>6, <1>7
<1>10. after[number_of_clusters] = explicit[number_of_clusters]
  <2>1. \A k \in 0 .. number_of_clusters : after[k] = explicit[k]
    BY <1>8, <1>9, SameLoop, Numbers
  <2>2. number_of_clusters \in 0 .. number_of_clusters
    BY Numbers
  <2>3. QED
    BY <2>1, <2>2
<1>11. explicit[number_of_clusters] = Read(content, g, last)
  BY <1>4, Numbers DEF explicit
<1>12. QED
  BY <1>3, <1>4, <1>10, <1>11
-----------------------------------------------------------------------------
(* The clusters of a chain are what free_cluster() comes to.               *)
LEMMA StoredReached ==
  ASSUME 0 \notin Lengths, NEW im, NEW n, NEW content, NEW g, Stored(im, n, content, g)
  PROVE  Reached(im.links, g[1]) = Range(g)
<1> DEFINE last == Len(g)
           links == im.links
           Steps(w) == [k \in 0 .. number_of_clusters |->
                          IF k = 0 THEN {g[1]}
                          ELSE w[k - 1] \cup {links[c] : c \in w[k - 1] \cap Clusters}]
           within == CHOOSE w : w = Steps(w)
           First(k) == {g[i] : i \in 1 .. IF k < last THEN k + 1 ELSE last}
                         \cup IF k < last THEN {} ELSE {no_more_clusters}
           explicit == [k \in 0 .. number_of_clusters |-> First(k)]
<1>1. Reached(links, g[1]) = within[number_of_clusters] \ {no_more_clusters}
  BY DEF Reached
<1>2. last \in Nat \ {0} /\ last <= number_of_clusters
  BY ReadStart
<1>3. \A i \in 1 .. last : /\ g[i] \in Clusters
                           /\ links[g[i]] = IF i = last THEN no_more_clusters ELSE g[i + 1]
  BY DEF Stored
<1>4. no_more_clusters \notin Clusters
  BY Numbers
<1> HIDE DEF last, links
<1>5. explicit = Steps(explicit)
  <2> SUFFICES ASSUME NEW k \in 0 .. number_of_clusters
               PROVE  First(k) = Steps(explicit)[k]
    OBVIOUS
  <2>1. CASE k = 0
    <3>1. Steps(explicit)[0] = {g[1]}
      BY <2>1
    <3>2. First(0) = {g[1]}
      <4>1. 1 .. 0 + 1 = {1} /\ 0 < last
        BY <1>2
      <4>2. QED
        BY <4>1
    <3>3. QED
      BY <2>1, <3>1, <3>2
  <2>2. CASE k # 0
    <3> DEFINE w == First(k - 1)
               next == {links[c] : c \in w \cap Clusters}
    <3>1. k - 1 \in 0 .. number_of_clusters /\ k - 1 \in Nat /\ (k - 1) + 1 = k
      BY <2>2, Numbers
    <3>2. Steps(explicit)[k] = w \cup next
      BY <2>2, <3>1
    <3>3. CASE k < last
      <4>1. w = {g[i] : i \in 1 .. k}
        BY <3>1, <3>3, <1>2
      <4>2. First(k) = {g[i] : i \in 1 .. k + 1}
        BY <3>3
      <4>3. w \cap Clusters = w
        BY <4>1, <3>1, <3>3, <1>2, <1>3
      <4>4. next = {links[g[i]] : i \in 1 .. k}
        BY <4>1, <4>3
      <4>5. \A i \in 1 .. k : links[g[i]] = g[i + 1]
        BY <3>3, <1>2, <1>3
      <4>6. next = {g[i + 1] : i \in 1 .. k}
        <5> HIDE DEF w, next
        <5>1. ASSUME NEW y \in next  PROVE y \in {g[i + 1] : i \in 1 .. k}
          BY <4>4, <4>5
        <5>2. ASSUME NEW i \in 1 .. k  PROVE g[i + 1] \in next
          BY <4>4, <4>5
        <5>3. QED
          BY <5>1, <5>2, <4>4, <4>5
      <4>7. \A i \in 1 .. k + 1 : g[i] \in w \cup next
        <5> SUFFICES ASSUME NEW i \in 1 .. k + 1
                     PROVE  g[i] \in w \cup next
          OBVIOUS
        <5>1. CASE i = k + 1
          <6>1. k \in 1 .. k
            BY <2>2
          <6>2. g[k + 1] \in next
            BY <6>1, <4>6
          <6>3. QED
            BY <5>1, <6>2
        <5>2. CASE i # k + 1
          BY <5>2, <4>1
        <5>3. QED
          BY <5>1, <5>2
      <4>8. \A x \in w \cup next : x \in First(k)
        <5>1. \A i \in 1 .. k : i \in 1 .. k + 1 /\ i + 1 \in 1 .. k + 1
          OBVIOUS
        <5>2. QED
          BY <5>1, <4>1, <4>2, <4>6
      <4>9. w \cup next = First(k)
        <5> HIDE DEF w, next
        <5>1. \A x \in First(k) : x \in w \cup next
          BY <4>2, <4>7
        <5> HIDE DEF First
        <5>2. QED
          BY <5>1, <4>8
      <4>10. QED
        BY <3>2, <4>9
    <3>4. CASE ~(k < last)
      <4>1. First(k) = {g[i] : i \in 1 .. last} \cup {no_more_clusters}
        BY <3>4
      <4>2. {g[i] : i \in 1 .. last} \subseteq w /\ w \subseteq First(k)
        BY <3>1, <3>4, <1>2
      <4>3. \A c \in w \cap Clusters : \E i \in 1 .. last : c = g[i]
        BY <4>1, <4>2, <1>4
      <4>4. \A i \in 1 .. last : links[g[i]] \in First(k)
        <5> SUFFICES ASSUME NEW i \in 1 .. last
                     PROVE  links[g[i]] \in First(k)
          OBVIOUS
        <5>1. i # last => i + 1 \in 1 .. last
          BY <1>2
        <5>2. QED
          BY <5>1, <4>1, <1>3
      <4>5. next \subseteq First(k)
        BY <4>3, <4>4
      <4>6. no_more_clusters \in next
        <5>1. g[last] \in w \cap Clusters /\ links[g[last]] = no_more_clusters
          BY <4>2, <1>2, <1>3
        <5>2. QED
          BY <5>1
      <4> HIDE DEF w, next
      <4>7. First(k) = w \cup next
        BY <4>1, <4>2, <4>5, <4>6
      <4>8. QED
        BY <3>2, <4>7
    <3>5. QED
      BY <3>3, <3>4
  <2>3. QED
    BY <2>1, <2>2
<1> HIDE DEF explicit
<1>6. within = Steps(within)
  BY <1>5
<1> HIDE DEF within
<1>7. within[0] = explicit[0]
  <2>1. 0 \in 0 .. number_of_clusters
    BY Numbers
  <2>2. Steps(within)[0] = Steps(explicit)[0]
    BY <2>1
  <2>3. QED
    BY <2>2, <1>5, <1>6
<1>8. \A k \in 1 .. number_of_clusters : within[k - 1] = explicit[k - 1] => within[k] = explicit[k]
  <2> SUFFICES ASSUME NEW k \in 1 .. number_of_clusters, within[k - 1] = explicit[k - 1]
               PROVE  within[k] = explicit[k]
    OBVIOUS
  <2>1. k \in 0 .. number_of_clusters
    OBVIOUS
  <2>2. Steps(within)[k] = Steps(explicit)[k]
    BY <2>1
  <2>3. QED
    BY <2>2, <1>5, <1>6
<1>9. within[number_of_clusters] = First(number_of_clusters)
  <2>1. \A k \in 0 .. number_of_clusters : within[k] = explicit[k]
    BY <1>7, <1>8, SameLoop, Numbers
  <2>2. number_of_clusters \in 0 .. number_of_clusters
    BY Numbers
  <2>3. QED
    BY <2>1, <2>2 DEF explicit
<1>10. First(number_of_clusters) \ {no_more_clusters} = {g[i] : i \in 1 .. last}
  <2>1. First(number_of_clusters) = {g[i] : i \in 1 .. last} \cup {no_more_clusters}
    BY <1>2, Numbers
  <2>2. QED
    BY <2>1, <1>3, <1>4
<1>11. Range(g) = {g[i] : i \in 1 .. last}
  <2>1. DOMAIN g = 1 .. last
    BY DEF Stored, last
  <2>2. QED
    BY <2>1 DEF Range
<1>12. QED
  BY <1>1, <1>9, <1>10, <1>11 DEF links
-----------------------------------------------------------------------------
(* There is a k-th lowest cluster of every set of at least k clusters.     *)
LEMMA Ranked ==
  ASSUME NEW U \in SUBSET Clusters, NEW n \in Nat, n < Cardinality(U)
  PROVE  \E c \in U : Cardinality({d \in U : d <= c}) = n + 1
<1> DEFINE Below(c) == {d \in U : d <= c}
           S == {k \in Nat : k < Cardinality(U) => \E c \in U : Cardinality(Below(c)) = k + 1}
<1>1. IsFiniteSet(U) /\ Cardinality(U) \in Nat /\ U \subseteq Nat
  <2>1. IsFiniteSet(Clusters)
    <3>1. number_of_clusters + 1 \in Int /\ 2 \in Int
      BY Numbers
    <3>2. QED
      BY <3>1, FS_Interval DEF Clusters
  <2>2. IsFiniteSet(U)
    BY <2>1, FS_Subset
  <2>3. QED
    BY <2>2, FS_CardinalityType, Numbers
<1>2. 0 \in S
  <2> SUFFICES ASSUME 0 < Cardinality(U)
               PROVE  \E c \in U : Cardinality(Below(c)) = 1
    OBVIOUS
  <2>1. U # {}
    BY FS_EmptySet
  <2>2. PICK c \in U : \A d \in U : c <= d
    BY <1>1, <2>1, LeastNatural
  <2>3. Below(c) = {c}
    <3>1. \A d \in U : d <= c <=> d = c
      BY <1>1, <2>2
    <3>2. QED
      BY <3>1
  <2>4. Cardinality({c}) = 1
    BY FS_Singleton
  <2> HIDE DEF Below
  <2>5. QED
    BY <2>3, <2>4
<1>3. \A k \in Nat : k \in S => k + 1 \in S
  <2> SUFFICES ASSUME NEW k \in Nat, k + 1 < Cardinality(U), NEW c \in U, Cardinality(Below(c)) = k + 1
               PROVE  \E e \in U : Cardinality(Below(e)) = (k + 1) + 1
    BY <1>1
  <2>1. Below(c) \in SUBSET U
    OBVIOUS
  <2>2. IsFiniteSet(Below(c))
    <3> HIDE DEF Below
    <3>1. QED
      BY <1>1, <2>1, FS_Subset
  <2>3. U \ Below(c) # {} /\ U \ Below(c) \subseteq Nat
    <3>1. Below(c) # U
      BY <1>1
    <3>2. QED
      BY <3>1, <1>1, <2>1
  <2>4. PICK e \in U \ Below(c) : \A d \in U \ Below(c) : e <= d
    <3> DEFINE T == U \ Below(c)
    <3>1. T # {} /\ T \subseteq Nat
      BY <2>3
    <3> HIDE DEF T
    <3>2. \E e \in T : \A d \in T : e <= d
      BY <3>1, LeastNatural
    <3>3. QED
      BY <3>2 DEF T
  <2>5. e \in Nat /\ c \in Nat /\ c < e
    BY <1>1, <2>4
  <2>6. Below(e) = Below(c) \cup {e}
    <3>1. \A d \in U : d <= e <=> d <= c \/ d = e
      <4> SUFFICES ASSUME NEW d \in U PROVE d <= e <=> d <= c \/ d = e
        OBVIOUS
      <4>1. d \in Nat
        BY <1>1
      <4>2. CASE d <= c
        BY <4>1, <4>2, <2>5
      <4>3. CASE ~(d <= c)
        <5>1. e <= d
          BY <4>3, <2>4
        <5>2. QED
          BY <5>1, <4>1, <4>3, <2>5
      <4>4. QED
        BY <4>2, <4>3
    <3>2. QED
      BY <3>1, <2>4
  <2>7. e \notin Below(c)
    BY <2>4
  <2> HIDE DEF Below
  <2>8. Cardinality(Below(c) \cup {e}) = Cardinality(Below(c)) + 1
    BY <2>2, <2>7, FS_AddElement
  <2>9. QED
    BY <2>4, <2>6, <2>8
<1> HIDE DEF S
<1>4. n \in S
  BY <1>2, <1>3, InductionBySet
<1>5. QED
  BY <1>4 DEF S

(* The clusters that get_unused_cluster_number() gives to one file.        *)
Takes(im, n, taken) ==
  /\ taken \in [1 .. n -> Unused(im)]
  /\ \A i, j \in 1 .. n : taken[i] = taken[j] => i = j
  /\ taken \in Seq(Clusters) /\ Len(taken) = n

(* As many calls of get_unused_cluster_number() as there are unused       *)
(* clusters give clusters that differ and are unused.                     *)
LEMMA TakenDiffer ==
  ASSUME NEW im, NEW n \in Nat, n <= Cardinality(Unused(im))
  PROVE  Takes(im, n, Taken(im, n))
<1> DEFINE U == Unused(im)
           Rank(c) == Cardinality({d \in U : d <= c})
           pick == [k \in 1 .. n |-> CHOOSE c \in U : Rank(c) = k]
<1>1. U \in SUBSET Clusters
  BY DEF Unused
<1>2. Taken(im, n) = pick
  BY DEF Taken
<1> HIDE DEF U
<1>3. Cardinality(U) \in Nat
  <2>1. IsFiniteSet(Clusters)
    <3>1. number_of_clusters + 1 \in Int /\ 2 \in Int
      BY Numbers
    <3>2. QED
      BY <3>1, FS_Interval DEF Clusters
  <2>2. QED
    BY <2>1, <1>1, FS_Subset, FS_CardinalityType
<1>4. \A k \in 1 .. n : pick[k] \in U /\ Rank(pick[k]) = k
  <2> SUFFICES ASSUME NEW k \in 1 .. n
               PROVE  pick[k] \in U /\ Rank(pick[k]) = k
    OBVIOUS
  <2>1. k - 1 \in Nat /\ k - 1 < Cardinality(U) /\ (k - 1) + 1 = k
    BY <1>3 DEF U
  <2>2. \E c \in U : Rank(c) = (k - 1) + 1
    BY <1>1, <2>1, Ranked
  <2> HIDE DEF Rank
  <2>3. QED
    BY <2>1, <2>2
<1> HIDE DEF Rank
<1>5. pick \in [1 .. n -> U]
  BY <1>4
<1>6. \A i, j \in 1 .. n : pick[i] = pick[j] => i = j
  BY <1>4
<1> HIDE DEF pick
<1>7. pick \in [1 .. n -> Clusters]
  BY <1>1, <1>5
<1>8. pick \in Seq(Clusters) /\ Len(pick) = n
  BY <1>7
<1>9. QED
  BY <1>2, <1>5, <1>6, <1>8 DEF Takes, U
-----------------------------------------------------------------------------
(* A file is held as long as its entry, its links and its blocks stay.     *)
LEMMA HeldSame ==
  ASSUME NEW im, NEW im2, NEW n, NEW content, NEW g, Held(im, n, content, g),
         Found(im2, n) = Found(im, n),
         \A s \in Found(im, n) : im2.entries[s] = im.entries[s],
         \A i \in 1 .. Len(g) : im2.links[g[i]] = im.links[g[i]] /\ im2.blocks[g[i]] = im.blocks[g[i]]
  PROVE  Held(im2, n, content, g)
<1>1. CASE Found(im, n) = {} /\ content = NULL /\ g = <<>>
  <2> HIDE DEF Found
  <2>1. QED
    BY <1>1 DEF Held
<1>2. CASE Stored(im, n, content, g)
  <2>1. PICK s \in Slots : /\ Found(im, n) = {s}
                           /\ im.entries[s].cluster_number = g[1]
                           /\ im.entries[s].size = Len(content)
    BY <1>2 DEF Stored
  <2> HIDE DEF Found
  <2>2. Found(im2, n) = {s} /\ im2.entries[s] = im.entries[s]
    BY <2>1
  <2>3. Stored(im2, n, content, g)
    BY <1>2, <2>1, <2>2 DEF Stored
  <2>4. QED
    BY <2>3 DEF Held
<1>3. QED
  BY <1>1, <1>2 DEF Held

(* The links of the clusters of a file are not 0.                          *)
LEMMA HeldLinked ==
  ASSUME NEW im, NEW n, NEW content, NEW g, Held(im, n, content, g)
  PROVE  /\ g \in Seq(Clusters)
         /\ \A i \in 1 .. Len(g) : g[i] \in Clusters /\ im.links[g[i]] # 0
         /\ Range(g) = {g[i] : i \in 1 .. Len(g)}
<1>1. g \in Seq(Clusters)
  BY EmptySeq DEF Held, Stored
<1>2. \A i \in 1 .. Len(g) : g[i] \in Clusters
  BY <1>1
<1>3. \A i \in 1 .. Len(g) : im.links[g[i]] # 0
  <2>1. CASE g = <<>>
    BY <2>1
  <2>2. CASE Stored(im, n, content, g)
    <3> SUFFICES ASSUME NEW i \in 1 .. Len(g) PROVE im.links[g[i]] # 0
      OBVIOUS
    <3>1. im.links[g[i]] = IF i = Len(g) THEN no_more_clusters ELSE g[i + 1]
      BY <2>2 DEF Stored
    <3>2. i # Len(g) => g[i + 1] \in Clusters
      BY <1>1
    <3>3. QED
      BY <3>1, <3>2, Numbers
  <2>3. QED
    BY <2>1, <2>2 DEF Held
<1>4. Range(g) = {g[i] : i \in 1 .. Len(g)}
  BY <1>1 DEF Range
<1>5. QED
  BY <1>1, <1>2, <1>3, <1>4

(* Slot s is emptied, and the clusters of freed get the link 0.            *)
Clears(im, im2, s, freed) ==
  /\ Image(im2)
  /\ im2.links = [c \in Links |-> IF c \in freed THEN 0 ELSE im.links[c]]
  /\ im2.blocks = im.blocks
  /\ \A t \in Slots \ {s} : im2.entries[t] = im.entries[t]
  /\ im2.entries[s].name = NULL

(* delete_file() frees the entry and the clusters of the file, and        *)
(* touches no other.                                                      *)
LEMMA DeleteClears ==
  ASSUME 0 \notin Lengths, NEW im, Image(im), NEW n, NEW s \in Slots, Found(im, n) = {s},
         NEW content, NEW g, Stored(im, n, content, g)
  PROVE  Clears(im, delete_file(im, s), s, Range(g))
<1> DEFINE entries == [im.entries EXCEPT ![s].name = NULL]
           links == [c \in Links |-> IF c \in Range(g) THEN 0 ELSE im.links[c]]
           first == im.entries[s].cluster_number
           im1 == [im EXCEPT !.entries = entries]
           im2 == [im1 EXCEPT !.links = links]
<1>1. first = g[1]
  BY DEF Stored
<1>2. Reached(im.links, first) = Range(g)
  BY <1>1, StoredReached
<1>3. /\ im.links \in [Links -> Links \cup {MediaLink, no_more_clusters}]
      /\ im.entries \in [Slots -> [name : Names \cup {NULL}, cluster_number : Links, size : Nat]]
      /\ DOMAIN im.blocks = Links
      /\ DOMAIN im = {"links", "entries", "blocks"}
  BY DEF Image, ImageOK
<1>4. entries \in [Slots -> [name : Names \cup {NULL}, cluster_number : Links, size : Nat]]
  BY <1>3
<1>5. links \in [Links -> Links \cup {MediaLink, no_more_clusters}]
  <2>1. 0 \in Links
    BY Numbers DEF Links
  <2>2. QED
    BY <1>3, <2>1
<1>6. entries[s].name = NULL /\ \A t \in Slots \ {s} : entries[t] = im.entries[t]
  BY <1>3
<1>7. im1.links = im.links /\ DOMAIN im1 = DOMAIN im /\ im1.blocks = im.blocks /\ im1.entries = entries
  <2> HIDE DEF entries
  <2>1. QED
    BY <1>3
<1>8. delete_file(im, s) = [im1 EXCEPT !.links = [c \in Links |-> IF c \in Reached(im1.links, first) THEN 0 ELSE im1.links[c]]]
  BY <1>3 DEF delete_file, FreeClusters
<1> HIDE DEF im1, entries, first
<1>9. [c \in Links |-> IF c \in Reached(im1.links, first) THEN 0 ELSE im1.links[c]] = links
  BY <1>2, <1>7
<1>10. delete_file(im, s) = im2
  BY <1>8, <1>9
<1> HIDE DEF links
<1>11. im2.links = links /\ im2.entries = entries /\ im2.blocks = im.blocks /\ DOMAIN im2 = DOMAIN im
  BY <1>3, <1>7
<1> HIDE DEF im2
<1>12. Image(im2)
  BY <1>3, <1>4, <1>5, <1>11 DEF Image, ImageOK
<1>13. Clears(im, im2, s, Range(g))
  BY <1>6, <1>11, <1>12 DEF Clears, links
<1>14. QED
  BY <1>10, <1>13

(* The file is in the cluster of taken, and nothing else of the image has  *)
(* changed.                                                                *)
Writes(im, im2, s, name, content, taken) ==
  /\ Image(im2)
  /\ \A c \in Links \ Range(taken) : im2.links[c] = im.links[c] /\ im2.blocks[c] = im.blocks[c]
  /\ \A t \in Slots \ {s} : im2.entries[t] = im.entries[t]
  /\ im2.entries[s].name = name
  /\ im2.entries[s].cluster_number = taken[1]
  /\ im2.entries[s].size = Len(content)
  /\ \A i \in 1 .. Len(taken) :
       /\ im2.links[taken[i]] = IF i = Len(taken) THEN no_more_clusters ELSE taken[i + 1]
       /\ im2.blocks[taken[i]] = Block(content, i)

(* What save_file() writes into an image whose old file is deleted.       *)
LEMMA WriteWrites ==
  ASSUME 0 \notin Lengths, NEW im, Image(im), NEW s \in Slots, NEW name \in Names,
         NEW content \in Contents, Necessary(Len(content)) <= Cardinality(Unused(im))
  PROVE  LET taken == Taken(im, Necessary(Len(content)))
         IN /\ Takes(im, Necessary(Len(content)), taken)
            /\ Writes(im, WriteFile(im, s, name, content), s, name, content, taken)
<1> DEFINE n == Necessary(Len(content))
           taken == Taken(im, n)
           entry == [name |-> name, size |-> Len(content), cluster_number |-> Taken(im, 1)[1]]
           entries == [im.entries EXCEPT ![s] = entry]
           links == NewLinks(im.links, taken)
           blocks == [c \in Links |-> IF c \in Range(taken)
                                      THEN Block(content, Position(taken, c))
                                      ELSE im.blocks[c]]
           im2 == [entries |-> entries, links |-> links, blocks |-> blocks]
<1>1. Len(content) \in Nat \ {0} /\ n \in Nat \ {0}
  BY ContentTyped, NecessaryBounds
<1>2. WriteFile(im, s, name, content) = im2
  BY DEF WriteFile
<1>3. Taken(im, 1)[1] = taken[1]
  <2>1. 1 \in 1 .. 1 /\ 1 \in 1 .. n
    BY <1>1
  <2> DEFINE pick(k) == CHOOSE c \in Unused(im) : Cardinality({d \in Unused(im) : d <= c}) = k
  <2> HIDE DEF n
  <2>2. Taken(im, 1) = [k \in 1 .. 1 |-> pick(k)] /\ Taken(im, n) = [k \in 1 .. n |-> pick(k)]
    BY DEF Taken
  <2> HIDE DEF pick
  <2>3. QED
    BY <2>1, <2>2
<1> HIDE DEF n
<1>4. Takes(im, n, taken)
  BY <1>1, TakenDiffer DEF n
<1> HIDE DEF taken
<1>5. /\ taken \in [1 .. n -> Clusters] /\ Len(taken) = n /\ DOMAIN taken = 1 .. n
      /\ \A i, j \in 1 .. n : taken[i] = taken[j] => i = j
  BY <1>1, <1>4 DEF Takes
<1>6. Range(taken) = {taken[i] : i \in 1 .. n} /\ Range(taken) \subseteq Clusters /\ Last(taken) = taken[n]
  BY <1>5 DEF Range, Last
<1>7. \A i \in 1 .. n : Position(taken, taken[i]) = i
  BY <1>5 DEF Position
<1>8. /\ im.links \in [Links -> Links \cup {MediaLink, no_more_clusters}]
      /\ im.entries \in [Slots -> [name : Names \cup {NULL}, cluster_number : Links, size : Nat]]
      /\ DOMAIN im.blocks = Links
  BY DEF Image, ImageOK
<1>9. /\ entry \in [name : Names \cup {NULL}, cluster_number : Links, size : Nat]
      /\ entry.name = name /\ entry.cluster_number = taken[1] /\ entry.size = Len(content)
  <2>1. taken[1] \in Links
    <3>1. taken[1] \in Clusters
      BY <1>1, <1>5
    <3>2. QED
      BY <3>1, Numbers
  <2>2. QED
    BY <1>1, <1>3, <2>1
<1> HIDE DEF entry
<1>10. /\ entries \in [Slots -> [name : Names \cup {NULL}, cluster_number : Links, size : Nat]]
       /\ entries[s] = entry /\ \A t \in Slots \ {s} : entries[t] = im.entries[t]
  BY <1>8, <1>9
<1> HIDE DEF entries
<1>11. \A c \in Links : links[c] = IF c \notin Range(taken) THEN im.links[c]
                                   ELSE IF c = Last(taken) THEN no_more_clusters
                                   ELSE taken[Position(taken, c) + 1]
  BY DEF NewLinks
<1>12. \A c \in Links : blocks[c] = IF c \in Range(taken)
                                    THEN Block(content, Position(taken, c)) ELSE im.blocks[c]
  OBVIOUS
<1>13. DOMAIN blocks = Links /\ links = [c \in Links |-> links[c]]
  BY DEF NewLinks
<1> HIDE DEF links, blocks
<1>14. \A i \in 1 .. n : /\ links[taken[i]] = IF i = n THEN no_more_clusters ELSE taken[i + 1]
                         /\ blocks[taken[i]] = Block(content, i)
  <2> SUFFICES ASSUME NEW i \in 1 .. n
               PROVE  /\ links[taken[i]] = IF i = n THEN no_more_clusters ELSE taken[i + 1]
                      /\ blocks[taken[i]] = Block(content, i)
    OBVIOUS
  <2>1. taken[i] \in Range(taken) /\ taken[i] \in Links /\ Position(taken, taken[i]) = i
    BY <1>5, <1>6, <1>7, Numbers
  <2>2. taken[i] = taken[n] <=> i = n
    BY <1>1, <1>5
  <2>3. QED
    BY <2>1, <2>2, <1>6, <1>11, <1>12
<1>15. \A c \in Links \ Range(taken) : links[c] = im.links[c] /\ blocks[c] = im.blocks[c]
  BY <1>11, <1>12
<1>16. links \in [Links -> Links \cup {MediaLink, no_more_clusters}]
  <2> SUFFICES ASSUME NEW c \in Links
               PROVE  links[c] \in Links \cup {MediaLink, no_more_clusters}
    BY <1>13
  <2>1. CASE c \notin Range(taken)
    BY <2>1, <1>8, <1>15
  <2>2. CASE c \in Range(taken)
    <3>1. PICK i \in 1 .. n : c = taken[i]
      BY <2>2, <1>6
    <3>2. i # n => taken[i + 1] \in Links
      <4>1. i # n => i + 1 \in 1 .. n
        BY <1>1
      <4>2. i # n => taken[i + 1] \in Clusters
        BY <4>1, <1>5
      <4>3. QED
        BY <4>2, Numbers
    <3>3. QED
      BY <3>1, <3>2, <1>14
  <2>3. QED
    BY <2>1, <2>2
<1>17. im2.links = links /\ im2.entries = entries /\ im2.blocks = blocks /\ DOMAIN im2 = {"links", "entries", "blocks"}
  OBVIOUS
<1> HIDE DEF im2
<1>18. Image(im2)
  BY <1>10, <1>13, <1>16, <1>17 DEF Image, ImageOK
<1>19. Writes(im, im2, s, name, content, taken)
  BY <1>5, <1>9, <1>10, <1>14, <1>15, <1>17, <1>18 DEF Writes
<1>20. QED
  BY <1>2, <1>4, <1>19 DEF n, taken
-----------------------------------------------------------------------------
(* What save_file() makes of an image that holds files in the clusters of  *)
(* layout: file name is in the clusters of taken, the other files are      *)
(* where they were, and nothing has changed elsewhere.                     *)
Changes(im, im2, layout, name, content, taken) ==
  /\ Image(im2)
  /\ Stored(im2, name, content, taken)
  /\ \A n \in Names \ {name} :
       /\ Found(im2, n) = Found(im, n)
       /\ \A t \in Found(im, n) : im2.entries[t] = im.entries[t]
       /\ \A i \in 1 .. Len(layout[n]) : /\ im2.links[layout[n][i]] = im.links[layout[n][i]]
                                         /\ im2.blocks[layout[n][i]] = im.blocks[layout[n][i]]
       /\ Range(layout[n]) \cap Range(taken) = {}
  /\ \A c \in Links \ Range(taken) :
       /\ im2.blocks[c] = im.blocks[c]
       /\ im2.links[c] = IF c \in Range(layout[name]) THEN 0 ELSE im.links[c]

(* Deleting and writing together: the new file is stored, and the others  *)
(* are in the same clusters with the same links as before.                *)
LEMMA SaveChanges ==
  ASSUME 0 \notin Lengths, NEW im, Image(im), NEW fs, NEW layout, Holds(im, fs, layout),
         NEW s \in Slots, NEW name \in Names, NEW content \in Contents,
         Found(im, name) = {s} \/ (Found(im, name) = {} /\ im.entries[s].name = NULL),
         NEW im1, Clears(im, im1, s, Range(layout[name])),
         NEW im2, NEW taken, Takes(im1, Necessary(Len(content)), taken),
         Writes(im1, im2, s, name, content, taken)
  PROVE  Changes(im, im2, layout, name, content, taken)
<1> DEFINE k == Necessary(Len(content))
<1>1. /\ Len(content) \in Nat \ {0} /\ k \in Nat \ {0}
  BY ContentTyped, NecessaryBounds
<1> HIDE DEF k
<1>2. /\ taken \in Seq(Clusters) /\ Len(taken) = k
      /\ Range(taken) = {taken[i] : i \in 1 .. k}
      /\ \A i, j \in 1 .. k : i < j => taken[i] # taken[j]
      /\ \A i \in 1 .. k : im1.links[taken[i]] = 0 /\ taken[i] \in Clusters
  <2>1. /\ taken \in Seq(Clusters) /\ Len(taken) = k
        /\ taken \in [1 .. k -> Unused(im1)]
        /\ \A i, j \in 1 .. k : taken[i] = taken[j] => i = j
    BY DEF Takes, k
  <2>2. Range(taken) = {taken[i] : i \in 1 .. k}
    BY <2>1 DEF Range
  <2>3. \A i \in 1 .. k : im1.links[taken[i]] = 0 /\ taken[i] \in Clusters
    BY <2>1 DEF Unused
  <2>4. \A i, j \in 1 .. k : i < j => taken[i] # taken[j]
    BY <2>1, <1>1
  <2>5. QED
    BY <2>1, <2>2, <2>3, <2>4
<1>3. \A t \in Slots \ {s} : im2.entries[t] = im.entries[t]
  BY DEF Clears, Writes
<1>4. Found(im2, name) = {s}
  <2>1. im2.entries[s].name = name
    BY DEF Writes
  <2>2. \A t \in Slots \ {s} : im.entries[t].name # name
    BY FileSystemAssumption DEF Found
  <2>3. QED
    BY <1>3, <2>1, <2>2 DEF Found
<1>5. Stored(im2, name, content, taken)
  BY <1>2, <1>4 DEF Stored, Writes, k
<1>6. \A c \in Links \ Range(taken) :
        /\ im2.blocks[c] = im.blocks[c]
        /\ im2.links[c] = IF c \in Range(layout[name]) THEN 0 ELSE im.links[c]
  BY DEF Clears, Writes
<1>7. ASSUME NEW n \in Names \ {name}
      PROVE  /\ Found(im2, n) = Found(im, n)
             /\ \A t \in Found(im, n) : im2.entries[t] = im.entries[t]
             /\ Range(layout[n]) \cap Range(taken) = {}
             /\ \A i \in 1 .. Len(layout[n]) : /\ im2.links[layout[n][i]] = im.links[layout[n][i]]
                                               /\ im2.blocks[layout[n][i]] = im.blocks[layout[n][i]]
  <2> DEFINE g == layout[n]
  <2>1. im.entries[s].name # n /\ im2.entries[s].name # n
    BY FileSystemAssumption DEF Found, Writes
  <2>2. Found(im2, n) = Found(im, n) /\ \A t \in Found(im, n) : im2.entries[t] = im.entries[t]
    BY <2>1, <1>3 DEF Found
  <2>3. Held(im, n, fs[n], g) /\ Range(g) \cap Range(layout[name]) = {}
    BY DEF Holds
  <2> HIDE DEF g
  <2>4. /\ \A i \in 1 .. Len(g) : g[i] \in Clusters /\ im.links[g[i]] # 0
        /\ Range(g) = {g[i] : i \in 1 .. Len(g)}
    BY <2>3, HeldLinked
  <2>5. \A i \in 1 .. Len(g) : g[i] \in Links /\ im1.links[g[i]] = im.links[g[i]]
    BY <2>3, <2>4, Numbers DEF Clears
  <2>6. Range(g) \cap Range(taken) = {}
    BY <2>4, <2>5, <1>2
  <2>7. \A i \in 1 .. Len(g) : im2.links[g[i]] = im.links[g[i]] /\ im2.blocks[g[i]] = im.blocks[g[i]]
    BY <2>3, <2>4, <2>5, <2>6, <1>6
  <2>8. QED
    BY <2>2, <2>6, <2>7 DEF g
<1>8. Image(im2)
  BY DEF Writes
<1>9. QED
  BY <1>5, <1>6, <1>7, <1>8 DEF Changes

(* save_file() deletes the file it finds, or takes an empty slot, and      *)
(* writes.                                                                 *)
LEMMA SaveFile ==
  ASSUME 0 \notin Lengths, NEW layout, Image(image), Holds(image, files, layout),
         NEW name \in Names, NEW content \in Contents, save_file(name, content)
  PROVE  \E taken :
           /\ Changes(image, image', layout, name, content, taken)
           /\ sector_flags' = sector_flags \cup {DirectorySector}
                \cup {FatSector(c) : c \in Range(layout[name]) \cup Range(taken)}
                \cup {ClusterSector(c) : c \in Range(taken)}
<1> DEFINE s == Entry(name)
           g == layout[name]
           im1 == Cleared(name)
           n == Necessary(Len(content))
           taken == Taken(im1, n)
<1>1. /\ ~DirectoryFull(name) /\ ~DiskFull(name, content)
      /\ image' = WriteFile(im1, s, name, content)
      /\ sector_flags' = sector_flags \cup ClearedFlags(name) \cup write_file_flags(im1, content)
  BY DEF save_file, GetsStuck
<1>2. Held(image, name, files[name], g)
  BY DEF Holds
<1>3. /\ s \in Slots
      /\ Found(image, name) = {s} \/ (Found(image, name) = {} /\ image.entries[s].name = NULL)
      /\ Clears(image, im1, s, Range(g))
      /\ ClearedFlags(name) \cup {DirectorySector} = {DirectorySector} \cup {FatSector(c) : c \in Range(g)}
  <2>1. CASE Stored(image, name, files[name], g)
    <3>1. PICK x \in Slots : Found(image, name) = {x} /\ image.entries[x].cluster_number = g[1]
      BY <2>1 DEF Stored
    <3>2. Overwrites(name)
      BY <3>1 DEF Overwrites
    <3>3. s = get_file_information(image, name)
      BY <3>2 DEF Entry, get_file_information
    <3>4. s = x
      BY <3>1, <3>3, InformationFound
    <3>5. im1 = delete_file(image, s) /\ ClearedFlags(name) = delete_file_flags(image, s)
      BY <3>2 DEF Cleared, ClearedFlags
    <3> HIDE DEF s, im1, g
    <3>6. Clears(image, im1, s, Range(g))
      BY <2>1, <3>1, <3>4, <3>5, DeleteClears
    <3>7. Reached(image.links, image.entries[s].cluster_number) = Range(g)
      BY <2>1, <3>1, <3>4, StoredReached
    <3>8. ClearedFlags(name) = {DirectorySector} \cup {FatSector(c) : c \in Range(g)}
      BY <3>5, <3>7 DEF delete_file_flags
    <3>9. ClearedFlags(name) \cup {DirectorySector} = {DirectorySector} \cup {FatSector(c) : c \in Range(g)}
      BY <3>8
    <3>10. s \in Slots /\ Found(image, name) = {s}
      BY <3>1, <3>4
    <3>11. QED
      BY <3>6, <3>9, <3>10
  <2>2. CASE Found(image, name) = {} /\ g = <<>>
    <3>1. ~Overwrites(name)
      BY <2>2 DEF Overwrites
    <3>2. Found(image, NULL) # {} /\ Found(image, NULL) \subseteq Nat
      BY <3>1, <1>1, Numbers DEF DirectoryFull, Found, Slots
    <3>3. \E x \in Found(image, NULL) : \A y \in Found(image, NULL) : x <= y
      BY <3>2, LeastNatural
    <3>4. s = CHOOSE x \in Found(image, NULL) : \A y \in Found(image, NULL) : x <= y
      BY <3>1 DEF Entry
    <3>5. s \in Found(image, NULL)
      BY <3>3, <3>4
    <3>6. im1 = image /\ ClearedFlags(name) = {}
      BY <3>1 DEF Cleared, ClearedFlags
    <3>7. Range(g) = {}
      BY <2>2 DEF Range
    <3> HIDE DEF s, im1, g
    <3>8. s \in Slots /\ image.entries[s].name = NULL
      BY <3>5 DEF Found
    <3>9. image.links = [c \in Links |-> IF c \in Range(g) THEN 0 ELSE image.links[c]]
      BY <3>7 DEF Image, ImageOK
    <3>10. Clears(image, im1, s, Range(g))
      BY <3>6, <3>8, <3>9 DEF Clears
    <3>11. QED
      BY <2>2, <3>6, <3>7, <3>8, <3>10
  <2>3. QED
    BY <2>1, <2>2, <1>2 DEF Held
<1>4. n <= Cardinality(Unused(im1))
  <2>1. Len(content) \in Nat \ {0} /\ n \in Nat \ {0}
    BY ContentTyped, NecessaryBounds
  <2>2. ~(Cardinality(Unused(im1)) < n)
    BY <2>1, <1>1 DEF DiskFull
  <2>3. IsFiniteSet(Unused(im1))
    <3>1. number_of_clusters + 1 \in Int /\ 2 \in Int
      BY Numbers
    <3>2. IsFiniteSet(Clusters)
      BY <3>1, FS_Interval DEF Clusters
    <3>3. Unused(im1) \in SUBSET Clusters
      BY DEF Unused
    <3>4. QED
      BY <3>2, <3>3, FS_Subset
  <2>4. Cardinality(Unused(im1)) \in Nat
    BY <2>3, FS_CardinalityType
  <2>5. QED
    BY <2>1, <2>2, <2>4
<1> HIDE DEF s, im1
<1>5. Image(im1)
  BY <1>3 DEF Clears
<1>6. Takes(im1, n, taken) /\ Writes(im1, image', s, name, content, taken)
  BY <1>1, <1>3, <1>4, <1>5, WriteWrites
<1> DEFINE w == {DirectorySector} \cup {FatSector(c) : c \in Range(taken)} \cup {ClusterSector(c) : c \in Range(taken)}
<1>7. write_file_flags(im1, content) = w
  BY DEF write_file_flags
<1> HIDE DEF taken, n, g
<1>8. Changes(image, image', layout, name, content, taken)
  BY <1>3, <1>6, SaveChanges DEF n, g
<1>9. sector_flags' = sector_flags \cup {DirectorySector}
        \cup {FatSector(c) : c \in Range(g) \cup Range(taken)}
        \cup {ClusterSector(c) : c \in Range(taken)}
  <2>1. sector_flags' = sector_flags \cup (ClearedFlags(name) \cup {DirectorySector}) \cup w
    BY <1>1, <1>7
  <2>2. {FatSector(c) : c \in Range(g) \cup Range(taken)}
          = {FatSector(c) : c \in Range(g)} \cup {FatSector(c) : c \in Range(taken)}
    OBVIOUS
  <2>3. QED
    BY <2>1, <2>2, <1>3
<1>10. QED
  BY <1>8, <1>9 DEF g
-----------------------------------------------------------------------------
(* The layout gets the new clusters of the file; what differs from the    *)
(* disk got a flag, so a file that was not saved keeps its place on the   *)
(* disk.                                                                  *)
LEMMA SaveKeeps ==
  ASSUME 0 \notin Lengths, FileInv, ~Writing, saves < MaxSaves,
         NEW name \in Names, NEW length \in Lengths, save_file(name, Units(saves + 1, length))
  PROVE  FileInv'
<1> DEFINE content == Units(saves + 1, length)
<1>1. content \in Contents
  <2>1. saves + 1 \in 1 .. MaxSaves
    BY FileSystemAssumption DEF FileInv, Typed
  <2>2. QED
    BY <2>1 DEF Contents
<1>2. /\ files' = [files EXCEPT ![name] = content]
      /\ touched' = touched \cup {name}
      /\ saves' = saves + 1
      /\ disk' = disk /\ writer' = writer /\ saved' = saved
  BY DEF save_file
<1>3. save_file(name, content)
  OBVIOUS
<1> HIDE DEF content
<1>4. /\ Typed /\ writer = NoWriter /\ Agree(image, disk, Stale)
      /\ \E l : Consistent(l)
      /\ \E l : Holds(disk, saved, l)
  BY DEF FileInv, WriterOK
<1>5. PICK layout : Consistent(layout)
  BY <1>4
<1>6. /\ Holds(image, files, layout)
      /\ \A n \in Names \ touched : saved[n] = files[n] /\ Held(disk, n, files[n], layout[n])
  BY <1>5 DEF Consistent
<1>7. PICK taken :
        /\ Changes(image, image', layout, name, content, taken)
        /\ sector_flags' = sector_flags \cup {DirectorySector}
             \cup {FatSector(c) : c \in Range(layout[name]) \cup Range(taken)}
             \cup {ClusterSector(c) : c \in Range(taken)}
  <2>1. Image(image)
    BY <1>4 DEF Typed
  <2>2. QED
    BY <1>1, <1>3, <1>6, <2>1, SaveFile
<1>8. /\ files'[name] = content /\ DOMAIN files' = Names
      /\ \A n \in Names \ {name} : files'[n] = files[n]
  BY <1>2, <1>4 DEF Typed
<1> DEFINE new == [n \in Names |-> IF n = name THEN taken ELSE layout[n]]
<1>9. new[name] = taken /\ \A n \in Names \ {name} : new[n] = layout[n]
  OBVIOUS
<1> HIDE DEF new
<1>10. Stored(image', name, content, taken)
  BY <1>7 DEF Changes
<1>11. ASSUME NEW n \in Names \ {name}
       PROVE  /\ Found(image', n) = Found(image, n)
              /\ Held(image', n, files[n], layout[n])
              /\ Range(layout[n]) \cap Range(taken) = {}
  <2>1. Held(image, n, files[n], layout[n])
    BY <1>6 DEF Holds
  <2>2. /\ Found(image', n) = Found(image, n)
        /\ \A t \in Found(image, n) : image'.entries[t] = image.entries[t]
        /\ \A i \in 1 .. Len(layout[n]) : /\ image'.links[layout[n][i]] = image.links[layout[n][i]]
                                          /\ image'.blocks[layout[n][i]] = image.blocks[layout[n][i]]
        /\ Range(layout[n]) \cap Range(taken) = {}
    BY <1>7 DEF Changes
  <2>3. Held(image', n, files[n], layout[n])
    BY <2>1, <2>2, HeldSame
  <2>4. QED
    BY <2>2, <2>3
<1>12. Holds(image', files', new)
  <2>1. \A n \in Names : Held(image', n, files'[n], new[n])
    <3>1. Held(image', name, content, taken)
      BY <1>10 DEF Held
    <3>2. QED
      BY <3>1, <1>8, <1>9, <1>11
  <2>2. \A m, n \in Names : m # n => Range(new[m]) \cap Range(new[n]) = {}
    <3>1. \A m, n \in Names : m # n => Range(layout[m]) \cap Range(layout[n]) = {}
      BY <1>6 DEF Holds
    <3>2. QED
      BY <3>1, <1>9, <1>11
  <2>3. Owned(image', new)
    <3> SUFFICES ASSUME NEW c \in Clusters, image'.links[c] # 0
                 PROVE  \E n \in Names : c \in Range(new[n])
      BY DEF Owned
    <3>1. CASE c \in Range(taken)
      BY <3>1, <1>9
    <3>2. CASE c \notin Range(taken)
      <4>1. c \notin Range(layout[name]) /\ image.links[c] # 0
        BY <3>2, <1>7, Numbers DEF Changes
      <4>2. PICK n \in Names : c \in Range(layout[n])
        BY <4>1, <1>6 DEF Holds, Owned
      <4>3. QED
        BY <4>1, <4>2, <1>9
    <3>3. QED
      BY <3>1, <3>2
  <2>4. QED
    BY <2>1, <2>2, <2>3 DEF Holds
<1>13. \A n \in Names \ touched' : saved'[n] = files'[n] /\ Held(disk', n, files'[n], new[n])
  BY <1>2, <1>6, <1>8, <1>9
<1>14. Consistent(new)'
  BY <1>12, <1>13 DEF Consistent
<1>15. Agree(image', disk', Stale')
  <2>1. Stale = sector_flags /\ Stale' = sector_flags'
    BY <1>2, <1>4 DEF Stale, NoWriter
  <2>2. \A c \in Links : FatSector(c) \notin sector_flags' => disk.links[c] = image'.links[c]
    <3> SUFFICES ASSUME NEW c \in Links, FatSector(c) \notin sector_flags'
                 PROVE  disk.links[c] = image'.links[c]
      OBVIOUS
    <3>1. c \notin Range(layout[name]) \cup Range(taken) /\ FatSector(c) \notin sector_flags
      BY <1>7
    <3>2. image'.links[c] = image.links[c]
      BY <3>1, <1>7 DEF Changes
    <3>3. QED
      BY <3>1, <3>2, <2>1, <1>4 DEF Agree
  <2>3. \A c \in Clusters : ClusterSector(c) \notin sector_flags' => disk.blocks[c] = image'.blocks[c]
    <3> SUFFICES ASSUME NEW c \in Clusters, ClusterSector(c) \notin sector_flags'
                 PROVE  disk.blocks[c] = image'.blocks[c]
      OBVIOUS
    <3>1. c \notin Range(taken) /\ ClusterSector(c) \notin sector_flags
      BY <1>7
    <3>2. c \in Links
      BY Numbers
    <3>3. image'.blocks[c] = image.blocks[c]
      BY <3>1, <3>2, <1>7 DEF Changes
    <3>4. QED
      BY <3>1, <3>3, <2>1, <1>4 DEF Agree
  <2>4. DirectorySector \in sector_flags'
    BY <1>7
  <2>5. QED
    BY <2>1, <2>2, <2>3, <2>4, <1>2 DEF Agree
<1>16. Typed'
  <2>1. sector_flags' \subseteq Sectors
    <3>1. Range(layout[name]) \subseteq Clusters
      <4>1. Held(image, name, files[name], layout[name])
        BY <1>6 DEF Holds
      <4>2. QED
        BY <4>1, HeldLinked
    <3>2. Range(taken) \subseteq Clusters
      <4>1. Held(image', name, content, taken)
        BY <1>10 DEF Held
      <4>2. QED
        BY <4>1, HeldLinked
    <3>3. sector_flags \subseteq Sectors
      BY <1>4 DEF Typed
    <3>4. QED
      BY <3>1, <3>2, <3>3, <1>7, Numbers, SectorsTyped
  <2>2. Image(image')
    BY <1>7 DEF Changes
  <2>3. QED
    BY <2>1, <2>2, <1>2, <1>4, <1>8 DEF Typed
<1>17. WriterOK'
  BY <1>2, <1>4 DEF WriterOK, Writing, NoWriter
<1>18. \E l : Holds(disk', saved', l)
  BY <1>2, <1>4
<1>19. \E l : Consistent(l)'
  BY <1>14
<1>20. QED
  BY <1>15, <1>16, <1>17, <1>18, <1>19 DEF FileInv
-----------------------------------------------------------------------------
(* The writer starts at sector 0, which no flag is below.                 *)
LEMMA BeginWriteKeeps ==
  ASSUME FileInv, BeginWrite
  PROVE  FileInv'
<1>1. /\ Typed /\ writer = NoWriter /\ Agree(image, disk, Stale)
      /\ \E layout : Consistent(layout)
  BY DEF FileInv, WriterOK, BeginWrite
<1>2. /\ writer' = [sector |-> 0, copied |-> FALSE]
      /\ UNCHANGED <<image, sector_flags, disk, stuck, history>>
  BY <1>1 DEF BeginWrite, NoWriter
<1>3. Writing' /\ WriterOK'
  <2>1. Writing'
    BY <1>2, FileSystemAssumption DEF Writing
  <2>2. 0 \in Sectors
    <3>1. number_of_clusters + 1 \in Clusters
      BY Numbers DEF Clusters
    <3>2. ClusterSector(number_of_clusters + 1) \in Nat
      BY <3>1, SectorsTyped
    <3>3. QED
      BY <3>2 DEF Sectors
  <2>3. sector_flags \subseteq Nat
    BY <1>1, SectorsTyped DEF Typed
  <2>4. \A s \in sector_flags' : 0 <= s
    BY <2>3, <1>2
  <2>5. QED
    BY <2>1, <2>2, <2>4, <1>2 DEF WriterOK
<1>4. Agree(image', disk', Stale')
  BY <1>1, <1>2 DEF Stale, NoWriter
<1>5. Typed' /\ \E layout : Consistent(layout)'
  BY <1>1, <1>2 DEF Typed, Consistent, history
<1>6. QED
  BY <1>3, <1>4, <1>5 DEF FileInv

(* A sector taken from one image to another in which the file is the same  *)
(* does no harm to it.                                                     *)
LEMMA HeldCopied ==
  ASSUME 0 \notin Lengths, NEW im, NEW dk, NEW n, NEW content, NEW g,
         Held(im, n, content, g), Held(dk, n, content, g), NEW s
  PROVE  Held(CopySector(im, dk, s), n, content, g)
<1> DEFINE to == CopySector(im, dk, s)
<1>1. /\ to.entries = im.entries \/ to.entries = dk.entries
      /\ \A c \in Links : to.links[c] = im.links[c] \/ to.links[c] = dk.links[c]
      /\ \A c \in Links : to.blocks[c] = im.blocks[c] \/ to.blocks[c] = dk.blocks[c]
  BY DEF CopySector
<1> HIDE DEF to
<1>2. Found(to, n) = Found(im, n) \/ Found(to, n) = Found(dk, n)
  BY <1>1 DEF Found
<1>3. CASE Stored(im, n, content, g)
  <2>1. Len(g) \in Nat \ {0} /\ g \in Seq(Clusters)
    <3>1. Len(g) \in Nat \ {0}
      BY <1>3, ReadStart
    <3>2. g \in Seq(Clusters)
      BY <1>3 DEF Stored
    <3>3. QED
      BY <3>1, <3>2
  <2>2. Stored(dk, n, content, g)
    <3>1. g # <<>>
      BY <2>1
    <3>2. QED
      BY <3>1 DEF Held
  <2>3. \A i \in 1 .. Len(g) :
          /\ to.links[g[i]] = IF i = Len(g) THEN no_more_clusters ELSE g[i + 1]
          /\ to.blocks[g[i]] = Block(content, i)
    <3> SUFFICES ASSUME NEW i \in 1 .. Len(g)
                 PROVE  /\ to.links[g[i]] = IF i = Len(g) THEN no_more_clusters ELSE g[i + 1]
                        /\ to.blocks[g[i]] = Block(content, i)
      OBVIOUS
    <3>1. g[i] \in Links
      <4>1. g[i] \in Clusters
        BY <2>1
      <4>2. QED
        BY <4>1, Numbers
    <3>2. /\ im.links[g[i]] = IF i = Len(g) THEN no_more_clusters ELSE g[i + 1]
          /\ im.blocks[g[i]] = Block(content, i)
      BY <1>3 DEF Stored
    <3>3. /\ dk.links[g[i]] = IF i = Len(g) THEN no_more_clusters ELSE g[i + 1]
          /\ dk.blocks[g[i]] = Block(content, i)
      BY <2>2 DEF Stored
    <3>4. to.links[g[i]] = im.links[g[i]] \/ to.links[g[i]] = dk.links[g[i]]
      BY <3>1, <1>1
    <3>5. to.blocks[g[i]] = im.blocks[g[i]] \/ to.blocks[g[i]] = dk.blocks[g[i]]
      BY <3>1, <1>1
    <3>6. QED
      BY <3>2, <3>3, <3>4, <3>5
  <2>4. \E x \in Slots : /\ Found(to, n) = {x}
                         /\ to.entries[x].cluster_number = g[1]
                         /\ to.entries[x].size = Len(content)
    <3>1. CASE to.entries = im.entries
      <4>1. Found(to, n) = Found(im, n)
        BY <3>1 DEF Found
      <4>2. QED
        BY <4>1, <3>1, <1>3 DEF Stored
    <3>2. CASE to.entries = dk.entries
      <4>1. Found(to, n) = Found(dk, n)
        BY <3>2 DEF Found
      <4>2. QED
        BY <4>1, <3>2, <2>2 DEF Stored
    <3>3. QED
      BY <3>1, <3>2, <1>1
  <2>5. Stored(to, n, content, g)
    BY <2>3, <2>4, <1>3 DEF Stored
  <2>6. QED
    BY <2>5 DEF Held, to
<1>4. CASE Found(im, n) = {} /\ content = NULL /\ g = <<>>
  <2>1. ~Stored(dk, n, content, g)
    <3>1. ASSUME Stored(dk, n, content, g) PROVE FALSE
      <4>1. Len(g) \in Nat \ {0}
        BY <3>1, ReadStart
      <4>2. QED
        BY <4>1, <1>4
    <3>2. QED
      BY <3>1
  <2> HIDE DEF Found
  <2>2. Found(dk, n) = {}
    BY <2>1 DEF Held
  <2>3. QED
    BY <2>2, <1>2, <1>4 DEF Held, to
<1>5. QED
  BY <1>3, <1>4 DEF Held

(* The sector copied agrees from now on; a file that is the same in the   *)
(* image and on the disk stays so on the disk.                            *)
LEMMA WriteClusterKeeps ==
  ASSUME 0 \notin Lengths, FileInv, write_cluster
  PROVE  FileInv'
<1>1. /\ Writing /\ ~writer.copied
      /\ UNCHANGED <<image, sector_flags, stuck, history>>
  BY DEF write_cluster
<1>2. PICK s \in sector_flags : /\ NextFlagged(s)
                                /\ disk' = CopySector(image, disk, s)
                                /\ writer' = [sector |-> s, copied |-> TRUE]
  BY DEF write_cluster
<1>3. Typed /\ Agree(image, disk, sector_flags) /\ \A r \in sector_flags : writer.sector <= r
  BY <1>1 DEF FileInv, Stale, WriterOK
<1>4. s \in Sectors /\ s \in Nat
  BY <1>3, SectorsTyped DEF Typed
<1>5. Writing' /\ WriterOK'
  <2>1. Writing'
    BY <1>2, <1>4, FileSystemAssumption DEF Writing
  <2>2. \A r \in sector_flags : s <= r
    BY <1>2, <1>3 DEF NextFlagged
  <2>3. QED
    BY <2>1, <2>2, <1>1, <1>2, <1>4 DEF WriterOK
<1>6. /\ \A c \in Links : disk'.links[c] = IF FatSector(c) = s THEN image.links[c] ELSE disk.links[c]
      /\ disk'.entries = IF s = DirectorySector THEN image.entries ELSE disk.entries
      /\ \A c \in Links : disk'.blocks[c] = IF c \in Clusters /\ ClusterSector(c) = s
                                            THEN image.blocks[c] ELSE disk.blocks[c]
      /\ DOMAIN disk'.links = Links /\ DOMAIN disk'.blocks = Links
      /\ disk'.links = [c \in Links |-> disk'.links[c]]
      /\ DOMAIN disk' = {"links", "entries", "blocks"}
  BY <1>2 DEF CopySector
<1>7. Agree(image', disk', Stale')
  <2>1. Stale' = sector_flags \ {s}
    BY <1>1, <1>2 DEF Stale
  <2>2. \A c \in Clusters : c \in Links
    BY Numbers
  <2>3. QED
    BY <2>1, <2>2, <1>1, <1>3, <1>6 DEF Agree
<1>8. Image(disk')
  <2>1. Image(image) /\ Image(disk)
    BY <1>3 DEF Typed
  <2>2. disk'.links \in [Links -> Links \cup {MediaLink, no_more_clusters}]
    <3> SUFFICES ASSUME NEW c \in Links
                 PROVE  disk'.links[c] \in Links \cup {MediaLink, no_more_clusters}
      BY <1>6
    <3>1. QED
      BY <2>1, <1>6 DEF Image, ImageOK
  <2>3. disk'.entries \in [Slots -> [name : Names \cup {NULL}, cluster_number : Links, size : Nat]]
    BY <2>1, <1>6 DEF Image, ImageOK
  <2>4. QED
    BY <2>2, <2>3, <1>6 DEF Image, ImageOK
<1>9. PICK layout : Consistent(layout)
  BY DEF FileInv
<1>10. Consistent(layout)'
  <2>1. ASSUME NEW n \in Names \ touched
        PROVE  Held(disk', n, files[n], layout[n])
    <3>1. Held(image, n, files[n], layout[n]) /\ Held(disk, n, files[n], layout[n])
      BY <1>9 DEF Consistent, Holds
    <3>2. QED
      BY <3>1, <1>2, HeldCopied
  <2>2. QED
    BY <2>1, <1>1, <1>9 DEF Consistent, history
<1>11. Typed'
  BY <1>1, <1>3, <1>8 DEF Typed, history
<1>12. QED
  BY <1>5, <1>7, <1>10, <1>11 DEF FileInv

(* The flag of a sector that was copied goes, and the writer passes it.   *)
LEMMA ClearFlagKeeps ==
  ASSUME FileInv, ClearFlag
  PROVE  FileInv'
<1> DEFINE s == writer.sector
<1>1. /\ Writing /\ writer.copied
      /\ sector_flags' = sector_flags \ {s}
      /\ writer' = [sector |-> s + 1, copied |-> FALSE]
      /\ UNCHANGED <<image, disk, stuck, history>>
  BY DEF ClearFlag
<1>2. Typed /\ Agree(image, disk, sector_flags \ {s}) /\ s \in sector_flags /\ \A r \in sector_flags : s <= r
  BY <1>1 DEF FileInv, Stale, WriterOK
<1> HIDE DEF s
<1>3. /\ sector_flags \subseteq Sectors /\ Sectors \subseteq Nat
      /\ ClusterSector(number_of_clusters + 1) \in Nat
      /\ s \in Sectors /\ s <= ClusterSector(number_of_clusters + 1)
  <2>1. number_of_clusters + 1 \in Clusters
    BY Numbers DEF Clusters
  <2>2. ClusterSector(number_of_clusters + 1) \in Nat
    BY <2>1, SectorsTyped
  <2>3. sector_flags \subseteq Sectors /\ Sectors \subseteq Nat
    BY <1>2, SectorsTyped DEF Typed
  <2>4. QED
    BY <2>2, <2>3, <1>2 DEF Sectors
<1>4. s + 1 \in Sectors \cup {ClusterSector(number_of_clusters + 1) + 1}
  BY <1>3 DEF Sectors
<1>5. Writing' /\ WriterOK'
  <2>1. s + 1 \in Nat
    BY <1>3
  <2>2. Writing'
    BY <2>1, <1>1, FileSystemAssumption DEF Writing
  <2>3. \A r \in sector_flags' : s + 1 <= r
    <3> SUFFICES ASSUME NEW r \in sector_flags' PROVE s + 1 <= r
      OBVIOUS
    <3>1. r \in Nat /\ s \in Nat /\ s <= r /\ r # s
      BY <1>1, <1>2, <1>3
    <3>2. QED
      BY <3>1
  <2>4. QED
    BY <2>2, <2>3, <1>1, <1>4 DEF WriterOK
<1>6. Agree(image', disk', Stale')
  BY <1>1, <1>2 DEF Stale
<1>7. Typed'
  BY <1>1, <1>2 DEF Typed, history
<1>8. \E layout : Consistent(layout)'
  BY <1>1 DEF FileInv, Consistent, history
<1>9. QED
  BY <1>5, <1>6, <1>7, <1>8 DEF FileInv

(* A disk that agrees with the image on every sector holds its files.      *)
LEMMA AgreeHolds ==
  ASSUME NEW im, NEW dk, Image(im), Image(dk), Agree(im, dk, {}), NEW fs, NEW layout, Holds(im, fs, layout)
  PROVE  Holds(dk, fs, layout)
<1>1. dk.entries = im.entries /\ \A c \in Clusters : dk.links[c] = im.links[c] /\ dk.blocks[c] = im.blocks[c]
  BY Numbers DEF Agree
<1>2. ASSUME NEW n \in Names
      PROVE  Held(dk, n, fs[n], layout[n])
  <2>1. Held(im, n, fs[n], layout[n])
    BY DEF Holds
  <2>2. Found(dk, n) = Found(im, n)
    BY <1>1 DEF Found
  <2>3. \A i \in 1 .. Len(layout[n]) : layout[n][i] \in Clusters
    BY <2>1, HeldLinked
  <2>4. \A i \in 1 .. Len(layout[n]) : /\ dk.links[layout[n][i]] = im.links[layout[n][i]]
                                       /\ dk.blocks[layout[n][i]] = im.blocks[layout[n][i]]
    BY <2>3, <1>1
  <2>5. \A s \in Found(im, n) : dk.entries[s] = im.entries[s]
    BY <1>1
  <2>6. QED
    BY <2>1, <2>2, <2>4, <2>5, HeldSame
<1>3. Owned(dk, layout)
  BY <1>1 DEF Holds, Owned
<1>4. QED
  BY <1>2, <1>3 DEF Holds

(* With no flag left the disk is the image, and holds every file.         *)
LEMMA EndWriteKeeps ==
  ASSUME FileInv, EndWrite
  PROVE  FileInv'
<1>1. /\ Writing /\ ~writer.copied /\ \A s \in sector_flags : s < writer.sector
      /\ writer' = NoWriter /\ saved' = files /\ touched' = {}
      /\ UNCHANGED <<image, sector_flags, disk, stuck, saves, files>>
  BY DEF EndWrite
<1>2. Typed /\ Agree(image, disk, sector_flags) /\ \A s \in sector_flags : writer.sector <= s
  BY <1>1 DEF FileInv, Stale, WriterOK
<1>3. sector_flags = {}
  <2> SUFFICES ASSUME NEW s \in sector_flags PROVE FALSE
    OBVIOUS
  <2>1. s \in Nat /\ writer.sector \in Nat
    <3>1. number_of_clusters + 1 \in Clusters
      BY Numbers DEF Clusters
    <3>2. ClusterSector(number_of_clusters + 1) \in Nat
      BY <3>1, SectorsTyped
    <3>3. Sectors \subseteq Nat /\ s \in Sectors
      BY <1>2, SectorsTyped DEF Typed
    <3>4. writer.sector \in Sectors \cup {ClusterSector(number_of_clusters + 1) + 1}
      BY <1>1 DEF FileInv, WriterOK
    <3>5. ClusterSector(number_of_clusters + 1) + 1 \in Nat
      BY <3>2
    <3>6. QED
      BY <3>3, <3>4, <3>5, Zenon
  <2>2. s < writer.sector /\ writer.sector <= s
    BY <1>1, <1>2
  <2>3. QED
    BY <2>1, <2>2
<1>4. PICK layout : Consistent(layout)
  BY DEF FileInv
<1>5. Holds(disk, files, layout)
  BY <1>2, <1>3, <1>4, AgreeHolds DEF Typed, Consistent
<1>6. Consistent(layout)'
  BY <1>1, <1>4, <1>5 DEF Consistent, Holds
<1>7. Typed'
  BY <1>1, <1>2 DEF Typed
<1>8. WriterOK' /\ Agree(image', disk', Stale')
  BY <1>1, <1>2 DEF WriterOK, Writing, NoWriter, Stale
<1>9. \E m : Holds(disk', saved', m)
  BY <1>1, <1>5
<1>10. QED
  BY <1>6, <1>7, <1>8, <1>9 DEF FileInv

(* After a restart the image is the disk.                                 *)
LEMMA RestartKeeps ==
  ASSUME FileInv, Restart
  PROVE  FileInv'
<1>1. /\ image' = disk /\ sector_flags' = {}
      /\ files' = saved /\ touched' = {}
      /\ UNCHANGED <<disk, writer, stuck, saves, saved>>
  BY DEF Restart
<1>2. Typed /\ writer = NoWriter /\ \E layout : Holds(disk, saved, layout)
  BY DEF FileInv, WriterOK, Restart
<1>3. PICK layout : Holds(disk, saved, layout)
  BY <1>2
<1>4. Consistent(layout)'
  BY <1>1, <1>3 DEF Consistent, Holds
<1>5. Typed'
  BY <1>1, <1>2 DEF Typed
<1>6. WriterOK' /\ Agree(image', disk', Stale')
  BY <1>1, <1>2 DEF WriterOK, Writing, NoWriter, Agree
<1>7. QED
  BY <1>1, <1>2, <1>4, <1>5, <1>6 DEF FileInv

(* An empty disk holds no file.                                           *)
LEMMA InitFiles == Init => FileInv
<1> SUFFICES ASSUME Init PROVE FileInv
  OBVIOUS
<1> DEFINE layout == [n \in Names |-> <<>>]
           none == [n \in Names |-> NULL]
<1>1. Image(EmptyImage)
  <2>1. EmptyImage.links \in [Links -> Links \cup {MediaLink, no_more_clusters}]
    BY Numbers DEF EmptyImage, Links
  <2>2. EmptyImage.entries \in [Slots -> [name : Names \cup {NULL}, cluster_number : Links, size : Nat]]
    BY Numbers DEF EmptyImage, NoFile, Links
  <2>3. QED
    BY <2>1, <2>2 DEF EmptyImage, Image, ImageOK
<1>2. \A n \in Names : Found(EmptyImage, n) = {}
  BY FileSystemAssumption DEF Found, EmptyImage, NoFile
<1>3. /\ image = EmptyImage /\ disk = EmptyImage /\ sector_flags = {} /\ writer = NoWriter
      /\ saves = 0
      /\ files = none /\ saved = none /\ touched = {}
  BY DEF Init
<1>4. Holds(image, files, layout) /\ Holds(disk, saved, layout)
  <2>1. \A n \in Names : files[n] = NULL /\ saved[n] = NULL /\ layout[n] = <<>>
    BY <1>3
  <2>2. Range(<<>>) = {}
    BY DEF Range
  <2>3. Owned(EmptyImage, layout)
    BY Numbers DEF Owned, EmptyImage, Clusters
  <2> HIDE DEF layout, none, EmptyImage
  <2>4. \A n \in Names : Held(image, n, files[n], layout[n]) /\ Held(disk, n, saved[n], layout[n])
    BY <2>1, <1>2, <1>3 DEF Held
  <2>5. QED
    BY <2>1, <2>2, <2>3, <2>4, <1>3 DEF Holds
<1>5. Typed
  <2>1. Image(image) /\ Image(disk)
    BY <1>1, <1>3
  <2>2. DOMAIN files = Names /\ DOMAIN saved = Names
    BY <1>3
  <2>3. QED
    BY <2>1, <2>2, <1>3 DEF Typed
<1>6. WriterOK /\ Agree(image, disk, Stale)
  BY <1>3 DEF WriterOK, Writing, NoWriter, Agree
<1> HIDE DEF layout, none, EmptyImage
<1>7. \A n \in Names : saved[n] = files[n]
  BY <1>3
<1>8. Consistent(layout)
  BY <1>3, <1>4, <1>7 DEF Consistent, Holds
<1>9. QED
  BY <1>4, <1>5, <1>6, <1>8 DEF FileInv

(* Nothing but the flag of the case without an answer changes.             *)
LEMMA StuckKeeps ==
  ASSUME FileInv, UNCHANGED <<image, sector_flags, disk, writer, history>>
  PROVE  FileInv'
<1>1. /\ image' = image /\ sector_flags' = sector_flags /\ disk' = disk /\ writer' = writer
      /\ saves' = saves /\ files' = files /\ saved' = saved /\ touched' = touched
  BY DEF history
<1>2. Typed' /\ WriterOK' /\ Agree(image', disk', Stale')
  BY <1>1 DEF FileInv, Typed, WriterOK, Writing, Stale
<1>3. \E layout : Consistent(layout)'
  BY <1>1 DEF FileInv, Consistent
<1>4. ~Writing' => \E layout : Holds(disk', saved', layout)
  BY <1>1 DEF FileInv, Writing
<1>5. QED
  BY <1>2, <1>3, <1>4 DEF FileInv

-----------------------------------------------------------------------------
(* What every step does to the invariant, one lemma to an action.          *)
LEMMA NextKeeps ==
  ASSUME 0 \notin Lengths, FileInv, [Next]_vars
  PROVE  FileInv'
<1>1. CASE Next
  <2>1. CASE Save
    <3>1. PICK name \in Names, length \in Lengths :
            \/ save_file(name, Units(saves + 1, length))
            \/ SaveGetsStuck(name, Units(saves + 1, length))
      BY <2>1 DEF Save
    <3>2. CASE save_file(name, Units(saves + 1, length))
      BY <2>1, <3>2, SaveKeeps DEF Save
    <3>3. CASE SaveGetsStuck(name, Units(saves + 1, length))
      <4>1. UNCHANGED <<image, sector_flags, disk, writer, history>>
        BY <3>3 DEF SaveGetsStuck
      <4>2. QED
        BY <4>1, StuckKeeps
    <3>4. QED
      BY <3>1, <3>2, <3>3
  <2>2. CASE WriteEntireDisk
    BY <2>2, BeginWriteKeeps, WriteClusterKeeps, ClearFlagKeeps, EndWriteKeeps DEF WriteEntireDisk
  <2>3. CASE Restart
    BY <2>3, RestartKeeps
  <2>4. QED
    BY <1>1, <2>1, <2>2, <2>3 DEF Next
<1>2. CASE UNCHANGED vars
  <2>1. UNCHANGED <<image, sector_flags, disk, writer, history>>
    BY <1>2 DEF vars, history
  <2>2. QED
    BY <2>1, StuckKeeps
<1>3. QED
  BY <1>1, <1>2

(* The image and the disk hold the files of the tables at all times: the   *)
(* invariant the others follow from.                                       *)
THEOREM FilesInvariant ==
  ASSUME 0 \notin Lengths
  PROVE  Spec => []FileInv
<1>1. Init => FileInv
  BY InitFiles
<1>2. FileInv /\ [Next]_vars => FileInv'
  BY NextKeeps
<1>3. QED
  BY <1>1, <1>2, PTL DEF Spec

-----------------------------------------------------------------------------
(* What the invariant says of the properties of the runs.                  *)

LEMMA FileInvTypes ==
  ASSUME FileInv
  PROVE  TypeOK
<1>1. Typed /\ WriterOK
  BY DEF FileInv
<1>2. ImageOK(image) /\ ImageOK(disk) /\ sector_flags \subseteq Sectors
  BY <1>1 DEF Typed, Image
<1>3. writer.sector \in Sectors \cup {NULL, ClusterSector(number_of_clusters + 1) + 1}
  <2>1. CASE Writing
    BY <1>1, <2>1 DEF WriterOK
  <2>2. CASE ~Writing
    BY <2>2 DEF Writing
  <2>3. QED
    BY <2>1, <2>2
<1>4. QED
  BY <1>2, <1>3 DEF TypeOK

(* A file that is held is read as it was saved.                            *)
LEMMA HeldRead ==
  ASSUME 0 \notin Lengths, NEW im, NEW n, NEW content, NEW g, Held(im, n, content, g)
  PROVE  Content(im, n) = content
<1>1. CASE Stored(im, n, content, g)
  BY <1>1, StoredRead
<1>2. CASE Found(im, n) = {} /\ content = NULL
  BY <1>2 DEF Content
<1>3. QED
  BY <1>1, <1>2 DEF Held

(* The chain of a file that is held is its place in the layout.            *)
LEMMA HeldChain ==
  ASSUME 0 \notin Lengths, NEW im, NEW n, NEW content, NEW g, Held(im, n, content, g)
  PROVE  Chain(im, n) = Range(g)
<1>1. CASE Stored(im, n, content, g)
  <2>1. PICK s \in Slots : Found(im, n) = {s} /\ im.entries[s].cluster_number = g[1]
    BY <1>1 DEF Stored
  <2>2. get_file_information(im, n) = s
    BY <2>1, InformationFound
  <2>3. Found(im, n) # {}
    BY <2>1
  <2>4. Chain(im, n) = Reached(im.links, g[1])
    BY <2>1, <2>2, <2>3 DEF Chain
  <2>5. QED
    BY <2>4, <1>1, StoredReached
<1>2. CASE Found(im, n) = {} /\ g = <<>>
  BY <1>2 DEF Chain, Range
<1>3. QED
  BY <1>1, <1>2 DEF Held

(* A file in the table of the image is read as it was saved.              *)
LEMMA FileInvIntact ==
  ASSUME 0 \notin Lengths, FileInv
  PROVE  FilesIntact
<1>1. PICK layout : Consistent(layout)
  BY DEF FileInv
<1>2. ASSUME NEW n \in Names
      PROVE  Content(image, n) = files[n]
  <2>1. Held(image, n, files[n], layout[n])
    BY <1>1 DEF Consistent, Holds
  <2>2. QED
    BY <2>1, HeldRead
<1>3. QED
  BY <1>2 DEF FilesIntact

(* The chains are those of a layout without overlaps.                     *)
LEMMA FileInvDisjoint ==
  ASSUME 0 \notin Lengths, FileInv
  PROVE  ChainsDisjoint
<1>1. PICK layout : Consistent(layout)
  BY DEF FileInv
<1>2. ASSUME NEW n \in Names
      PROVE  Chain(image, n) = Range(layout[n])
  <2>1. Held(image, n, files[n], layout[n])
    BY <1>1 DEF Consistent, Holds
  <2>2. QED
    BY <2>1, HeldChain
<1>3. \A m, n \in Names : m # n => Range(layout[m]) \cap Range(layout[n]) = {}
  BY <1>1 DEF Consistent, Holds
<1>4. QED
  BY <1>2, <1>3 DEF ChainsDisjoint

(* The layout has exactly the marked clusters.                             *)
LEMMA FileInvOwned ==
  ASSUME 0 \notin Lengths, FileInv
  PROVE  NoClusterLost
<1>1. PICK layout : Consistent(layout)
  BY DEF FileInv
<1>2. ASSUME NEW n \in Names
      PROVE  Chain(image, n) = Range(layout[n]) /\ \A c \in Range(layout[n]) : c \in Clusters /\ image.links[c] # 0
  <2>1. Held(image, n, files[n], layout[n])
    BY <1>1 DEF Consistent, Holds
  <2>2. Chain(image, n) = Range(layout[n])
    BY <2>1, HeldChain
  <2>3. /\ \A i \in 1 .. Len(layout[n]) : layout[n][i] \in Clusters /\ image.links[layout[n][i]] # 0
        /\ Range(layout[n]) = {layout[n][i] : i \in 1 .. Len(layout[n])}
    BY <2>1, HeldLinked
  <2>4. QED
    BY <2>2, <2>3
<1>3. \A c \in Clusters : image.links[c] # 0 => \E n \in Names : c \in Range(layout[n])
  BY <1>1 DEF Consistent, Holds, Owned
<1>4. QED
  BY <1>2, <1>3 DEF NoClusterLost

(* What was not saved since is on the disk.                               *)
LEMMA FileInvSurvive ==
  ASSUME 0 \notin Lengths, FileInv
  PROVE  UntouchedSurvive
<1>1. PICK layout : Consistent(layout)
  BY DEF FileInv
<1>2. ASSUME NEW n \in Names \ touched
      PROVE  Content(disk, n) = saved[n]
  <2>1. saved[n] = files[n] /\ Held(disk, n, files[n], layout[n])
    BY <1>1 DEF Consistent
  <2>2. Content(disk, n) = files[n]
    BY <2>1, HeldRead
  <2>3. QED
    BY <2>1, <2>2
<1>3. QED
  BY <1>2 DEF UntouchedSurvive

(* Every link of the file allocation table stays the number of a cluster,  *)
(* or the end of a chain.                                                  *)
THEOREM FileTypes ==
  ASSUME 0 \notin Lengths
  PROVE  Spec => []TypeOK
<1>1. FileInv => TypeOK
  BY FileInvTypes
<1>2. QED
  BY <1>1, FilesInvariant, PTL

(* Whatever is saved, in whatever order, over whatever was there, every    *)
(* file is read back as it was last saved.                                 *)
THEOREM FilesStayIntact ==
  ASSUME 0 \notin Lengths
  PROVE  Spec => []FilesIntact
<1>1. FileInv => FilesIntact
  BY FileInvIntact
<1>2. QED
  BY <1>1, FilesInvariant, PTL

(* save_file() never gives a cluster of one file to another.               *)
THEOREM ChainsStayDisjoint ==
  ASSUME 0 \notin Lengths
  PROVE  Spec => []ChainsDisjoint
<1>1. FileInv => ChainsDisjoint
  BY FileInvDisjoint
<1>2. QED
  BY <1>1, FilesInvariant, PTL

(* A save gives back every cluster of the file it replaces.               *)
THEOREM NoClusterIsLost ==
  ASSUME 0 \notin Lengths
  PROVE  Spec => []NoClusterLost
<1>1. FileInv => NoClusterLost
  BY FileInvOwned
<1>2. QED
  BY <1>1, FilesInvariant, PTL

(* The disk has, at every moment and thus in the middle of                 *)
(* write_entire_disk() too, each file that was not saved since the last    *)
(* complete call as that call left it.                                     *)
THEOREM UntouchedOutlivesPowerCut ==
  ASSUME 0 \notin Lengths
  PROVE  Spec => []UntouchedSurvive
<1>1. FileInv => UntouchedSurvive
  BY FileInvSurvive
<1>2. QED
  BY <1>1, FilesInvariant, PTL
=============================================================================
