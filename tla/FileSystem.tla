----------------------------- MODULE FileSystem -----------------------------
(***************************************************************************)
(* The FAT12 file system of disk.c.  The boot loader reads the whole disk  *)
(* to memory; files are loaded from and saved to that image, and           *)
(* write_entire_disk() carries the sectors that save_file() flagged back   *)
(* to the disk.  save_file() prohibits the switching of tasks and is one   *)
(* step.  write_entire_disk(), called by system_call() with switching      *)
(* prohibited, goes sector by sector, so that the power may be cut in its  *)
(* middle, but no other task runs.  load_file() changes nothing, and no    *)
(* save comes between its steps: consoles call it from distribute_event()  *)
(* and applications from system_call(), both with switching prohibited,    *)
(* the serial shell in the main task, whose priority is above that of all  *)
(* others.  It is the operator Content.  The second file allocation table  *)
(* is written beside the first and never read: it is left out.             *)
(***************************************************************************)
EXTENDS Naturals, FiniteSets, Sequences, SequencesExt

CONSTANTS Names,             \* the file names, as create_file_name() prints them
          Lengths,           \* the lengths of the files that are saved
          number_of_clusters,
          cluster_size,
          number_of_root_directory_entries,
          LinksPerSector,    \* entries of the file allocation table in a sector
          MaxSaves,          \* bound: calls of save_file()
          NULL

no_more_clusters == 4095
MediaLink == 4080            \* the link of cluster 0, that no file uses

ASSUME FileSystemAssumption ==
  /\ Lengths \subseteq Nat /\ MaxSaves \in Nat
  /\ {number_of_clusters, cluster_size, LinksPerSector,
      number_of_root_directory_entries} \subseteq Nat \ {0}
  /\ number_of_clusters + 1 < MediaLink
  /\ NULL \notin Names /\ NULL \notin Nat

Clusters == 2 .. number_of_clusters + 1
Links == 0 .. number_of_clusters + 1
Slots == 1 .. number_of_root_directory_entries

----------------------------------------------------------------------------
\* The image: the sectors of the links, then those of the root directory
\* (one here), then those of the clusters.

FatSector(c) == c \div LinksPerSector
DirectorySector == FatSector(number_of_clusters + 1) + 1
ClusterSector(c) == DirectorySector + c - 1
Sectors == 0 .. ClusterSector(number_of_clusters + 1)

\* The contents of all saves differ: the v-th save writes <<v, 1>>, <<v, 2>>,
\* ...  What memcpy() takes from behind the end of a content, and what lies
\* below the first cluster, is GARBAGE.
GARBAGE == <<>>
Units(v, length) == [i \in 1 .. length |-> <<v, i>>]
Block(content, k) ==
  [i \in 1 .. cluster_size |->
     LET position == (k - 1) * cluster_size + i
     IN IF position <= Len(content) THEN content[position] ELSE GARBAGE]
GarbageBlock == [i \in 1 .. cluster_size |-> GARBAGE]

NoFile == [name |-> NULL, cluster_number |-> 0, size |-> 0]

EmptyImage ==
  [links |-> [c \in Links |-> CASE c = 0 -> MediaLink
                                [] c = 1 -> no_more_clusters
                                [] OTHER -> 0],
   entries |-> [s \in Slots |-> NoFile],
   blocks |-> [c \in Links |-> GarbageBlock]]

VARIABLES image,        \* the disk image in memory
          sector_flags, \* the sectors with SECTOR_FLAG_CHANGED
          disk,         \* the floppy disk
          writer,       \* the task in write_entire_disk(): its sector and step
          stuck,        \* save_file() met a case it has no answer to
          saves,        \* how many there were
          files, saved, touched  \* history, see below

vars == <<image, sector_flags, disk, writer, stuck,
          saves, files, saved, touched>>
history == <<saves, files, saved, touched>>

\* files: what each name was last saved as.  saved: the same at the end of the
\* last write_entire_disk().  touched: the names that were saved since.
\* Writing: a task is in write_entire_disk().

Writing == writer.sector # NULL

----------------------------------------------------------------------------
\* Reading.

Found(im, name) == {s \in Slots : im.entries[s].name = name}
get_file_information(im, name) ==
  CHOOSE s \in Found(im, name) : \A t \in Found(im, name) : s <= t

\* One iteration of the loop of load_file().
CopyCluster(im, l) ==
  LET copied_size == IF cluster_size <= l.unwritten_size THEN cluster_size ELSE l.unwritten_size
  IN [l EXCEPT !.got = @ \o SubSeq(im.blocks[l.cluster_number], 1, copied_size),
               !.unwritten_size = @ - copied_size,
               !.cluster_number = im.links[@]]

\* The condition of the loop.
Reads(l) == l.cluster_number <= number_of_clusters + 1

\* What load_file() returns.  A chain has at most as many links as there are
\* clusters.
Content(im, name) ==
  IF Found(im, name) = {} THEN NULL
  ELSE LET entry == im.entries[get_file_information(im, name)]
           after[k \in 0 .. number_of_clusters] ==
             IF k = 0 THEN [cluster_number |-> entry.cluster_number,
                            unwritten_size |-> entry.size, got |-> <<>>]
             ELSE LET l == after[k - 1]
                  IN IF Reads(l) THEN CopyCluster(im, l) ELSE l
       IN after[number_of_clusters].got

----------------------------------------------------------------------------
\* Saving.

\* The clusters free_cluster() comes to, and the links that are no clusters.
Reached(links, first) ==
  LET within[k \in 0 .. number_of_clusters] ==
        IF k = 0 THEN {first}
        ELSE LET w == within[k - 1] IN w \cup {links[c] : c \in w \cap Clusters}
  IN within[number_of_clusters] \ {no_more_clusters}

\* Mutant: free_cluster() does not call itself for the next cluster.
FreeFirstCluster(im, first) == [im EXCEPT !.links[first] = 0]

\* free_cluster(): every link of the chain becomes 0.
FreeClusters(im, first) ==
  [im EXCEPT !.links = [c \in Links |-> IF c \in Reached(im.links, first) THEN 0 ELSE @[c]]]

delete_file(im, s) ==
  FreeClusters([im EXCEPT !.entries[s].name = NULL], im.entries[s].cluster_number)
delete_file_flags(im, s) ==
  {DirectorySector} \cup {FatSector(c) : c \in Reached(im.links, im.entries[s].cluster_number)}

Unused(im) == {c \in Clusters : im.links[c] = 0}

\* Mutant: the clusters are marked only after the loop.
TakenUnmarked(im, n) == [k \in 1 .. n |-> CHOOSE c \in Unused(im) : \A d \in Unused(im) : c <= d]

\* The clusters that the calls of get_unused_cluster_number() give, in order:
\* each one is marked before the next call.
Taken(im, n) ==
  LET unused == Unused(im)
  IN [k \in 1 .. n |-> CHOOSE c \in unused : Cardinality({d \in unused : d <= c}) = k]

Necessary(length) == (length + cluster_size - 1) \div cluster_size

Position(taken, c) == CHOOSE k \in DOMAIN taken : taken[k] = c

\* Mutant: the last cluster is not marked.
NewLinksUnended(links, taken) ==
  [c \in Links |-> IF c \in Range(Front(taken)) THEN taken[Position(taken, c) + 1] ELSE links[c]]

\* Mutant: the upper four bits of a link are lost.
NewLinksCut(links, taken) ==
  [c \in Links |-> IF c \notin Range(taken) THEN links[c]
                   ELSE IF c = Last(taken) THEN no_more_clusters % 256
                   ELSE taken[Position(taken, c) + 1]]

\* set_next_cluster_number(): each cluster links to the next one.
NewLinks(links, taken) ==
  [c \in Links |-> IF c \notin Range(taken) THEN links[c]
                   ELSE IF c = Last(taken) THEN no_more_clusters
                   ELSE taken[Position(taken, c) + 1]]

\* save_file() after the deletion: the directory entry, then one cluster after
\* the other.  An empty file has the number of an unused cluster, and the
\* cluster is not marked.
WriteFile(im, s, name, content) ==
  LET taken == Taken(im, Necessary(Len(content)))
  IN [entries |-> [im.entries EXCEPT ![s] =
                     [name |-> name, size |-> Len(content),
                      cluster_number |-> Taken(im, 1)[1]]],
      links |-> NewLinks(im.links, taken),
      blocks |-> [c \in Links |-> IF c \in Range(taken)
                                  THEN Block(content, Position(taken, c))
                                  ELSE im.blocks[c]]]

\* Mutant: the sectors of the clusters get no flag.
write_file_flags_of_links(im, content) ==
  {DirectorySector} \cup {FatSector(c) : c \in Range(Taken(im, Necessary(Len(content))))}

write_file_flags(im, content) ==
  LET taken == Range(Taken(im, Necessary(Len(content))))
  IN {DirectorySector} \cup {FatSector(c) : c \in taken} \cup {ClusterSector(c) : c \in taken}

\* The directory entry save_file() uses, the image and the flags once the
\* file of the same name is deleted.
Overwrites(name) == Found(image, name) # {}
Entry(name) ==
  LET candidates == IF Overwrites(name) THEN Found(image, name) ELSE Found(image, NULL)
  IN CHOOSE s \in candidates : \A t \in candidates : s <= t
Cleared(name) == IF Overwrites(name) THEN delete_file(image, Entry(name)) ELSE image
ClearedFlags(name) == IF Overwrites(name) THEN delete_file_flags(image, Entry(name)) ELSE {}

\* get_unused_file_information() returns NULL and save_file() writes there;
\* free_cluster() comes to cluster 0 by a link that was never set, and calls
\* itself without end; get_unused_cluster_number() has no cluster, returns 0,
\* and the end of the directory is overwritten.
DirectoryFull(name) == ~Overwrites(name) /\ Found(image, NULL) = {}
EndlessFree(name) ==
  /\ Overwrites(name)
  /\ ~(Reached(image.links, image.entries[Entry(name)].cluster_number) \subseteq Clusters)
DiskFull(name, content) ==
  Cardinality(Unused(Cleared(name))) < (IF Len(content) = 0 THEN 1 ELSE Necessary(Len(content)))

GetsStuck(name, content) ==
  DirectoryFull(name) \/ EndlessFree(name) \/ DiskFull(name, content)

save_file(name, content) ==
  /\ ~GetsStuck(name, content)
  /\ image' = WriteFile(Cleared(name), Entry(name), name, content)
  /\ sector_flags' = sector_flags \cup ClearedFlags(name) \cup write_file_flags(Cleared(name), content)
  /\ files' = [files EXCEPT ![name] = content]
  /\ touched' = touched \cup {name}
  /\ saves' = saves + 1
  /\ UNCHANGED <<disk, writer, stuck, saved>>

SaveGetsStuck(name, content) ==
  /\ GetsStuck(name, content)
  /\ stuck' = TRUE
  /\ UNCHANGED <<image, sector_flags, disk, writer, history>>

----------------------------------------------------------------------------
\* write_entire_disk().

NoWriter == [sector |-> NULL, copied |-> FALSE]

BeginWrite ==
  /\ ~Writing
  /\ writer' = [writer EXCEPT !.sector = 0]
  /\ UNCHANGED <<image, sector_flags, disk, stuck, history>>

\* The sectors up to the next one with a flag are passed over.
NextFlagged(s) ==
  /\ s \in sector_flags
  /\ writer.sector <= s
  /\ \A r \in sector_flags : writer.sector <= r => s <= r

\* write_cluster(): the sector is copied, and the BIOS writes it.
CopySector(from, to, s) ==
  [links |-> [c \in Links |-> IF FatSector(c) = s THEN from.links[c] ELSE to.links[c]],
   entries |-> IF s = DirectorySector THEN from.entries ELSE to.entries,
   blocks |-> [c \in Links |->
                 IF c \in Clusters /\ ClusterSector(c) = s THEN from.blocks[c] ELSE to.blocks[c]]]

write_cluster ==
  /\ Writing /\ ~writer.copied
  /\ \E s \in sector_flags :
       /\ NextFlagged(s)
       /\ disk' = CopySector(image, disk, s)
       /\ writer' = [sector |-> s, copied |-> TRUE]
  /\ UNCHANGED <<image, sector_flags, stuck, history>>

ClearFlag ==
  /\ Writing /\ writer.copied
  /\ sector_flags' = sector_flags \ {writer.sector}
  /\ writer' = [sector |-> writer.sector + 1, copied |-> FALSE]
  /\ UNCHANGED <<image, disk, stuck, history>>

EndWrite ==
  /\ Writing /\ ~writer.copied
  /\ \A s \in sector_flags : s < writer.sector
  /\ writer' = NoWriter
  /\ saved' = files
  /\ touched' = {}
  /\ UNCHANGED <<image, sector_flags, disk, stuck, saves, files>>

\* The power is cut and the boot loader reads the disk again.  What the code
\* does with a disk that a call of write_entire_disk() left half written is
\* not modelled; what is on such a disk is.
Restart ==
  /\ ~Writing
  /\ image' = disk
  /\ sector_flags' = {}
  /\ files' = saved
  /\ touched' = {}
  /\ UNCHANGED <<disk, writer, stuck, saves, saved>>

----------------------------------------------------------------------------
Init ==
  /\ image = EmptyImage
  /\ disk = EmptyImage
  /\ sector_flags = {}
  /\ writer = NoWriter
  /\ stuck = FALSE
  /\ saves = 0
  /\ files = [n \in Names |-> NULL]
  /\ saved = [n \in Names |-> NULL]
  /\ touched = {}

Save ==
  /\ saves < MaxSaves
  /\ ~Writing
  /\ \E name \in Names, length \in Lengths :
       LET content == Units(saves + 1, length)
       IN save_file(name, content) \/ SaveGetsStuck(name, content)

WriteEntireDisk == BeginWrite \/ write_cluster \/ ClearFlag \/ EndWrite

Next == ~stuck /\ (Save \/ WriteEntireDisk \/ Restart)

Spec == Init /\ [][Next]_vars

----------------------------------------------------------------------------
\* Properties.

(* Links and entries are well formed: every chain goes from one cluster    *)
(* to another and ends in no_more_clusters.                                *)
ImageOK(im) ==
  /\ im.links \in [Links -> Links \cup {MediaLink, no_more_clusters}]
  /\ im.entries \in [Slots -> [name : Names \cup {NULL}, cluster_number : Links, size : Nat]]
  /\ DOMAIN im.blocks = Links

TypeOK ==
  /\ ImageOK(image) /\ ImageOK(disk)
  /\ sector_flags \subseteq Sectors
  /\ writer.sector \in Sectors \cup {NULL, ClusterSector(number_of_clusters + 1) + 1}

(* What was redirected to a file is what the file reads as ("echo          *)
(* "Hello, World!" > test.txt" and "cat test.txt", README.md:361), however *)
(* often it and the others were saved, and after a restart as it was when  *)
(* the disk was last written.                                              *)
FilesIntact == \A n \in Names : Content(image, n) = files[n]

(* No cluster belongs to two files, so that deleting one of them frees no  *)
(* cluster of the other.                                                   *)
Chain(im, n) ==
  IF Found(im, n) = {} THEN {}
  ELSE Reached(im.links, im.entries[get_file_information(im, n)].cluster_number)

ChainsDisjoint ==
  \A m, n \in Names : m # n => Chain(image, m) \cap Chain(image, n) = {}

(* The clusters marked in the file allocation table are those of the       *)
(* files: saving over a file gives all its clusters back, and none is ever *)
(* lost, so that saves within the size of the disk never find it full.     *)
NoClusterLost ==
  {c \in Clusters : image.links[c] # 0} = UNION {Chain(image, n) : n \in Names}

(* A power cut at any moment, in the middle of write_entire_disk() too,    *)
(* leaves every file on the disk as the last complete call left it if the  *)
(* file was not saved since, although its links and its directory entry    *)
(* are in the same sectors as those of files that were.                    *)
UntouchedSurvive ==
  \A n \in Names \ touched : Content(disk, n) = saved[n]
=============================================================================
