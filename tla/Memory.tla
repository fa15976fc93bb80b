------------------------------- MODULE Memory -------------------------------
(***************************************************************************)
(* The kernel heap of memory.c: one ring of memory sections, each a header *)
(* followed by its payload, searched next-fit by malloc() and coalesced by *)
(* free().  Both run between cli_task() and sti_task(), so each is one     *)
(* atomic action whoever calls it.  A section is named by the address of   *)
(* its header, so the heap is a function from the addresses of the live    *)
(* headers to the headers.                                                 *)
(***************************************************************************)
EXTENDS Integers, Sequences, FiniteSets

CONSTANTS
  AddressSpace,  (* 2^32: addresses and sizes are unsigned ints below it    *)
  HeaderSize,    (* sizeof(MemorySection)                                   *)
  HeapBase,      (* MEMORY_MAP_KERNEL_HEAP_BEGIN                            *)
  Descriptors,   (* the BIOS memory map: a sequence of region descriptors   *)
  RequestSizes,  (* the sizes callers ask malloc() for                      *)
  NULL           (* the null pointer                                        *)

Address == 0 .. AddressSpace - 1

MEMORY_SECTION_ALLOCATED == 1

MemorySection == [previous : Address, next : Address, size : Address,
                  flags : {0, MEMORY_SECTION_ALLOCATED}]

MemoryRegionDescriptor == [base : Nat, length : Nat, available : BOOLEAN]

(***************************************************************************)
(* The descriptors init_memory() puts into the heap, and the section it    *)
(* makes of one: clipped from below by the heap base and from above by the *)
(* end of the 32-bit address space.                                        *)
(***************************************************************************)
InHeap(d) == /\ d.available
             /\ HeapBase + HeaderSize < d.base + d.length
             /\ d.base < AddressSpace

SectionAddress(d) == IF d.base < HeapBase THEN HeapBase ELSE d.base

SectionEnd(d) == IF AddressSpace < d.base + d.length
                 THEN AddressSpace ELSE d.base + d.length

HeapDescriptors == {i \in DOMAIN Descriptors : InHeap(Descriptors[i])}

RegionStart == {SectionAddress(Descriptors[i]) : i \in HeapDescriptors}

(***************************************************************************)
(* What the firmware promises: at least one region reaches into the heap,  *)
(* available regions do not overlap, and each can hold a header.           *)
(***************************************************************************)
ASSUME MemoryAssumption ==
  /\ AddressSpace \in Nat /\ HeaderSize \in Nat \ {0} /\ HeapBase \in Nat \ {0}
  /\ HeapBase < AddressSpace
  /\ Descriptors \in Seq(MemoryRegionDescriptor)
  /\ RequestSizes \subseteq Address
  /\ NULL \notin Address
  /\ HeapDescriptors # {}
  /\ \A i \in HeapDescriptors :
       SectionAddress(Descriptors[i]) + HeaderSize <= SectionEnd(Descriptors[i])
  /\ \A i, j \in HeapDescriptors :
       i # j => \/ SectionEnd(Descriptors[i]) <= SectionAddress(Descriptors[j])
                \/ SectionEnd(Descriptors[j]) <= SectionAddress(Descriptors[i])

VARIABLES
  section,                 (* the live headers, by address                  *)
  root_memory_section,     (* where the next search starts                  *)
  memory_region_descriptor_index (* how far init_memory() has read the map  *)

vars == <<section, root_memory_section, memory_region_descriptor_index>>

Booted == memory_region_descriptor_index > Len(Descriptors)
-----------------------------------------------------------------------------
(* Unsigned 32-bit addition: it wraps once at most for two addresses.      *)
Plus(x, y) == IF x + y < AddressSpace THEN x + y ELSE x + y - AddressSpace

(* The address just after the payload of the section at a.                 *)
End(s, a) == Plus(Plus(a, HeaderSize), s[a].size)

Init == /\ section = [a \in {} |-> NULL]
        /\ root_memory_section = NULL
        /\ memory_region_descriptor_index = 1

(* Mutant: the section is added without its link back from the root.       *)
AddSectionHalfLinked(a, size) ==
  IF root_memory_section = NULL
  THEN /\ root_memory_section' = a
       /\ section' = [x \in {a} |-> [previous |-> a, next |-> a,
                                     size |-> size, flags |-> 0]]
  ELSE /\ section' = [x \in DOMAIN section \cup {a} |->
                         IF x = a
                         THEN [previous |-> root_memory_section,
                               next |-> root_memory_section, size |-> size, flags |-> 0]
                         ELSE section[x]]
       /\ UNCHANGED root_memory_section

(***************************************************************************)
(* One iteration of the loop of init_memory(): a usable descriptor becomes *)
(* a free section in front of the root, at the tail of the ring.           *)
(***************************************************************************)
AddSection(a, size) ==
  IF root_memory_section = NULL
  THEN /\ root_memory_section' = a
       /\ section' = [x \in {a} |-> [previous |-> a, next |-> a,
                                     size |-> size, flags |-> 0]]
  ELSE LET root == root_memory_section
           last == section[root].previous
       IN /\ section' =
               [x \in DOMAIN section \cup {a} |->
                  IF x = a
                  THEN [previous |-> last, next |-> root, size |-> size, flags |-> 0]
                  ELSE [previous |-> IF x = root THEN a ELSE section[x].previous,
                        next  |-> IF x = last THEN a ELSE section[x].next,
                        size  |-> section[x].size,
                        flags |-> section[x].flags]]
          /\ UNCHANGED root_memory_section

InitMemoryRegion ==
  /\ ~Booted
  /\ memory_region_descriptor_index' = memory_region_descriptor_index + 1
  /\ LET d == Descriptors[memory_region_descriptor_index]
     IN IF InHeap(d)
        THEN AddSection(SectionAddress(d), SectionEnd(d) - SectionAddress(d) - HeaderSize)
        ELSE UNCHANGED <<section, root_memory_section>>
-----------------------------------------------------------------------------
(* The sections the search of malloc() meets, from the root onwards.       *)
Walk[k \in Nat] == IF k = 0 THEN root_memory_section ELSE section[Walk[k - 1]].next

Lap == 0 .. Cardinality(DOMAIN section) - 1

(* Mutant: an allocated section is good enough.                            *)
FitsAllocated(a, size) == a \in DOMAIN section /\ size <= section[a].size

Fits(a, size) == /\ a \in DOMAIN section
                 /\ section[a].flags = 0
                 /\ size <= section[a].size

(* Mutant: no room is left for the header of the rest.                     *)
DivisibleWithoutHeader(a, size) == size < section[a].size

(* The section at a has room for size bytes, a header and more.            *)
Divisible(a, size) == Plus(size, HeaderSize) < section[a].size

(* The section at a is taken whole.                                        *)
TakeWhole(a) ==
  /\ section' = [section EXCEPT ![a].flags = MEMORY_SECTION_ALLOCATED]
  /\ root_memory_section' = section[a].next

(* Mutants of the division: the rest is not reduced by its own header; the *)
(* header of the rest is not linked forwards.                              *)
DivideUncharged(a, size) ==
  LET remaining == Plus(Plus(a, HeaderSize), size)
      next == section[a].next
  IN /\ section' =
          [x \in DOMAIN section \cup {remaining} |->
             IF x = remaining
             THEN [previous |-> a, next |-> next, flags |-> 0,
                   size |-> section[a].size - size]
             ELSE [section[x] EXCEPT
                     !.previous = IF x = next THEN remaining ELSE @,
                     !.next  = IF x = a THEN remaining ELSE @,
                     !.size  = IF x = a THEN size ELSE @,
                     !.flags = IF x = a THEN MEMORY_SECTION_ALLOCATED ELSE @]]
     /\ root_memory_section' = remaining

DivideDroppingRest(a, size) ==
  /\ section' = [section EXCEPT ![a].size = size,
                                ![a].flags = MEMORY_SECTION_ALLOCATED]
  /\ root_memory_section' = section[a].next

(* The section at a is cut: its first size bytes are taken, and a new      *)
(* header behind them holds what remains.                                  *)
Divide(a, size) ==
  LET remaining == Plus(Plus(a, HeaderSize), size)
      next == section[a].next
  IN /\ section' =
          [x \in DOMAIN section \cup {remaining} |->
             IF x = remaining
             THEN [previous |-> a, next |-> next, flags |-> 0,
                   size |-> section[a].size - size - HeaderSize]
             ELSE [previous |-> IF x = next THEN remaining ELSE section[x].previous,
                   next  |-> IF x = a THEN remaining ELSE section[x].next,
                   size  |-> IF x = a THEN size ELSE section[x].size,
                   flags |-> IF x = a THEN MEMORY_SECTION_ALLOCATED ELSE section[x].flags]]
     /\ root_memory_section' = remaining

Malloc(size) ==
  /\ Booted
  /\ size # 0
  /\ \E k \in Lap :
       /\ Fits(Walk[k], size)
       /\ \A j \in 0 .. k - 1 : ~Fits(Walk[j], size)
       /\ IF Divisible(Walk[k], size)
          THEN Divide(Walk[k], size)
          ELSE TakeWhole(Walk[k])
  /\ UNCHANGED memory_region_descriptor_index

(* malloc() returns NULL: a zero size, or a full lap without a fit.        *)
MallocFails(size) ==
  /\ Booted
  /\ size = 0 \/ \A k \in Lap : ~Fits(Walk[k], size)
  /\ UNCHANGED vars
-----------------------------------------------------------------------------
(* The section at a absorbs b and b's place in the ring.                   *)
Absorb(s, a, b) ==
  [x \in DOMAIN s \ {b} |->
     [previous |-> IF x = s[b].next THEN a ELSE s[x].previous,
      next     |-> IF x = a THEN s[b].next ELSE s[x].next,
      size     |-> IF x = a THEN s[a].size + HeaderSize + s[b].size ELSE s[x].size,
      flags    |-> s[x].flags]]

Mergeable(s, a, b) == End(s, a) = b /\ s[a].flags = s[b].flags

(* Mutants of free(): the root stays on a swallowed header; nothing is     *)
(* merged with the next section.                                           *)
FreeSectionKeepingRoot(a) ==
  LET s0 == [section EXCEPT ![a].flags = 0]
      p  == s0[a].previous
      s1 == IF Mergeable(s0, p, a) THEN Absorb(s0, p, a) ELSE s0
  IN section' = s1 /\ UNCHANGED root_memory_section

FreeSectionBackwards(a) ==
  LET s0 == [section EXCEPT ![a].flags = 0]
      p  == s0[a].previous
      backward == Mergeable(s0, p, a)
  IN /\ section' = IF backward THEN Absorb(s0, p, a) ELSE s0
     /\ root_memory_section' = IF backward /\ root_memory_section = a
                               THEN p ELSE root_memory_section

(* free() of the section at a: a merge with the previous section, then a   *)
(* merge of the outcome with the next one.  The root never stays on a      *)
(* header that a merge has swallowed.                                      *)
FreeSection(a) ==
  LET s0 == [section EXCEPT ![a].flags = 0]
      p  == s0[a].previous
      backward == Mergeable(s0, p, a)
      s1 == IF backward THEN Absorb(s0, p, a) ELSE s0
      m  == IF backward THEN p ELSE a
      r1 == IF backward /\ root_memory_section = a THEN p ELSE root_memory_section
      n  == s1[m].next
      forward == Mergeable(s1, m, n)
  IN /\ section' = IF forward THEN Absorb(s1, m, n) ELSE s1
     /\ root_memory_section' = IF forward /\ r1 = n THEN m ELSE r1

Free(a) ==
  /\ Booted
  /\ section[a].flags = MEMORY_SECTION_ALLOCATED
  /\ FreeSection(a)
  /\ UNCHANGED memory_region_descriptor_index

(* free() of a section that is free already: ERROR(), "double free error!" *)
DoubleFree(a) ==
  /\ Booted
  /\ section[a].flags # MEMORY_SECTION_ALLOCATED
  /\ UNCHANGED vars

Next == \/ InitMemoryRegion
        \/ \E size \in RequestSizes : Malloc(size) \/ MallocFails(size)
        \/ \E a \in DOMAIN section : Free(a) \/ DoubleFree(a)

Spec == Init /\ [][Next]_vars
-----------------------------------------------------------------------------
(* Every header is a well-formed MemorySection at a 32-bit address.        *)
TypeOK ==
  /\ DOMAIN section \subseteq Address
  /\ section \in [DOMAIN section -> MemorySection]
  /\ root_memory_section \in Address \cup {NULL}
  /\ memory_region_descriptor_index \in 1 .. Len(Descriptors) + 1

(* Two sections never share a byte, and none reaches past the end of the   *)
(* address space: no two callers of malloc() are given the same memory.    *)
Disjoint ==
  /\ \A a \in DOMAIN section : a + HeaderSize + section[a].size <= AddressSpace
  /\ \A a, b \in DOMAIN section :
       a < b => a + HeaderSize + section[a].size <= b

(* No byte of a region is ever lost: the first byte of each region read so *)
(* far belongs to some section, and right behind a section lies another    *)
(* section or the end of a region.                                         *)
NothingLost ==
  /\ \A i \in HeapDescriptors :
       i < memory_region_descriptor_index =>
         \E a \in DOMAIN section :
            /\ a <= SectionAddress(Descriptors[i])
            /\ SectionAddress(Descriptors[i]) < a + HeaderSize + section[a].size
  /\ \A a \in DOMAIN section :
       \/ a + HeaderSize + section[a].size \in DOMAIN section
       \/ \E i \in HeapDescriptors :
            a + HeaderSize + section[a].size = SectionEnd(Descriptors[i])

(* The two links of the ring agree, and the root is always a live header:  *)
(* malloc() and free() never follow a pointer to a header that a merge has *)
(* swallowed.                                                              *)
RingLinked ==
  /\ DOMAIN section # {} => root_memory_section \in DOMAIN section
  /\ \A a \in DOMAIN section :
       /\ section[a].next \in DOMAIN section
       /\ section[a].previous \in DOMAIN section
       /\ section[section[a].next].previous = a
       /\ section[section[a].previous].next = a

(* One lap of malloc() meets every section, so it fails only when no free  *)
(* section anywhere in the heap is large enough.                           *)
LapMeetsAll == {Walk[k] : k \in Lap} = DOMAIN section

(* free() leaves no two free sections side by side in the ring unmerged,   *)
(* save two regions the BIOS reported separately.                          *)
Coalesced ==
  \A a \in DOMAIN section :
    /\ section[a].flags = 0
    /\ section[section[a].next].flags = 0
    /\ a + HeaderSize + section[a].size = section[a].next
    => section[a].next \in RegionStart
-----------------------------------------------------------------------------
(* The blocks callers hold: the payloads of the allocated sections.        *)
Granted ==
  [p \in {a + HeaderSize : a \in {x \in DOMAIN section :
                section[x].flags = MEMORY_SECTION_ALLOCATED}}
     |-> section[p - HeaderSize].size]

(* The bytes of the regions that reach into the heap.                      *)
UsableBytes ==
  UNION {SectionAddress(Descriptors[i]) .. SectionEnd(Descriptors[i]) - 1 :
           i \in HeapDescriptors}

Allocator == INSTANCE Allocator WITH Usable <- UsableBytes, Sizes <- Address,
                                     granted <- Granted

(* malloc() and free() implement the allocator: each grants or takes back  *)
(* one block at most, leaves every other block alone, and never grants     *)
(* memory outside the regions or under a block somebody still holds.       *)
ImplementsAllocator == Allocator!Spec
=============================================================================
