---------------------------- MODULE MemoryProofs ----------------------------
(***************************************************************************)
(* Proofs about the kernel heap.  The first part is about the section      *)
(* table: GoodHeap is its invariant, stated over a table s and not over    *)
(* the variable, so that what free() does in two merges can be proved one  *)
(* merge at a time.  The second part is about what callers rely on: no     *)
(* byte of a region is lost, free neighbours are merged, malloc() and      *)
(* free() implement the abstract allocator, and one lap of malloc() meets  *)
(* every section.                                                          *)
(***************************************************************************)
EXTENDS Memory, NaturalLemmas, FiniteSetTheorems, TLAPS

Typed(s) == /\ DOMAIN s \subseteq HeapBase .. AddressSpace - 1
            /\ s \in [DOMAIN s -> MemorySection]

Apart(s) == /\ \A a \in DOMAIN s : a + HeaderSize + s[a].size <= AddressSpace
            /\ \A a, b \in DOMAIN s : a < b => a + HeaderSize + s[a].size <= b

Linked(s) == /\ \A x \in DOMAIN s : s[x].next \in DOMAIN s /\ s[x].previous \in DOMAIN s
             /\ \A x, y \in DOMAIN s : s[x].next = y <=> s[y].previous = x

GoodHeap(s) == Typed(s) /\ Apart(s) /\ Linked(s)

(* The memory assumption without its quantifiers over the BIOS map.        *)
LEMMA Numbers == /\ AddressSpace \in Nat /\ HeaderSize \in Nat \ {0}
                 /\ HeapBase \in Nat \ {0} /\ HeapBase < AddressSpace
                 /\ RequestSizes \subseteq Address
                 /\ NULL \notin Address
  BY MemoryAssumption

(* What Absorb does to a ring: b leaves it, a takes over b's bytes and b's *)
(* next link, and b's successor links back to a.                           *)
LEMMA AbsorbFields ==
  ASSUME NEW s, GoodHeap(s), NEW a \in DOMAIN s, NEW b \in DOMAIN s,
         b = s[a].next, a # b, a + HeaderSize + s[a].size = b
  PROVE  LET t == Absorb(s, a, b)
         IN /\ DOMAIN t = DOMAIN s \ {b}
            /\ Typed(t)
            /\ t[a].size = s[a].size + HeaderSize + s[b].size
            /\ t[a].next = s[b].next
            /\ t[s[b].next].previous = a
            /\ \A x \in DOMAIN t : t[x].flags = s[x].flags
            /\ \A x \in DOMAIN t : x # a => t[x].size = s[x].size /\ t[x].next = s[x].next
            /\ \A x \in DOMAIN t : x # s[b].next => t[x].previous = s[x].previous
<1> DEFINE c == s[b].next
           t == Absorb(s, a, b)
<1>1. c \in DOMAIN s /\ c # b
  <2>1. c \in DOMAIN s /\ s[b].previous = a /\ s[c].previous = b
    BY DEF GoodHeap, Linked
  <2>2. QED
    BY <2>1
<1>2. \A x \in DOMAIN s : s[x] \in MemorySection
  BY DEF GoodHeap, Typed
<1>3. s[a].size + HeaderSize + s[b].size \in Address
  <2>1. b + HeaderSize + s[b].size <= AddressSpace
    BY DEF GoodHeap, Apart
  <2>2. a \in HeapBase .. AddressSpace - 1 /\ s[a].size \in Nat /\ s[b].size \in Nat
    BY <1>2 DEF GoodHeap, Typed, MemorySection, Address
  <2>3. QED
    BY <2>1, <2>2, Numbers DEF Address
<1>4. Typed(t)
  <2>1. \A x \in DOMAIN t : t[x] \in MemorySection
    BY <1>2, <1>3, Numbers DEF Absorb, MemorySection, GoodHeap, Typed, Address
  <2>2. t = [x \in DOMAIN t |-> t[x]] /\ DOMAIN t \subseteq DOMAIN s
    BY DEF Absorb
  <2>3. QED
    BY <2>1, <2>2 DEF GoodHeap, Typed
<1>5. QED
  BY <1>1, <1>4 DEF Absorb

(* A merge leaves a good heap.                                             *)
LEMMA AbsorbGood ==
  ASSUME NEW s, GoodHeap(s), NEW a \in DOMAIN s, NEW b \in DOMAIN s,
         b = s[a].next, a # b, a + HeaderSize + s[a].size = b
  PROVE  GoodHeap(Absorb(s, a, b))
<1> DEFINE t == Absorb(s, a, b)
           c == s[b].next
<1>1. /\ DOMAIN t = DOMAIN s \ {b}
      /\ Typed(t)
      /\ t[a].size = s[a].size + HeaderSize + s[b].size
      /\ t[a].next = c
      /\ t[c].previous = a
      /\ \A x \in DOMAIN t : x # a => t[x].size = s[x].size /\ t[x].next = s[x].next
      /\ \A x \in DOMAIN t : x # c => t[x].previous = s[x].previous
  BY AbsorbFields
<1> HIDE DEF t
<1>2. Apart(t)
  <2>1. \A x \in DOMAIN s : x \in Nat /\ s[x].size \in Nat
    BY Numbers DEF GoodHeap, Typed, MemorySection, Address
  <2>2. \A x \in DOMAIN t : t[x].size \in Nat
    BY <1>1, Numbers DEF Typed, MemorySection, Address
  <2>3. \A x \in DOMAIN t : x + HeaderSize + t[x].size <= AddressSpace
    BY <1>1, <2>1, <2>2, Numbers DEF GoodHeap, Apart
  <2>4. ASSUME NEW x \in DOMAIN t, NEW y \in DOMAIN t, x < y
        PROVE  x + HeaderSize + t[x].size <= y
    <3>1. CASE x = a
      <4>1. b < y
        BY <3>1, <1>1, <2>1, <2>4, Numbers DEF GoodHeap, Apart
      <4>2. QED
        BY <3>1, <4>1, <1>1, <2>1, Numbers DEF GoodHeap, Apart
    <3>2. CASE x # a
      BY <3>2, <1>1, <2>1, <2>4, Numbers DEF GoodHeap, Apart
    <3>3. QED
      BY <3>1, <3>2
  <2>5. QED
    BY <2>3, <2>4 DEF Apart
<1>3. Linked(t)
  <2>1. Linked(s)
    BY DEF GoodHeap
  <2>2. s[b].previous = a /\ c \in DOMAIN s /\ s[c].previous = b /\ c # b
    <3>1. c \in DOMAIN s /\ (s[a].next = b <=> s[b].previous = a)
      BY <2>1 DEF Linked
    <3>2. s[b].next = c <=> s[c].previous = b
      BY <2>1, <3>1 DEF Linked
    <3>3. QED
      BY <3>1, <3>2
  <2>3. a \in DOMAIN t /\ c \in DOMAIN t
    BY <1>1, <2>2
  <2>4. ASSUME NEW x \in DOMAIN t
        PROVE  t[x].next \in DOMAIN t /\ t[x].previous \in DOMAIN t
    <3>1. /\ s[x].next \in DOMAIN s /\ s[x].previous \in DOMAIN s
          /\ s[x].next = b <=> s[b].previous = x
          /\ s[b].next = x <=> s[x].previous = b
      BY <1>1, <2>1 DEF Linked
    <3>2. QED
      BY <1>1, <2>2, <2>3, <3>1
  <2>5. ASSUME NEW x \in DOMAIN t, NEW y \in DOMAIN t
        PROVE  t[x].next = y <=> t[y].previous = x
    <3>1. s[x].next = y <=> s[y].previous = x
      BY <1>1, <2>1 DEF Linked
    <3>2. x # b /\ y # b /\ (s[x].next = c <=> s[c].previous = x)
      BY <1>1, <2>1, <2>2 DEF Linked
    <3>3. s[a].next = y <=> s[y].previous = a
      BY <1>1, <2>1 DEF Linked
    <3>4. QED
      BY <1>1, <2>2, <2>3, <3>1, <3>2, <3>3
  <2>6. QED
    BY <2>4, <2>5 DEF Linked
<1>4. QED
  BY <1>1, <1>2, <1>3 DEF GoodHeap, t

(* Sections that free() takes for neighbours really are: the sum of        *)
(* addresses in End cannot have wrapped.                                   *)
LEMMA MergeableAdjacent ==
  ASSUME NEW s, GoodHeap(s), NEW a \in DOMAIN s, NEW b \in DOMAIN s,
         Mergeable(s, a, b)
  PROVE  a + HeaderSize + s[a].size = b /\ a # b /\ s[a].flags = s[b].flags
<1>1. /\ a \in Nat /\ b \in Nat /\ s[a].size \in Nat /\ b >= HeapBase
      /\ a < AddressSpace /\ b < AddressSpace /\ s[a].size < AddressSpace
  BY Numbers DEF GoodHeap, Typed, MemorySection, Address
<1>2. a + HeaderSize + s[a].size <= AddressSpace
  BY DEF GoodHeap, Apart
<1>3. QED
  BY <1>1, <1>2, Numbers DEF Mergeable, End, Plus

(* Marking a section allocated or free moves no section and no link.       *)
LEMMA FlagsGood ==
  ASSUME NEW s, GoodHeap(s), NEW a \in DOMAIN s, NEW f \in {0, MEMORY_SECTION_ALLOCATED}
  PROVE  LET t == [s EXCEPT ![a].flags = f]
         IN GoodHeap(t) /\ DOMAIN t = DOMAIN s
<1> DEFINE t == [s EXCEPT ![a].flags = f]
<1>1. /\ DOMAIN t = DOMAIN s
      /\ t \in [DOMAIN s -> MemorySection]
      /\ \A x \in DOMAIN s : /\ t[x].next = s[x].next
                                   /\ t[x].previous = s[x].previous
                                   /\ t[x].size = s[x].size
  BY DEF GoodHeap, Typed, MemorySection
<1> HIDE DEF t
<1>2. GoodHeap(t)
  <2>1. Typed(t)
    BY <1>1 DEF GoodHeap, Typed
  <2>2. Apart(t)
    BY <1>1 DEF GoodHeap, Apart
  <2>3. Linked(t)
    <3>1. ASSUME NEW x \in DOMAIN t
          PROVE  t[x].next \in DOMAIN t /\ t[x].previous \in DOMAIN t
      BY <1>1 DEF GoodHeap, Linked
    <3>2. ASSUME NEW x \in DOMAIN t, NEW y \in DOMAIN t
          PROVE  t[x].next = y <=> t[y].previous = x
      <4>1. s[x].next = y <=> s[y].previous = x
        BY <1>1 DEF GoodHeap, Linked
      <4>2. QED
        BY <1>1, <4>1
    <3>3. QED
      BY <3>1, <3>2 DEF Linked
  <2>4. QED
    BY <2>1, <2>2, <2>3 DEF GoodHeap
<1>3. QED
  BY <1>1, <1>2 DEF t

(* free() of an allocated section leaves a good heap and a live root.      *)
LEMMA FreeGood ==
  ASSUME GoodHeap(section), root_memory_section \in DOMAIN section,
         NEW a \in DOMAIN section, FreeSection(a)
  PROVE  GoodHeap(section') /\ root_memory_section' \in DOMAIN section'
<1> DEFINE s0 == [section EXCEPT ![a].flags = 0]
           p  == s0[a].previous
           backward == Mergeable(s0, p, a)
           s1 == IF backward THEN Absorb(s0, p, a) ELSE s0
           m  == IF backward THEN p ELSE a
           r1 == IF backward /\ root_memory_section = a THEN p ELSE root_memory_section
           n  == s1[m].next
           forward == Mergeable(s1, m, n)
<1>1. GoodHeap(s0) /\ DOMAIN s0 = DOMAIN section
  BY FlagsGood
<1> HIDE DEF s0
<1>2. p \in DOMAIN s0 /\ s0[p].next = a
  BY <1>1 DEF GoodHeap, Linked
<1> HIDE DEF p
<1>3. GoodHeap(s1) /\ m \in DOMAIN s1 /\ r1 \in DOMAIN s1
  <2>1. CASE backward
    <3>1. p + HeaderSize + s0[p].size = a /\ p # a
      BY <1>1, <1>2, <2>1, MergeableAdjacent
    <3>2. GoodHeap(s1)
      BY <1>1, <1>2, <2>1, <3>1, AbsorbGood
    <3>3. DOMAIN s1 = DOMAIN s0 \ {a}
      BY <2>1 DEF Absorb
    <3>4. QED
      BY <1>1, <1>2, <2>1, <3>1, <3>2, <3>3
  <2>2. CASE ~backward
    BY <1>1, <2>2
  <2>3. QED
    BY <2>1, <2>2
<1>4. n \in DOMAIN s1
  BY <1>3 DEF GoodHeap, Linked
<1>5. /\ section' = IF forward THEN Absorb(s1, m, n) ELSE s1
      /\ root_memory_section' = IF forward /\ r1 = n THEN m ELSE r1
  BY DEF FreeSection, s0, p
<1> HIDE DEF s1, m, r1, n
<1>6. CASE forward
  <2>1. m + HeaderSize + s1[m].size = n /\ m # n
    BY <1>3, <1>4, <1>6, MergeableAdjacent
  <2>2. GoodHeap(Absorb(s1, m, n))
    BY <1>3, <1>4, <2>1, AbsorbGood DEF n
  <2>3. DOMAIN Absorb(s1, m, n) = DOMAIN s1 \ {n}
    BY DEF Absorb
  <2>4. section' = Absorb(s1, m, n)
    BY <1>5, <1>6
  <2>5. root_memory_section' \in DOMAIN section'
    BY <1>3, <1>5, <1>6, <2>1, <2>3, <2>4
  <2>6. QED
    BY <2>2, <2>4, <2>5
<1>7. CASE ~forward
  <2>1. section' = s1 /\ root_memory_section' = r1
    BY <1>5, <1>7
  <2>2. QED
    BY <1>3, <2>1
<1>8. QED
  BY <1>6, <1>7

(* Cutting a free section leaves a good heap.  No sum of sizes wraps.      *)
LEMMA DivideGood ==
  ASSUME GoodHeap(section), NEW a \in DOMAIN section,
         NEW size \in Address, size # 0, size <= section[a].size,
         Divisible(a, size), Divide(a, size)
  PROVE  /\ GoodHeap(section')
         /\ DOMAIN section' = DOMAIN section \cup {a + HeaderSize + size}
         /\ root_memory_section' = a + HeaderSize + size
         /\ a + HeaderSize + size \notin DOMAIN section
         /\ section'[a].size = size
<1> DEFINE r == a + HeaderSize + size
           c == section[a].next
           t == section'
<1>1. /\ a \in HeapBase .. AddressSpace - 1 /\ size \in Nat
      /\ section[a].size \in Nat
      /\ \A x \in DOMAIN section : x \in Nat /\ section[x].size \in Nat
  BY Numbers DEF GoodHeap, Typed, MemorySection, Address
<1>2. a + HeaderSize + section[a].size <= AddressSpace
  BY DEF GoodHeap, Apart
<1>3. size + HeaderSize < section[a].size /\ Plus(Plus(a, HeaderSize), size) = r
  BY <1>1, <1>2, Numbers DEF Divisible, Plus
<1>4. r \notin DOMAIN section /\ r # a /\ r \in HeapBase .. AddressSpace - 1
  <2>1. ASSUME NEW x \in DOMAIN section  PROVE x # r
    BY <1>1, <1>2, <1>3, Numbers DEF GoodHeap, Apart
  <2>2. QED
    BY <1>1, <1>2, <1>3, <2>1, Numbers
<1>5. /\ DOMAIN t = DOMAIN section \cup {r}
      /\ t[r].previous = a /\ t[r].next = c /\ t[r].flags = 0
      /\ t[r].size = section[a].size - size - HeaderSize
      /\ \A x \in DOMAIN section :
           /\ t[x].previous = IF x = c THEN r ELSE section[x].previous
           /\ t[x].next = IF x = a THEN r ELSE section[x].next
           /\ t[x].size = IF x = a THEN size ELSE section[x].size
      /\ root_memory_section' = r
  BY <1>3, <1>4 DEF Divide
<1>6. Typed(t)
  <2>1. c \in Address /\ r \in Address /\ a \in Address
    BY <1>1, <1>4, Numbers DEF GoodHeap, Typed, MemorySection, Address
  <2>2. section[a].size - size - HeaderSize \in Address
    BY <1>1, <1>2, <1>3, Numbers DEF Address
  <2>3. \A x \in DOMAIN section : section[x] \in MemorySection
    BY DEF GoodHeap, Typed
  <2>4. t \in [DOMAIN section \cup {r} -> MemorySection]
    BY <1>3, <2>1, <2>2, <2>3 DEF Divide, MemorySection
  <2>5. QED
    BY <1>4, <1>5, <2>4 DEF GoodHeap, Typed
<1> HIDE DEF t
<1>7. Apart(t)
  <2>1. ASSUME NEW x \in DOMAIN t
        PROVE  x + HeaderSize + t[x].size <= AddressSpace
    BY <1>1, <1>2, <1>3, <1>5, Numbers DEF GoodHeap, Apart
  <2>2. ASSUME NEW x \in DOMAIN t, NEW y \in DOMAIN t, x < y
        PROVE  x + HeaderSize + t[x].size <= y
    <3>1. x \in DOMAIN section /\ y \in DOMAIN section
            => x + HeaderSize + section[x].size <= y
      BY <2>2 DEF GoodHeap, Apart
    <3>2. x \in DOMAIN section /\ x < a => x + HeaderSize + section[x].size <= a
      BY DEF GoodHeap, Apart
    <3>3. y \in DOMAIN section /\ a < y => a + HeaderSize + section[a].size <= y
      BY DEF GoodHeap, Apart
    <3>4. x \in DOMAIN section /\ a < x => a + HeaderSize + section[a].size <= x
      BY DEF GoodHeap, Apart
    <3>5. QED
      BY <1>1, <1>2, <1>3, <1>4, <1>5, <2>2, <3>1, <3>2, <3>3, <3>4, Numbers
  <2>3. QED
    BY <2>1, <2>2 DEF Apart
<1>8. Linked(t)
  <2>1. Linked(section)
    BY DEF GoodHeap
  <2>2. c \in DOMAIN section /\ section[c].previous = a /\ c # r
    <3>1. c \in DOMAIN section
      BY <2>1 DEF Linked
    <3>2. section[a].next = c <=> section[c].previous = a
      BY <2>1, <3>1 DEF Linked
    <3>3. QED
      BY <1>4, <3>1, <3>2
  <2>3. ASSUME NEW x \in DOMAIN t
        PROVE  t[x].next \in DOMAIN t /\ t[x].previous \in DOMAIN t
    <3>1. x \in DOMAIN section =>
            section[x].next \in DOMAIN section /\ section[x].previous \in DOMAIN section
      BY <2>1 DEF Linked
    <3>2. QED
      BY <1>5, <2>2, <3>1
  <2>4. ASSUME NEW x \in DOMAIN t, NEW y \in DOMAIN t
        PROVE  t[x].next = y <=> t[y].previous = x
    <3>1. x \in DOMAIN section /\ y \in DOMAIN section =>
            (section[x].next = y <=> section[y].previous = x)
      BY <2>1 DEF Linked
    <3>2. x \in DOMAIN section => /\ section[x].next \in DOMAIN section
                                  /\ section[x].next = c <=> section[c].previous = x
      BY <2>1, <2>2 DEF Linked
    <3>3. y \in DOMAIN section => /\ section[y].previous \in DOMAIN section
                                  /\ section[a].next = y <=> section[y].previous = a
      BY <2>1, <2>2 DEF Linked
    <3>4. QED
      BY <1>4, <1>5, <2>2, <3>1, <3>2, <3>3
  <2>5. QED
    BY <2>3, <2>4 DEF Linked
<1>9. QED
  BY <1>4, <1>5, <1>6, <1>7, <1>8 DEF GoodHeap, t
-----------------------------------------------------------------------------
(* While init_memory() runs, the sections are exactly free regions that it *)
(* has read already.                                                       *)
Unread == ~Booted =>
  \A a \in DOMAIN section :
    /\ section[a].flags = 0
    /\ \E i \in HeapDescriptors :
         /\ i < memory_region_descriptor_index
         /\ a = SectionAddress(Descriptors[i])
         /\ a + HeaderSize + section[a].size = SectionEnd(Descriptors[i])

RootLive == IF root_memory_section = NULL THEN DOMAIN section = {}
                                          ELSE root_memory_section \in DOMAIN section

IInv == /\ GoodHeap(section)
        /\ RootLive
        /\ memory_region_descriptor_index \in 1 .. Len(Descriptors) + 1
        /\ Unread

(* The section of a descriptor that reaches into the heap is a 32-bit one, *)
(* and its size has not wrapped.                                           *)
LEMMA DescriptorSection ==
  ASSUME NEW i \in HeapDescriptors
  PROVE  LET d == Descriptors[i]
             a == SectionAddress(d)
             size == SectionEnd(d) - a - HeaderSize
         IN /\ i \in 1 .. Len(Descriptors)
            /\ a \in HeapBase .. AddressSpace - 1
            /\ size \in Address
            /\ a + HeaderSize + size = SectionEnd(d)
            /\ SectionEnd(d) <= AddressSpace
<1> DEFINE d == Descriptors[i]
           a == SectionAddress(d)
<1>1. i \in DOMAIN Descriptors /\ InHeap(d)
  BY DEF HeapDescriptors
<1>2. i \in 1 .. Len(Descriptors) /\ d \in MemoryRegionDescriptor
  <2>1. Descriptors \in Seq(MemoryRegionDescriptor)
    BY MemoryAssumption
  <2>2. QED
    BY <1>1, <2>1
<1>3. d.base \in Nat /\ d.length \in Nat /\ d.base < AddressSpace
  BY <1>1, <1>2 DEF InHeap, MemoryRegionDescriptor
<1>4. a + HeaderSize <= SectionEnd(d)
  BY MemoryAssumption
<1>5. a \in HeapBase .. AddressSpace - 1
  BY <1>3, Numbers DEF SectionAddress
<1>6. SectionEnd(d) \in Nat /\ SectionEnd(d) <= AddressSpace
  BY <1>3, Numbers DEF SectionEnd
<1>7. QED
  BY <1>2, <1>4, <1>5, <1>6, Numbers DEF Address

(* A region read by init_memory() joins the ring as a section of its own.  *)
LEMMA InitMemoryRegionGood ==
  ASSUME IInv, InitMemoryRegion
  PROVE  IInv'
<1> DEFINE i == memory_region_descriptor_index
           d == Descriptors[i]
           a == SectionAddress(d)
           size == SectionEnd(d) - a - HeaderSize
           root == root_memory_section
           last == section[root].previous
           t == section'
<1>1. /\ ~Booted /\ i' = i + 1 /\ i \in Nat /\ i \in DOMAIN Descriptors
      /\ i' \in 1 .. Len(Descriptors) + 1
  BY MemoryAssumption DEF InitMemoryRegion, Booted, IInv
<1>2. \A x \in DOMAIN section :
        /\ section[x].flags = 0
        /\ \E j \in HeapDescriptors :
             /\ j < i
             /\ x = SectionAddress(Descriptors[j])
             /\ x + HeaderSize + section[x].size = SectionEnd(Descriptors[j])
  BY <1>1 DEF IInv, Unread
<1>3. CASE ~InHeap(d)
  <2>1. UNCHANGED <<section, root_memory_section>>
    BY <1>3 DEF InitMemoryRegion
  <2>2. \A j \in HeapDescriptors : j < i => j < i'
    BY <1>1, DescriptorSection
  <2>3. QED
    BY <1>1, <1>2, <2>1, <2>2 DEF IInv, RootLive, Unread, GoodHeap, Typed, Apart, Linked
<1>4. CASE InHeap(d)
  <2>1. i \in HeapDescriptors
    BY <1>1, <1>4 DEF HeapDescriptors
  <2>2. /\ a \in HeapBase .. AddressSpace - 1 /\ size \in Address
        /\ a + HeaderSize + size = SectionEnd(d) /\ SectionEnd(d) <= AddressSpace
    BY <2>1, DescriptorSection
  <2>3. AddSection(a, size)
    BY <1>4 DEF InitMemoryRegion
  <2> HIDE DEF a, size
  <2>4. ASSUME NEW x \in DOMAIN section
        PROVE  \/ x + HeaderSize + section[x].size <= a
               \/ a + HeaderSize + size <= x
    <3>1. PICK j \in HeapDescriptors :
             /\ j < i
             /\ x = SectionAddress(Descriptors[j])
             /\ x + HeaderSize + section[x].size = SectionEnd(Descriptors[j])
      BY <1>2
    <3>2. i # j
      BY <1>1, <3>1, DescriptorSection
    <3>3. \/ SectionEnd(Descriptors[i]) <= SectionAddress(Descriptors[j])
          \/ SectionEnd(Descriptors[j]) <= SectionAddress(Descriptors[i])
      BY <2>1, <3>2, MemoryAssumption
    <3>4. QED
      BY <2>2, <3>1, <3>3 DEF a
  <2>5. \A x \in DOMAIN section : /\ section[x] \in MemorySection
                                 /\ x \in Nat /\ section[x].size \in Nat
    BY Numbers DEF IInv, GoodHeap, Typed, MemorySection, Address
  <2>6. a \notin DOMAIN section
    BY <2>2, <2>4, <2>5, Numbers DEF Address
  <2>7. CASE root = NULL
    <3>1. /\ DOMAIN section = {} /\ root_memory_section' = a /\ DOMAIN t = {a}
          /\ t = [x \in {a} |-> [previous |-> a, next |-> a, size |-> size, flags |-> 0]]
      BY <2>3, <2>7 DEF AddSection, IInv, RootLive
    <3>2. t[a] = [previous |-> a, next |-> a, size |-> size, flags |-> 0]
      BY <3>1
    <3>3. a \in Address /\ a # NULL
      BY <2>2, Numbers DEF Address
    <3>4. Typed(t)
      BY <2>2, <3>1, <3>3 DEF Typed, MemorySection
    <3>5. Apart(t) /\ Linked(t)
      BY <2>2, <3>1, <3>2, Numbers DEF Apart, Linked, Address
    <3>6. RootLive'
      BY <3>1, <3>3 DEF RootLive
    <3>7. Unread'
      BY <1>1, <2>1, <2>2, <3>1, <3>2 DEF Unread, a
    <3>8. QED
      BY <1>1, <3>4, <3>5, <3>6, <3>7 DEF IInv, GoodHeap
  <2>8. CASE root # NULL
    <3>1. root \in DOMAIN section /\ last \in DOMAIN section
      BY <2>8 DEF IInv, RootLive, GoodHeap, Linked
    <3>2. /\ DOMAIN t = DOMAIN section \cup {a}
          /\ root_memory_section' = root
          /\ t[a] = [previous |-> last, next |-> root, size |-> size, flags |-> 0]
          /\ \A x \in DOMAIN section :
               t[x] = [previous |-> IF x = root THEN a ELSE section[x].previous,
                       next  |-> IF x = last THEN a ELSE section[x].next,
                       size  |-> section[x].size,
                       flags |-> section[x].flags]
      BY <2>3, <2>6, <2>8 DEF AddSection
    <3> HIDE DEF t, last, root
    <3>3. \A x \in DOMAIN section :
            /\ t[x].previous = IF x = root THEN a ELSE section[x].previous
            /\ t[x].next = IF x = last THEN a ELSE section[x].next
            /\ t[x].size = section[x].size
            /\ t[x].flags = section[x].flags
      BY <3>2
    <3>4. /\ t[a].previous = last /\ t[a].next = root
          /\ t[a].size = size /\ t[a].flags = 0
      BY <3>2
    <3>5. Typed(t)
      <4>1. \A x \in DOMAIN t : t[x] \in MemorySection
        <5>1. a \in Address /\ root \in Address /\ last \in Address
          BY <2>2, <3>1, Numbers DEF Address, IInv, GoodHeap, Typed
        <5>2. t[a] \in MemorySection
          BY <2>2, <3>2, <5>1 DEF MemorySection
        <5>3. \A x \in DOMAIN section : t[x] \in MemorySection
          BY <2>5, <3>2, <5>1 DEF MemorySection
        <5>4. QED
          BY <3>2, <5>2, <5>3
      <4>2. t \in [DOMAIN t -> MemorySection]
        <5>1. t = [x \in DOMAIN t |-> t[x]]
          BY <2>3, <2>8, <3>2 DEF AddSection, t, root
        <5>2. QED
          BY <4>1, <5>1
      <4>3. QED
        BY <2>2, <3>2, <4>2 DEF IInv, GoodHeap, Typed
    <3>6. Apart(t)
      <4>1. ASSUME NEW x \in DOMAIN t, NEW y \in DOMAIN t
            PROVE  /\ x + HeaderSize + t[x].size <= AddressSpace
                   /\ x < y => x + HeaderSize + t[x].size <= y
        <5>1. x \in DOMAIN section =>
                /\ x + HeaderSize + section[x].size <= AddressSpace
                /\ y \in DOMAIN section /\ x < y => x + HeaderSize + section[x].size <= y
          BY DEF IInv, GoodHeap, Apart
        <5>2. CASE x = a
          BY <2>2, <2>4, <2>5, <2>6, <3>2, <3>4, <5>2, Numbers DEF Address
        <5>3. CASE x # a
          BY <2>2, <2>4, <2>5, <2>6, <3>2, <3>3, <5>1, <5>3, Numbers DEF Address
        <5>4. QED
          BY <5>2, <5>3
      <4>2. QED
        BY <4>1 DEF Apart
    <3>7. Linked(t)
      <4>1. Linked(section)
        BY DEF IInv, GoodHeap
      <4>2. ASSUME NEW x \in DOMAIN t
            PROVE  t[x].next \in DOMAIN t /\ t[x].previous \in DOMAIN t
        <5>1. x \in DOMAIN section =>
                section[x].next \in DOMAIN section /\ section[x].previous \in DOMAIN section
          BY <4>1 DEF Linked
        <5>2. QED
          BY <3>1, <3>2, <3>3, <3>4, <5>1
      <4>3. ASSUME NEW x \in DOMAIN t, NEW y \in DOMAIN t
            PROVE  t[x].next = y <=> t[y].previous = x
        <5>1. x \in DOMAIN section /\ y \in DOMAIN section =>
                (section[x].next = y <=> section[y].previous = x)
          BY <4>1 DEF Linked
        <5>2. x \in DOMAIN section =>
                /\ section[x].next \in DOMAIN section
                /\ section[x].next = root <=> section[root].previous = x
          BY <3>1, <4>1 DEF Linked
        <5>3. y \in DOMAIN section =>
                /\ section[y].previous \in DOMAIN section
                /\ section[last].next = y <=> section[y].previous = last
          BY <3>1, <4>1 DEF Linked
        <5>4. section[root].previous = last /\ section[last].next = root
          BY <3>1, <4>1 DEF Linked, last
        <5>5. CASE x = a
          BY <2>6, <3>1, <3>2, <3>3, <3>4, <5>3, <5>4, <5>5
        <5>6. CASE x # a
          BY <2>6, <3>1, <3>2, <3>3, <3>4, <5>1, <5>2, <5>4, <5>6
        <5>7. QED
          BY <5>5, <5>6
      <4>4. QED
        BY <4>2, <4>3 DEF Linked
    <3>8. RootLive'
      BY <2>8, <3>1, <3>2 DEF RootLive, t
    <3>9. Unread'
      <4>1. ASSUME NEW x \in DOMAIN t
            PROVE  /\ t[x].flags = 0
                   /\ \E j \in HeapDescriptors :
                        /\ j < i'
                        /\ x = SectionAddress(Descriptors[j])
                        /\ x + HeaderSize + t[x].size = SectionEnd(Descriptors[j])
        <5>1. CASE x = a
          BY <1>1, <2>1, <2>2, <3>4, <5>1 DEF a
        <5>2. CASE x \in DOMAIN section
          <6>1. PICK j \in HeapDescriptors :
                   /\ j < i
                   /\ x = SectionAddress(Descriptors[j])
                   /\ x + HeaderSize + section[x].size = SectionEnd(Descriptors[j])
            BY <1>2, <5>2
          <6>2. j < i'
            BY <1>1, <6>1, DescriptorSection
          <6>3. QED
            BY <1>2, <3>3, <5>2, <6>1, <6>2
        <5>3. QED
          BY <3>2, <5>1, <5>2
      <4>2. QED
        BY <4>1 DEF Unread, t
    <3>10. QED
      BY <1>1, <3>5, <3>6, <3>7, <3>8, <3>9 DEF IInv, GoodHeap, t
  <2>9. QED
    BY <2>7, <2>8
<1>5. QED
  BY <1>3, <1>4

(* A search that finds a section leaves a good heap and a live root.       *)
LEMMA MallocGood ==
  ASSUME IInv, NEW size \in RequestSizes, Malloc(size)
  PROVE  IInv'
<1>1. PICK k \in Lap :
        /\ Fits(Walk[k], size)
        /\ IF Divisible(Walk[k], size)
           THEN Divide(Walk[k], size) ELSE TakeWhole(Walk[k])
  BY DEF Malloc
<1> DEFINE a == Walk[k]
<1>2. a \in DOMAIN section /\ size <= section[a].size
  BY <1>1 DEF Fits
<1> HIDE DEF a
<1>3. /\ Booted /\ Booted' /\ size # 0 /\ size \in Address
      /\ memory_region_descriptor_index' = memory_region_descriptor_index
  BY Numbers DEF Malloc, Booted
<1>4. GoodHeap(section') /\ root_memory_section' \in DOMAIN section'
  <2>1. CASE ~Divisible(a, size)
    <3>1. TakeWhole(a)
      BY <1>1, <2>1 DEF a
    <3>2. GoodHeap(section') /\ DOMAIN section' = DOMAIN section
      BY <1>2, <3>1, FlagsGood DEF TakeWhole, IInv, MEMORY_SECTION_ALLOCATED
    <3>3. root_memory_section' \in DOMAIN section
      BY <1>2, <3>1 DEF TakeWhole, IInv, GoodHeap, Linked
    <3>4. QED
      BY <3>2, <3>3
  <2>2. CASE Divisible(a, size)
    <3>1. Divide(a, size)
      BY <1>1, <2>2 DEF a
    <3>2. QED
      BY <1>2, <1>3, <2>2, <3>1, DivideGood DEF IInv
  <2>3. QED
    BY <2>1, <2>2
<1>5. RootLive'
  <2>1. root_memory_section' # NULL
    BY <1>4, Numbers DEF GoodHeap, Typed, Address
  <2>2. QED
    BY <1>4, <2>1 DEF RootLive
<1>6. QED
  BY <1>3, <1>4, <1>5 DEF IInv, Unread

(* Nor does free() break the heap.                                         *)
LEMMA FreeKeepsIInv ==
  ASSUME IInv, NEW a \in DOMAIN section, Free(a)
  PROVE  IInv'
<1>1. /\ Booted /\ Booted'
      /\ memory_region_descriptor_index' = memory_region_descriptor_index
  BY DEF Free, Booted
<1>2. root_memory_section \in DOMAIN section
  BY DEF IInv, RootLive
<1>3. GoodHeap(section') /\ root_memory_section' \in DOMAIN section'
  BY <1>2, FreeGood DEF Free, IInv
<1>4. RootLive'
  <2>1. root_memory_section' # NULL
    BY <1>3, Numbers DEF GoodHeap, Typed, Address
  <2>2. QED
    BY <1>3, <2>1 DEF RootLive
<1>5. QED
  BY <1>1, <1>3, <1>4 DEF IInv, Unread

(* The inductive invariant of the heap holds in every reachable state.     *)
THEOREM HeapInvariant == Spec => []IInv
<1>1. Init => IInv
  <2> SUFFICES ASSUME Init PROVE IInv
    OBVIOUS
  <2>1. section = [a \in {} |-> NULL] /\ DOMAIN section = {}
    BY DEF Init
  <2>2. Len(Descriptors) \in Nat
    BY MemoryAssumption
  <2>3. GoodHeap(section)
    BY <2>1 DEF GoodHeap, Typed, Apart, Linked
  <2>4. QED
    BY <2>1, <2>2, <2>3 DEF Init, IInv, RootLive, Unread
<1>2. IInv /\ [Next]_vars => IInv'
  <2> SUFFICES ASSUME IInv, [Next]_vars PROVE IInv'
    OBVIOUS
  <2>1. CASE InitMemoryRegion
    BY <2>1, InitMemoryRegionGood
  <2>2. ASSUME NEW size \in RequestSizes, Malloc(size)
        PROVE  IInv'
    BY <2>2, MallocGood
  <2>3. ASSUME NEW a \in DOMAIN section, Free(a)
        PROVE  IInv'
    BY <2>3, FreeKeepsIInv
  <2>4. ASSUME UNCHANGED vars
        PROVE  IInv'
    BY <2>4 DEF vars, IInv, GoodHeap, Typed, Apart, Linked, RootLive, Unread, Booted
  <2>5. QED
    BY <2>1, <2>2, <2>3, <2>4 DEF Next, MallocFails, DoubleFree
<1>3. QED
  BY <1>1, <1>2, PTL DEF Spec

(* Blocks handed out by malloc() never overlap, and none reaches past the  *)
(* end of the address space.                                               *)
THEOREM SectionsDisjoint == Spec => []Disjoint
<1>1. IInv => Disjoint
  BY DEF IInv, GoodHeap, Apart, Disjoint
<1>2. QED
  BY <1>1, HeapInvariant, PTL

(* malloc() and free() never follow a link to a header that is gone.       *)
THEOREM RingStaysLinked == Spec => []RingLinked
<1>1. IInv => RingLinked
  <2> SUFFICES ASSUME IInv PROVE RingLinked
    OBVIOUS
  <2>1. DOMAIN section # {} => root_memory_section \in DOMAIN section
    BY DEF IInv, RootLive
  <2>2. ASSUME NEW a \in DOMAIN section
        PROVE  /\ section[a].next \in DOMAIN section
               /\ section[a].previous \in DOMAIN section
               /\ section[section[a].next].previous = a
               /\ section[section[a].previous].next = a
    BY DEF IInv, GoodHeap, Linked
  <2>3. QED
    BY <2>1, <2>2 DEF RingLinked
<1>2. QED
  BY <1>1, HeapInvariant, PTL

(* Every header is well formed: no size or link ever leaves 32 bits.       *)
THEOREM HeadersTyped == Spec => []TypeOK
<1>1. IInv => TypeOK
  BY Numbers DEF IInv, GoodHeap, Typed, RootLive, TypeOK, Address
<1>2. QED
  BY <1>1, HeapInvariant, PTL

-----------------------------------------------------------------------------
(* The second part: what callers rely on.                                  *)

(* The section at a and the next one in the ring, b, become one.           *)
Merged(s, a, b, t) == /\ a \in DOMAIN s /\ b \in DOMAIN s /\ b = s[a].next /\ a # b
                      /\ a + HeaderSize + s[a].size = b
                      /\ s[a].flags = s[b].flags
                      /\ t = Absorb(s, a, b)

Unmarked(a) == [section EXCEPT ![a].flags = 0]

LEMMA GoodNumbers ==
  ASSUME NEW s, GoodHeap(s), NEW a \in DOMAIN s
  PROVE  /\ a \in Nat /\ s[a].size \in Nat /\ s[a].next \in DOMAIN s
         /\ a \in Address /\ s[a].size \in Address
         /\ s[a].flags \in {0, MEMORY_SECTION_ALLOCATED}
         /\ a + HeaderSize + s[a].size <= AddressSpace
  BY Numbers DEF GoodHeap, Typed, Apart, Linked, MemorySection, Address

LEMMA UnmarkedFields ==
  ASSUME GoodHeap(section), NEW a \in DOMAIN section
  PROVE  LET s == Unmarked(a)
         IN /\ GoodHeap(s) /\ DOMAIN s = DOMAIN section
            /\ s[a].flags = 0
            /\ \A x \in DOMAIN s : /\ s[x].next = section[x].next
                                   /\ s[x].previous = section[x].previous
                                   /\ s[x].size = section[x].size
                                   /\ x # a => s[x].flags = section[x].flags
<1>1. GoodHeap(Unmarked(a)) /\ DOMAIN Unmarked(a) = DOMAIN section
  BY FlagsGood DEF Unmarked
<1>2. \A x \in DOMAIN section : section[x] \in MemorySection
  BY DEF GoodHeap, Typed
<1>3. QED
  BY <1>1, <1>2 DEF Unmarked, MemorySection

(* The two merges of free(), each of which may not take place.             *)
LEMMA FreeInTwoMerges ==
  ASSUME GoodHeap(section), NEW a \in DOMAIN section, FreeSection(a)
  PROVE  LET s == Unmarked(a)
             p == s[a].previous
         IN \E t, m :
              /\ GoodHeap(t) /\ m \in DOMAIN t
              /\ p \in DOMAIN s /\ s[p].next = a
              /\ \/ m = p /\ Merged(s, p, a, t)
                 \/ m = a /\ t = s /\ ~Mergeable(s, p, a)
              /\ \/ Merged(t, m, t[m].next, section')
                 \/ section' = t /\ ~Mergeable(t, m, t[m].next)
<1> DEFINE s == Unmarked(a)
           p == s[a].previous
           backward == Mergeable(s, p, a)
           t == IF backward THEN Absorb(s, p, a) ELSE s
           m == IF backward THEN p ELSE a
<1>1. GoodHeap(s) /\ a \in DOMAIN s
  BY UnmarkedFields
<1>2. p \in DOMAIN s /\ s[p].next = a
  <2>1. /\ \A x \in DOMAIN s : s[x].previous \in DOMAIN s
        /\ \A x, y \in DOMAIN s : s[x].next = y <=> s[y].previous = x
    BY <1>1 DEF GoodHeap, Linked
  <2> HIDE DEF s
  <2>2. QED
    BY <1>1, <2>1
<1>3. section' = IF Mergeable(t, m, t[m].next) THEN Absorb(t, m, t[m].next) ELSE t
  BY DEF FreeSection, Unmarked
<1> HIDE DEF s, p
<1>4. \/ m = p /\ Merged(s, p, a, t)
      \/ m = a /\ t = s /\ ~Mergeable(s, p, a)
  <2>1. CASE backward
    <3>1. p + HeaderSize + s[p].size = a /\ p # a /\ s[p].flags = s[a].flags
      BY <1>1, <1>2, <2>1, MergeableAdjacent
    <3>2. QED
      BY <1>1, <1>2, <2>1, <3>1 DEF Merged
  <2>2. CASE ~backward
    BY <2>2
  <2>3. QED
    BY <2>1, <2>2
<1>5. GoodHeap(t) /\ m \in DOMAIN t
  <2>1. CASE backward
    <3>1. Merged(s, p, a, t) /\ m = p
      BY <1>1, <1>2, <2>1, MergeableAdjacent DEF Merged
    <3>2. GoodHeap(t)
      BY <1>1, <3>1, AbsorbGood DEF Merged
    <3>3. DOMAIN t = DOMAIN s \ {a}
      BY <2>1 DEF Absorb
    <3>4. QED
      BY <1>2, <3>1, <3>2, <3>3 DEF Merged
  <2>2. CASE ~backward
    BY <1>1, <2>2
  <2>3. QED
    BY <2>1, <2>2
<1> HIDE DEF t, m
<1>6. t[m].next \in DOMAIN t
  BY <1>5 DEF GoodHeap, Linked
<1>7. \/ Merged(t, m, t[m].next, section')
      \/ section' = t /\ ~Mergeable(t, m, t[m].next)
  BY <1>3, <1>5, <1>6, MergeableAdjacent DEF Merged
<1>8. QED
  BY <1>2, <1>4, <1>5, <1>7 DEF s, p

(* What a merge does, as AbsorbFields has it.                              *)
MergeEffect(s, a, b, t) ==
  /\ GoodHeap(t) /\ DOMAIN t = DOMAIN s \ {b}
  /\ a \in DOMAIN s /\ b \in DOMAIN s /\ a # b /\ s[a].next = b
  /\ a + HeaderSize + s[a].size = b /\ s[a].flags = s[b].flags
  /\ t[a].size = s[a].size + HeaderSize + s[b].size
  /\ a + HeaderSize + t[a].size = b + HeaderSize + s[b].size
  /\ t[a].next = s[b].next
  /\ \A x \in DOMAIN t : t[x].flags = s[x].flags
  /\ \A x \in DOMAIN t : x # a => t[x].size = s[x].size /\ t[x].next = s[x].next

LEMMA MergedFields ==
  ASSUME NEW s, GoodHeap(s), NEW a, NEW b, NEW t, Merged(s, a, b, t)
  PROVE  MergeEffect(s, a, b, t)
<1>1. a \in DOMAIN s /\ b \in DOMAIN s /\ b = s[a].next /\ a # b
      /\ a + HeaderSize + s[a].size = b /\ s[a].flags = s[b].flags /\ t = Absorb(s, a, b)
  BY DEF Merged
<1>2. GoodHeap(t)
  BY <1>1, AbsorbGood
<1>3. /\ DOMAIN t = DOMAIN s \ {b}
      /\ t[a].size = s[a].size + HeaderSize + s[b].size
      /\ t[a].next = s[b].next
      /\ \A x \in DOMAIN t : t[x].flags = s[x].flags
      /\ \A x \in DOMAIN t : x # a => t[x].size = s[x].size /\ t[x].next = s[x].next
  BY <1>1, AbsorbFields
<1>4. a \in Nat /\ s[a].size \in Nat /\ b \in Nat /\ s[b].size \in Nat
  BY <1>1, GoodNumbers
<1>5. a + HeaderSize + t[a].size = b + HeaderSize + s[b].size
  BY <1>1, <1>3, <1>4, Numbers
<1>6. QED
  BY <1>1, <1>2, <1>3, <1>5 DEF MergeEffect
-----------------------------------------------------------------------------
(* What the two halves of a division hold.                                 *)
LEMMA DivideFields ==
  ASSUME GoodHeap(section), NEW a \in DOMAIN section,
         NEW size \in Address, size # 0, size <= section[a].size,
         Divisible(a, size), Divide(a, size)
  PROVE  LET r == a + HeaderSize + size
             t == section'
         IN /\ DOMAIN t = DOMAIN section \cup {r} /\ r \notin DOMAIN section
            /\ t[a].size = size /\ t[a].flags = MEMORY_SECTION_ALLOCATED /\ t[a].next = r
            /\ t[r].flags = 0 /\ t[r].next = section[a].next
            /\ t[r].size = section[a].size - size - HeaderSize
            /\ r + HeaderSize + t[r].size = a + HeaderSize + section[a].size
            /\ t[r].size \in Nat
            /\ \A x \in DOMAIN section : x # a => /\ t[x].size = section[x].size
                                                 /\ t[x].flags = section[x].flags
                                                 /\ t[x].next = section[x].next
<1> DEFINE r == a + HeaderSize + size
           t == section'
<1>1. /\ DOMAIN t = DOMAIN section \cup {r} /\ r \notin DOMAIN section
      /\ root_memory_section' = r /\ GoodHeap(t)
  BY DivideGood
<1>2. Plus(Plus(a, HeaderSize), size) = r
  BY <1>1 DEF Divide
<1>3. t = [x \in DOMAIN section \cup {r} |->
             IF x = r
             THEN [previous |-> a, next |-> section[a].next, flags |-> 0,
                   size |-> section[a].size - size - HeaderSize]
             ELSE [previous |-> IF x = section[a].next THEN r ELSE section[x].previous,
                   next  |-> IF x = a THEN r ELSE section[x].next,
                   size  |-> IF x = a THEN size ELSE section[x].size,
                   flags |-> IF x = a THEN MEMORY_SECTION_ALLOCATED ELSE section[x].flags]]
  BY <1>2 DEF Divide
<1>4. a # r
  BY <1>1
<1> HIDE DEF t
<1>5. t[r] = [previous |-> a, next |-> section[a].next, flags |-> 0,
              size |-> section[a].size - size - HeaderSize]
  BY <1>3
<1>6. \A x \in DOMAIN section :
         t[x] = [previous |-> IF x = section[a].next THEN r ELSE section[x].previous,
                 next  |-> IF x = a THEN r ELSE section[x].next,
                 size  |-> IF x = a THEN size ELSE section[x].size,
                 flags |-> IF x = a THEN MEMORY_SECTION_ALLOCATED ELSE section[x].flags]
  BY <1>1, <1>3
<1>7. a \in Nat /\ section[a].size \in Nat /\ size \in Nat /\ t[r].size \in Nat
  BY <1>1, GoodNumbers, Numbers DEF Address
<1>8. r + HeaderSize + t[r].size = a + HeaderSize + section[a].size
  BY <1>5, <1>7, Numbers
<1>9. QED
  BY <1>1, <1>5, <1>6, <1>7, <1>8 DEF t

(* What init_memory() does with one descriptor of the memory map.          *)
LEMMA RegionFields ==
  ASSUME IInv, InitMemoryRegion
  PROVE  LET i == memory_region_descriptor_index
             a == SectionAddress(Descriptors[i])
             t == section'
         IN /\ ~Booted /\ i \in Nat /\ i' = i + 1
            /\ \/ i \notin HeapDescriptors /\ t = section
               \/ /\ i \in HeapDescriptors /\ DOMAIN t = DOMAIN section \cup {a}
                  /\ a \notin DOMAIN section
                  /\ t[a].flags = 0 /\ a + HeaderSize + t[a].size = SectionEnd(Descriptors[i])
                  /\ a \in Nat /\ t[a].size \in Nat
                  /\ \A x \in DOMAIN section : /\ t[x].size = section[x].size
                                               /\ t[x].flags = section[x].flags
<1> DEFINE i == memory_region_descriptor_index
           d == Descriptors[i]
           a == SectionAddress(d)
           size == SectionEnd(d) - a - HeaderSize
           t == section'
<1>1. /\ ~Booted /\ i' = i + 1 /\ i \in Nat /\ i \in DOMAIN Descriptors
  BY MemoryAssumption DEF InitMemoryRegion, Booted, IInv
<1>2. CASE ~InHeap(d)
  BY <1>1, <1>2 DEF InitMemoryRegion, HeapDescriptors
<1>3. CASE InHeap(d)
  <2>1. i \in HeapDescriptors
    BY <1>1, <1>3 DEF HeapDescriptors
  <2>2. /\ a \in HeapBase .. AddressSpace - 1 /\ size \in Address
        /\ a + HeaderSize + size = SectionEnd(d) /\ SectionEnd(d) <= AddressSpace
    BY <2>1, DescriptorSection
  <2>3. AddSection(a, size)
    BY <1>3 DEF InitMemoryRegion
  <2>4. ASSUME a \in DOMAIN section PROVE FALSE
    <3>1. PICK j \in HeapDescriptors :
             /\ j < i
             /\ a = SectionAddress(Descriptors[j])
             /\ a + HeaderSize + section[a].size = SectionEnd(Descriptors[j])
      BY <1>1, <2>4 DEF IInv, Unread
    <3>2. i # j
      BY <1>1, <3>1, DescriptorSection
    <3>3. \/ SectionEnd(Descriptors[i]) <= SectionAddress(Descriptors[j])
          \/ SectionEnd(Descriptors[j]) <= SectionAddress(Descriptors[i])
      BY <2>1, <3>2, MemoryAssumption
    <3>4. section[a].size \in Nat
      BY <2>4, GoodNumbers DEF IInv
    <3>5. QED
      BY <2>2, <3>1, <3>3, <3>4, Numbers DEF Address
  <2> HIDE DEF a, size
  <2>5. CASE root_memory_section = NULL
    <3>1. /\ DOMAIN section = {}
          /\ t = [x \in {a} |-> [previous |-> a, next |-> a, size |-> size, flags |-> 0]]
      BY <2>3, <2>5 DEF AddSection, IInv, RootLive
    <3>2. DOMAIN t = {a} /\ t[a] = [previous |-> a, next |-> a, size |-> size, flags |-> 0]
      BY <3>1
    <3>3. QED
      BY <1>1, <2>1, <2>2, <3>1, <3>2, Numbers DEF a, Address
  <2>6. CASE root_memory_section # NULL
    <3> DEFINE root == root_memory_section
               last == section[root].previous
    <3>1. t = [x \in DOMAIN section \cup {a} |->
                IF x = a
                THEN [previous |-> last, next |-> root, size |-> size, flags |-> 0]
                ELSE [previous |-> IF x = root THEN a ELSE section[x].previous,
                      next  |-> IF x = last THEN a ELSE section[x].next,
                      size  |-> section[x].size,
                      flags |-> section[x].flags]]
      BY <2>3, <2>6 DEF AddSection
    <3> HIDE DEF root, last
    <3> HIDE DEF t
    <3>2. /\ DOMAIN t = DOMAIN section \cup {a}
          /\ t[a].size = size /\ t[a].flags = 0
          /\ \A x \in DOMAIN section : /\ t[x].size = section[x].size
                                       /\ t[x].flags = section[x].flags
      BY <2>4, <3>1
    <3>3. QED
      BY <1>1, <2>1, <2>2, <2>4, <3>2, Numbers DEF a, Address, t
  <2>7. QED
    BY <2>5, <2>6
<1>4. QED
  BY <1>2, <1>3

(* What malloc() finds.                                                    *)
LEMMA MallocTakes ==
  ASSUME IInv, NEW size \in RequestSizes, Malloc(size)
  PROVE  /\ size \in Address /\ size # 0 /\ Booted
         /\ UNCHANGED memory_region_descriptor_index
         /\ \E a \in DOMAIN section :
              /\ section[a].flags = 0 /\ size <= section[a].size
              /\ \/ Divisible(a, size) /\ Divide(a, size)
                 \/ section' = [section EXCEPT ![a].flags = MEMORY_SECTION_ALLOCATED]
<1>1. PICK k \in Lap :
        /\ Fits(Walk[k], size)
        /\ IF Divisible(Walk[k], size)
           THEN Divide(Walk[k], size) ELSE TakeWhole(Walk[k])
  BY DEF Malloc
<1> DEFINE a == Walk[k]
<1> HIDE DEF a
<1>2. /\ a \in DOMAIN section /\ section[a].flags = 0 /\ size <= section[a].size
      /\ IF Divisible(a, size) THEN Divide(a, size) ELSE TakeWhole(a)
  BY <1>1 DEF Fits, a
<1>3. QED
  BY <1>2, Numbers DEF Malloc, TakeWhole

(* A section marked allocated keeps its place.                             *)
LEMMA MarkedFields ==
  ASSUME GoodHeap(section), NEW a \in DOMAIN section,
         section' = [section EXCEPT ![a].flags = MEMORY_SECTION_ALLOCATED]
  PROVE  /\ DOMAIN section' = DOMAIN section
         /\ section'[a].flags = MEMORY_SECTION_ALLOCATED
         /\ \A x \in DOMAIN section : /\ section'[x].next = section[x].next
                                      /\ section'[x].size = section[x].size
                                      /\ x # a => section'[x].flags = section[x].flags
<1>1. \A x \in DOMAIN section : section[x] \in MemorySection
  BY DEF GoodHeap, Typed
<1>2. QED
  BY <1>1 DEF MemorySection
-----------------------------------------------------------------------------
(* z is a byte of some section of s; of a region read so far.              *)
HasByte(s, z) == \E x \in DOMAIN s : x <= z /\ z < x + HeaderSize + s[x].size

ReadByte(z) == \E i \in HeapDescriptors :
                 /\ i < memory_region_descriptor_index
                 /\ SectionAddress(Descriptors[i]) <= z /\ z < SectionEnd(Descriptors[i])

(* The sections hold exactly the bytes of the regions read so far.         *)
Tiled == \A z \in Nat : HasByte(section, z) <=> ReadByte(z)

EndsMeet(s) ==
  \A a \in DOMAIN s :
     \/ a + HeaderSize + s[a].size \in DOMAIN s
     \/ \E i \in HeapDescriptors : a + HeaderSize + s[a].size = SectionEnd(Descriptors[i])

SameBytes(s, t) == /\ \A z \in Nat : HasByte(t, z) <=> HasByte(s, z)
                   /\ EndsMeet(s) => EndsMeet(t)

LEMMA MergeKeepsBytes ==
  ASSUME NEW s, GoodHeap(s), NEW a, NEW b, NEW t, Merged(s, a, b, t)
  PROVE  SameBytes(s, t)
<1>0. MergeEffect(s, a, b, t)
  BY MergedFields
<1>1. /\ DOMAIN t = DOMAIN s \ {b}
      /\ a \in DOMAIN s /\ b \in DOMAIN s /\ a # b
      /\ a + HeaderSize + s[a].size = b
      /\ a + HeaderSize + t[a].size = b + HeaderSize + s[b].size
      /\ \A x \in DOMAIN t : x # a => t[x].size = s[x].size
  BY <1>0 DEF MergeEffect
<1>2. \A x \in DOMAIN s : x \in Nat /\ s[x].size \in Nat
  BY GoodNumbers
<1>3. t[a].size \in Nat
  BY <1>0, GoodNumbers DEF MergeEffect
<1>4. ASSUME NEW z \in Nat PROVE HasByte(t, z) <=> HasByte(s, z)
  <2>1. ASSUME NEW x \in DOMAIN t, x <= z, z < x + HeaderSize + t[x].size
        PROVE  HasByte(s, z)
    <3>1. CASE x # a
      BY <1>1, <2>1, <3>1 DEF HasByte
    <3>2. CASE x = a /\ z < b
      BY <1>1, <2>1, <3>2 DEF HasByte
    <3>3. CASE x = a /\ b <= z
      BY <1>1, <2>1, <3>3 DEF HasByte
    <3>4. QED
      BY <1>1, <1>2, <3>1, <3>2, <3>3
  <2>2. ASSUME NEW x \in DOMAIN s, x <= z, z < x + HeaderSize + s[x].size
        PROVE  HasByte(t, z)
    <3>1. CASE x # a /\ x # b
      BY <1>1, <2>2, <3>1 DEF HasByte
    <3>2. CASE x = a
      <4>1. z < a + HeaderSize + t[a].size
        BY <1>1, <1>2, <1>3, <2>2, <3>2, Numbers
      <4>2. QED
        BY <1>1, <2>2, <3>2, <4>1 DEF HasByte
    <3>3. CASE x = b
      <4>1. a <= z
        BY <1>1, <1>2, <2>2, <3>3, Numbers
      <4>2. QED
        BY <1>1, <2>2, <3>3, <4>1 DEF HasByte
    <3>4. QED
      BY <3>1, <3>2, <3>3
  <2>3. QED
    BY <2>1, <2>2 DEF HasByte
<1>5. ASSUME EndsMeet(s) PROVE EndsMeet(t)
  <2>1. ASSUME NEW x \in DOMAIN t
        PROVE  \/ x + HeaderSize + t[x].size \in DOMAIN t
               \/ \E i \in HeapDescriptors :
                    x + HeaderSize + t[x].size = SectionEnd(Descriptors[i])
    <3>1. CASE x = a
      <4>1. b + HeaderSize + s[b].size # b
        BY <1>1, <1>2, Numbers
      <4>2. QED
        BY <1>1, <1>5, <3>1, <4>1 DEF EndsMeet
    <3>2. CASE x # a
      <4>1. x + HeaderSize + s[x].size # b
        <5>1. /\ x < a => x + HeaderSize + s[x].size <= a
              /\ a < x => a + HeaderSize + s[a].size <= x
          BY <1>1 DEF GoodHeap, Apart
        <5>2. QED
          BY <1>1, <1>2, <3>2, <5>1, Numbers
      <4>2. QED
        BY <1>1, <1>5, <3>2, <4>1 DEF EndsMeet
    <3>3. QED
      BY <3>1, <3>2
  <2>2. QED
    BY <2>1 DEF EndsMeet
<1>6. QED
  BY <1>4, <1>5 DEF SameBytes

LEMMA FreeKeepsBytes ==
  ASSUME GoodHeap(section), NEW a \in DOMAIN section, FreeSection(a)
  PROVE  SameBytes(section, section')
<1> DEFINE s == Unmarked(a)
           p == s[a].previous
<1>1. SameBytes(section, s) /\ GoodHeap(s)
  BY UnmarkedFields DEF SameBytes, HasByte, EndsMeet
<1>2. PICK t, m :
        /\ GoodHeap(t) /\ m \in DOMAIN t
        /\ \/ m = p /\ Merged(s, p, a, t)
           \/ m = a /\ t = s /\ ~Mergeable(s, p, a)
        /\ \/ Merged(t, m, t[m].next, section')
           \/ section' = t /\ ~Mergeable(t, m, t[m].next)
  BY FreeInTwoMerges
<1> HIDE DEF s, p
<1>3. SameBytes(s, t)
  <2>1. SameBytes(s, s)
    BY DEF SameBytes
  <2>2. QED
    BY <1>1, <1>2, <2>1, MergeKeepsBytes
<1>4. SameBytes(t, section')
  <2>1. SameBytes(t, t)
    BY DEF SameBytes
  <2>2. QED
    BY <1>2, <2>1, MergeKeepsBytes
<1>5. QED
  BY <1>1, <1>3, <1>4 DEF SameBytes

LEMMA MallocKeepsBytes ==
  ASSUME IInv, NEW size \in RequestSizes, Malloc(size)
  PROVE  SameBytes(section, section')
<1>1. size \in Address /\ size # 0
  BY MallocTakes
<1>2. PICK a \in DOMAIN section :
        /\ section[a].flags = 0 /\ size <= section[a].size
        /\ \/ Divisible(a, size) /\ Divide(a, size)
           \/ section' = [section EXCEPT ![a].flags = MEMORY_SECTION_ALLOCATED]
  BY MallocTakes
<1>3. CASE section' = [section EXCEPT ![a].flags = MEMORY_SECTION_ALLOCATED]
  BY <1>2, <1>3, MarkedFields DEF SameBytes, HasByte, EndsMeet, IInv
<1>4. CASE Divisible(a, size) /\ Divide(a, size)
  <2> DEFINE r == a + HeaderSize + size
             t == section'
             s == section
  <2>1. /\ DOMAIN t = DOMAIN s \cup {r} /\ r \notin DOMAIN s
        /\ t[a].size = size
        /\ r + HeaderSize + t[r].size = a + HeaderSize + s[a].size
        /\ t[r].size \in Nat
        /\ \A x \in DOMAIN s : x # a => t[x].size = s[x].size
    BY <1>1, <1>2, <1>4, DivideFields DEF IInv
  <2>2. \A x \in DOMAIN s : x \in Nat /\ s[x].size \in Nat
    BY GoodNumbers DEF IInv
  <2>3. size \in Nat
    BY <1>1, Numbers DEF Address
  <2> DEFINE last == a + HeaderSize + s[a].size
  <2>4. r \in Nat /\ a <= r /\ r < last /\ last \in Nat
    BY <2>1, <2>2, <2>3, Numbers
  <2> HIDE DEF t, s
  <2>5. ASSUME NEW z \in Nat PROVE HasByte(t, z) <=> HasByte(s, z)
    <3>1. ASSUME NEW x \in DOMAIN t, x <= z, z < x + HeaderSize + t[x].size
          PROVE  HasByte(s, z)
      <4>1. CASE x # a /\ x # r
        BY <2>1, <3>1, <4>1 DEF HasByte
      <4>2. CASE x = a \/ x = r
        <5>1. a <= z /\ z < last
          BY <1>2, <2>1, <2>2, <2>4, <3>1, <4>2 DEF s
        <5>2. QED
          BY <1>2, <5>1 DEF HasByte, s
      <4>3. QED
        BY <4>1, <4>2
    <3>2. ASSUME NEW x \in DOMAIN s, x <= z, z < x + HeaderSize + s[x].size
          PROVE  HasByte(t, z)
      <4>1. CASE x # a
        BY <2>1, <3>2, <4>1 DEF HasByte
      <4>2. CASE x = a /\ z < r
        BY <2>1, <3>2, <4>2 DEF HasByte
      <4>3. CASE x = a /\ r <= z
        BY <2>1, <3>2, <4>3 DEF HasByte
      <4>4. QED
        BY <2>4, <4>1, <4>2, <4>3
    <3>3. QED
      BY <3>1, <3>2 DEF HasByte
  <2>6. ASSUME EndsMeet(s) PROVE EndsMeet(t)
    <3>1. ASSUME NEW x \in DOMAIN t
          PROVE  \/ x + HeaderSize + t[x].size \in DOMAIN t
                 \/ \E i \in HeapDescriptors :
                      x + HeaderSize + t[x].size = SectionEnd(Descriptors[i])
      <4>1. CASE x = a
        BY <2>1, <4>1
      <4>2. CASE x = r
        <5>1. \/ last \in DOMAIN s
              \/ \E i \in HeapDescriptors : last = SectionEnd(Descriptors[i])
          BY <1>2, <2>6 DEF EndsMeet, s
        <5>2. QED
          BY <2>1, <4>2, <5>1
      <4>3. CASE x # a /\ x # r
        BY <2>1, <2>6, <4>3 DEF EndsMeet
      <4>4. QED
        BY <4>1, <4>2, <4>3
    <3>2. QED
      BY <3>1 DEF EndsMeet
  <2>7. QED
    BY <2>5, <2>6 DEF SameBytes, t, s
<1>5. QED
  BY <1>2, <1>3, <1>4

LEMMA RegionAddsItsBytes ==
  ASSUME IInv, InitMemoryRegion
  PROVE  /\ Tiled => Tiled'
         /\ EndsMeet(section) => EndsMeet(section')
<1> DEFINE i == memory_region_descriptor_index
           a == SectionAddress(Descriptors[i])
           t == section'
<1>1. ~Booted /\ i \in Nat /\ i' = i + 1
  BY RegionFields
<1>2. HeapDescriptors \subseteq Nat
  BY DescriptorSection
<1>3. CASE i \notin HeapDescriptors
  <2>1. section' = section
    BY <1>3, RegionFields
  <2>2. \A z : ReadByte(z) <=> ReadByte(z)'
    BY <1>1, <1>2, <1>3 DEF ReadByte
  <2>3. QED
    BY <2>1, <2>2 DEF Tiled, HasByte
<1>4. CASE i \in HeapDescriptors
  <2>1. /\ DOMAIN t = DOMAIN section \cup {a} /\ a \notin DOMAIN section
        /\ a + HeaderSize + t[a].size = SectionEnd(Descriptors[i])
        /\ \A x \in DOMAIN section : t[x].size = section[x].size
    BY <1>4, RegionFields
  <2> HIDE DEF t
  <2>2. ASSUME NEW z \in Nat, HasByte(section, z) <=> ReadByte(z)
        PROVE  HasByte(t, z) <=> ReadByte(z)'
    <3>1. HasByte(t, z) <=> HasByte(section, z) \/ (a <= z /\ z < SectionEnd(Descriptors[i]))
      BY <2>1 DEF HasByte
    <3>2. ReadByte(z)' <=> ReadByte(z) \/ (a <= z /\ z < SectionEnd(Descriptors[i]))
      BY <1>1, <1>2, <1>4 DEF ReadByte
    <3>3. QED
      BY <2>2, <3>1, <3>2
  <2>3. EndsMeet(section) => EndsMeet(t)
    BY <1>4, <2>1 DEF EndsMeet
  <2>4. Tiled => Tiled'
    BY <2>2 DEF Tiled, HasByte, t
  <2>5. QED
    BY <2>3, <2>4 DEF t
<1>5. QED
  BY <1>3, <1>4

(* The sections hold the bytes of the regions, all of them and no others.  *)
THEOREM HeapTiled == Spec => [](Tiled /\ EndsMeet(section))
<1>1. Init => Tiled /\ EndsMeet(section)
  <2>1. ASSUME NEW i \in HeapDescriptors PROVE ~(i < 1)
    BY DescriptorSection
  <2>2. QED
    BY <2>1 DEF Init, Tiled, HasByte, ReadByte, EndsMeet
<1>2. IInv /\ Tiled /\ EndsMeet(section) /\ [Next]_vars => (Tiled /\ EndsMeet(section))'
  <2> SUFFICES ASSUME IInv, Tiled, EndsMeet(section), [Next]_vars
               PROVE  Tiled' /\ EndsMeet(section')
    BY DEF EndsMeet
  <2>1. ASSUME SameBytes(section, section'), UNCHANGED memory_region_descriptor_index
        PROVE  Tiled' /\ EndsMeet(section')
    BY <2>1 DEF SameBytes, Tiled, HasByte, ReadByte
  <2>2. CASE InitMemoryRegion
    BY <2>2, RegionAddsItsBytes
  <2>3. ASSUME NEW size \in RequestSizes, Malloc(size)
        PROVE  Tiled' /\ EndsMeet(section')
    BY <2>1, <2>3, MallocKeepsBytes, MallocTakes
  <2>4. ASSUME NEW a \in DOMAIN section, Free(a)
        PROVE  Tiled' /\ EndsMeet(section')
    BY <2>1, <2>4, FreeKeepsBytes DEF Free, IInv
  <2>5. CASE UNCHANGED vars
    BY <2>1, <2>5 DEF SameBytes, vars
  <2>6. QED
    BY <2>2, <2>3, <2>4, <2>5 DEF Next, MallocFails, DoubleFree
<1>3. QED
  BY <1>1, <1>2, HeapInvariant, PTL DEF Spec

(* No byte of a region is lost by any sequence of malloc() and free().     *)
THEOREM NoByteLost == Spec => []NothingLost
<1>1. Tiled /\ EndsMeet(section) => NothingLost
  <2> SUFFICES ASSUME Tiled, EndsMeet(section) PROVE NothingLost
    OBVIOUS
  <2>1. ASSUME NEW i \in HeapDescriptors, i < memory_region_descriptor_index
        PROVE  \E a \in DOMAIN section :
                 /\ a <= SectionAddress(Descriptors[i])
                 /\ SectionAddress(Descriptors[i]) < a + HeaderSize + section[a].size
    <3> DEFINE z == SectionAddress(Descriptors[i])
    <3>1. z \in Nat /\ z < SectionEnd(Descriptors[i])
      BY DescriptorSection, Numbers DEF Address
    <3>2. ReadByte(z)
      BY <2>1, <3>1 DEF ReadByte
    <3>3. HasByte(section, z)
      BY <3>1, <3>2 DEF Tiled
    <3>4. QED
      BY <3>3 DEF HasByte
  <2>2. QED
    BY <2>1 DEF NothingLost, EndsMeet
<1>2. QED
  BY <1>1, HeapTiled, PTL
-----------------------------------------------------------------------------
(* The section at x is not a free one right before another free one.       *)
CoalescedAt(s, x) ==
  /\ s[x].flags = 0
  /\ s[s[x].next].flags = 0
  /\ x + HeaderSize + s[x].size = s[x].next
  => s[x].next \in RegionStart

CoalescedBut(s, m) == \A x \in DOMAIN s : x # m => CoalescedAt(s, x)

LEMMA NotMergeable ==
  ASSUME NEW s, GoodHeap(s), NEW a \in DOMAIN s, ~Mergeable(s, a, s[a].next), s[a].flags = 0
  PROVE  CoalescedAt(s, a)
<1>1. /\ a \in Nat /\ s[a].size \in Nat /\ s[a].next \in DOMAIN s
      /\ s[a].next \in Nat /\ s[a].next < AddressSpace
  <2>1. s[a].next \in DOMAIN s
    BY GoodNumbers
  <2>2. s[a].next \in Address
    BY <2>1, GoodNumbers
  <2>3. QED
    BY <2>1, <2>2, GoodNumbers, Numbers DEF Address
<1>2. SUFFICES ASSUME s[s[a].next].flags = 0, a + HeaderSize + s[a].size = s[a].next
               PROVE  FALSE
  BY DEF CoalescedAt
<1>3. Plus(Plus(a, HeaderSize), s[a].size) = s[a].next
  BY <1>1, <1>2, Numbers DEF Plus
<1>4. QED
  BY <1>2, <1>3 DEF Mergeable, End

LEMMA MergeKeepsCoalesced ==
  ASSUME NEW s, GoodHeap(s), NEW a, NEW b, NEW t, Merged(s, a, b, t),
         NEW m, CoalescedBut(s, m), m = a \/ m = b
  PROVE  CoalescedBut(t, a) /\ (m = a => CoalescedBut(t, NULL))
<1>1. MergeEffect(s, a, b, t)
  BY MergedFields
<1>2. /\ DOMAIN t = DOMAIN s \ {b} /\ a \in DOMAIN s /\ b \in DOMAIN s /\ a # b /\ s[a].next = b
      /\ s[a].flags = s[b].flags
      /\ a + HeaderSize + t[a].size = b + HeaderSize + s[b].size
      /\ t[a].next = s[b].next
      /\ \A x \in DOMAIN t : t[x].flags = s[x].flags
      /\ \A x \in DOMAIN t : x # a => t[x].size = s[x].size /\ t[x].next = s[x].next
  BY <1>1 DEF MergeEffect
<1>3. GoodHeap(t)
  BY <1>1 DEF MergeEffect
<1>4. \A x \in DOMAIN t : t[x].next \in DOMAIN t
  BY <1>3, GoodNumbers
<1>5. ASSUME NEW x \in DOMAIN t, x # a
      PROVE  CoalescedAt(t, x)
  <2>1. CoalescedAt(s, x)
    BY <1>2, <1>5 DEF CoalescedBut
  <2>2. t[x].flags = s[x].flags /\ t[x].size = s[x].size /\ t[x].next = s[x].next
    BY <1>2, <1>5
  <2>3. t[t[x].next].flags = s[t[x].next].flags
    BY <1>2, <1>4
  <2>4. QED
    BY <2>1, <2>2, <2>3 DEF CoalescedAt
<1>6. ASSUME m = a PROVE CoalescedAt(t, a)
  <2>1. CoalescedAt(s, b)
    BY <1>2, <1>6 DEF CoalescedBut
  <2>2. t[a].flags = s[b].flags
    BY <1>2
  <2>3. t[t[a].next].flags = s[t[a].next].flags
    BY <1>2, <1>4
  <2>4. QED
    BY <1>2, <2>1, <2>2, <2>3 DEF CoalescedAt
<1>7. QED
  BY <1>2, <1>5, <1>6 DEF CoalescedBut

LEMMA FreeCoalesces ==
  ASSUME GoodHeap(section), Coalesced, NEW a \in DOMAIN section, FreeSection(a)
  PROVE  CoalescedBut(section', NULL)
<1> DEFINE s == Unmarked(a)
           p == s[a].previous
<1>1. /\ GoodHeap(s) /\ DOMAIN s = DOMAIN section /\ s[a].flags = 0
      /\ \A x \in DOMAIN s : /\ s[x].next = section[x].next
                             /\ s[x].size = section[x].size
                             /\ x # a => s[x].flags = section[x].flags
  BY UnmarkedFields
<1>2. PICK t, m :
        /\ GoodHeap(t) /\ m \in DOMAIN t
        /\ p \in DOMAIN s /\ s[p].next = a
        /\ \/ m = p /\ Merged(s, p, a, t)
           \/ m = a /\ t = s /\ ~Mergeable(s, p, a)
        /\ \/ Merged(t, m, t[m].next, section')
           \/ section' = t /\ ~Mergeable(t, m, t[m].next)
  BY FreeInTwoMerges
<1>3. \A x \in DOMAIN s : s[x].next = a => x = p
  <2>1. \A x, y \in DOMAIN s : s[x].next = y <=> s[y].previous = x
    BY <1>1 DEF GoodHeap, Linked
  <2>2. QED
    BY <1>1, <2>1
<1> HIDE DEF s, p
<1>4. ASSUME NEW x \in DOMAIN s, x # a, x # p PROVE CoalescedAt(s, x)
  <2>1. s[x].next \in DOMAIN s /\ s[x].next # a
    BY <1>1, <1>3, <1>4, GoodNumbers
  <2>2. QED
    BY <1>1, <1>4, <2>1 DEF Coalesced, CoalescedAt
<1>5. CoalescedBut(t, m) /\ t[m].flags = 0
  <2>1. CASE m = p /\ Merged(s, p, a, t)
    <3>1. MergeEffect(s, p, a, t)
      BY <1>1, <2>1, MergedFields
    <3>2. t[m].flags = 0
      BY <1>1, <2>1, <3>1 DEF MergeEffect
    <3>3. DOMAIN t = DOMAIN s \ {a} /\ GoodHeap(t)
      BY <3>1 DEF MergeEffect
    <3>4. ASSUME NEW x \in DOMAIN t, x # p PROVE CoalescedAt(t, x)
      <4>1. CoalescedAt(s, x)
        BY <1>4, <3>3, <3>4
      <4>2. /\ t[x].flags = s[x].flags /\ t[x].size = s[x].size /\ t[x].next = s[x].next
            /\ t[x].next \in DOMAIN t
        BY <3>1, <3>3, <3>4, GoodNumbers DEF MergeEffect
      <4>3. t[t[x].next].flags = s[t[x].next].flags
        BY <3>1, <4>2 DEF MergeEffect
      <4>4. QED
        BY <4>1, <4>2, <4>3 DEF CoalescedAt
    <3>5. QED
      BY <2>1, <3>2, <3>4 DEF CoalescedBut
  <2>2. CASE m = a /\ t = s /\ ~Mergeable(s, p, a)
    <3>1. CoalescedAt(s, p)
      <4>1. CASE s[p].flags = 0
        BY <1>1, <1>2, <2>2, <4>1, NotMergeable
      <4>2. CASE s[p].flags # 0
        BY <4>2 DEF CoalescedAt
      <4>3. QED
        BY <4>1, <4>2
    <3>2. QED
      BY <1>1, <1>4, <2>2, <3>1 DEF CoalescedBut
  <2>3. QED
    BY <1>2, <2>1, <2>2
<1>6. CASE Merged(t, m, t[m].next, section')
  BY <1>2, <1>5, <1>6, MergeKeepsCoalesced
<1>7. CASE section' = t /\ ~Mergeable(t, m, t[m].next)
  <2>1. CoalescedAt(t, m)
    BY <1>2, <1>5, <1>7, NotMergeable
  <2>2. QED
    BY <1>5, <1>7, <2>1 DEF CoalescedBut
<1>8. QED
  BY <1>2, <1>6, <1>7

LEMMA MallocKeepsCoalesced ==
  ASSUME IInv, Coalesced, NEW size \in RequestSizes, Malloc(size)
  PROVE  CoalescedBut(section', NULL)
<1>1. size \in Address /\ size # 0 /\ MEMORY_SECTION_ALLOCATED # 0
  BY MallocTakes DEF MEMORY_SECTION_ALLOCATED
<1>2. PICK a \in DOMAIN section :
        /\ section[a].flags = 0 /\ size <= section[a].size
        /\ \/ Divisible(a, size) /\ Divide(a, size)
           \/ section' = [section EXCEPT ![a].flags = MEMORY_SECTION_ALLOCATED]
  BY MallocTakes
<1>3. \A x \in DOMAIN section : section[x].next \in DOMAIN section
  BY GoodNumbers DEF IInv
<1>4. CASE section' = [section EXCEPT ![a].flags = MEMORY_SECTION_ALLOCATED]
  <2>1. /\ DOMAIN section' = DOMAIN section
        /\ section'[a].flags # 0
        /\ \A x \in DOMAIN section : /\ section'[x].next = section[x].next
                                     /\ section'[x].size = section[x].size
                                     /\ x # a => section'[x].flags = section[x].flags
    BY <1>1, <1>2, <1>4, MarkedFields DEF IInv
  <2>2. QED
    BY <1>3, <2>1 DEF Coalesced, CoalescedBut, CoalescedAt
<1>5. CASE Divisible(a, size) /\ Divide(a, size)
  <2> DEFINE r == a + HeaderSize + size
             t == section'
  <2>1. /\ DOMAIN t = DOMAIN section \cup {r} /\ r \notin DOMAIN section
        /\ t[a].flags # 0
        /\ t[r].flags = 0 /\ t[r].next = section[a].next
        /\ r + HeaderSize + t[r].size = a + HeaderSize + section[a].size
        /\ \A x \in DOMAIN section : x # a => /\ t[x].size = section[x].size
                                             /\ t[x].flags = section[x].flags
                                             /\ t[x].next = section[x].next
    BY <1>1, <1>2, <1>5, DivideFields DEF IInv
  <2> HIDE DEF r, t
  <2>2. ASSUME NEW x \in DOMAIN t PROVE CoalescedAt(t, x)
    <3>1. CASE x = a
      BY <2>1, <3>1 DEF CoalescedAt
    <3>2. CASE x = r
      BY <1>2, <1>3, <2>1, <3>2 DEF CoalescedAt, Coalesced
    <3>3. CASE x # a /\ x # r
      BY <1>3, <2>1, <3>3 DEF CoalescedAt, Coalesced
    <3>4. QED
      BY <3>1, <3>2, <3>3
  <2>3. QED
    BY <2>2 DEF CoalescedBut, t
<1>6. QED
  BY <1>2, <1>4, <1>5

LEMMA RegionKeepsCoalesced ==
  ASSUME IInv, InitMemoryRegion
  PROVE  Coalesced'
<1> DEFINE i == memory_region_descriptor_index
           a == SectionAddress(Descriptors[i])
<1>1. \A x \in DOMAIN section : x \in RegionStart
  BY RegionFields DEF IInv, Unread, RegionStart
<1>2. \A x \in DOMAIN section' : x \in RegionStart
  BY <1>1, RegionFields DEF RegionStart
<1>3. \A x \in DOMAIN section' : section'[x].next \in DOMAIN section'
  <2>1. GoodHeap(section')
    BY InitMemoryRegionGood DEF IInv
  <2>2. QED
    BY <2>1, GoodNumbers
<1>4. QED
  BY <1>2, <1>3 DEF Coalesced

(* After free() no two free neighbours are left unmerged, save regions the *)
(* BIOS reported separately.                                               *)
THEOREM FreeNeighboursMerged == Spec => []Coalesced
<1>1. Init => Coalesced
  BY DEF Init, Coalesced
<1>2. IInv /\ IInv' /\ Coalesced /\ [Next]_vars => Coalesced'
  <2> SUFFICES ASSUME IInv, IInv', Coalesced, [Next]_vars PROVE Coalesced'
    OBVIOUS
  <2>1. GoodHeap(section) /\ GoodHeap(section')
    BY DEF IInv
  <2>2. ASSUME CoalescedBut(section', NULL) PROVE Coalesced'
    <3>1. NULL \notin DOMAIN section'
      BY <2>1, Numbers DEF GoodHeap, Typed, Address
    <3>2. QED
      BY <2>2, <3>1 DEF Coalesced, CoalescedBut, CoalescedAt
  <2>3. CASE InitMemoryRegion
    BY <2>3, RegionKeepsCoalesced
  <2>4. ASSUME NEW size \in RequestSizes, Malloc(size)
        PROVE  Coalesced'
    BY <2>2, <2>4, MallocKeepsCoalesced
  <2>5. ASSUME NEW a \in DOMAIN section, Free(a)
        PROVE  Coalesced'
    BY <2>1, <2>2, <2>5, FreeCoalesces DEF Free
  <2>6. CASE UNCHANGED vars
    BY <2>6 DEF Coalesced, vars
  <2>7. QED
    BY <2>3, <2>4, <2>5, <2>6 DEF Next, MallocFails, DoubleFree
<1>3. QED
  BY <1>1, <1>2, HeapInvariant, PTL DEF Spec
-----------------------------------------------------------------------------
(* The blocks a table of sections grants: Granted is that of section.      *)
Blocks(s) == {x \in DOMAIN s : s[x].flags = MEMORY_SECTION_ALLOCATED}
GrantedIn(s) == [q \in {x + HeaderSize : x \in Blocks(s)} |-> s[q - HeaderSize].size]

LEMMA BlockOf ==
  ASSUME NEW s, GoodHeap(s), NEW q
  PROVE  q \in DOMAIN GrantedIn(s) <=>
           \E x \in Blocks(s) : x \in Nat /\ q = x + HeaderSize /\ q - HeaderSize = x
<1>1. \A x \in Blocks(s) : x \in Nat
  BY GoodNumbers DEF Blocks
<1>2. \A x \in Nat : (x + HeaderSize) - HeaderSize = x
  BY Numbers
<1>3. QED
  BY <1>1, <1>2 DEF GrantedIn

(* Tables with the same allocated sections grant the same blocks.          *)
LEMMA SameBlocks ==
  ASSUME NEW s, NEW t, GoodHeap(s), GoodHeap(t), Blocks(s) = Blocks(t),
         \A x \in Blocks(s) : s[x].size = t[x].size
  PROVE  GrantedIn(s) = GrantedIn(t)
<1>1. \A q \in DOMAIN GrantedIn(s) : s[q - HeaderSize].size = t[q - HeaderSize].size
  BY BlockOf
<1>2. QED
  BY <1>1 DEF GrantedIn

(* One more block: Grant has the same effect.                              *)
GrantsMore(s, t, a) ==
  GrantedIn(t) = [q \in DOMAIN GrantedIn(s) \cup {a + HeaderSize} |->
                    IF q = a + HeaderSize THEN t[a].size ELSE GrantedIn(s)[q]]

LEMMA OneMoreBlock ==
  ASSUME NEW s, NEW t, GoodHeap(s), GoodHeap(t), NEW a \in Nat, a \notin Blocks(s),
         Blocks(t) = Blocks(s) \cup {a},
         \A x \in Blocks(s) : s[x].size = t[x].size
  PROVE  GrantsMore(s, t, a)
<1> DEFINE p == a + HeaderSize
           g == [q \in DOMAIN GrantedIn(s) \cup {p} |->
                           IF q = p THEN t[a].size ELSE GrantedIn(s)[q]]
<1>1. DOMAIN GrantedIn(t) = DOMAIN GrantedIn(s) \cup {p}
  BY DEF GrantedIn
<1>2. ASSUME NEW q \in DOMAIN GrantedIn(t) PROVE GrantedIn(t)[q] = g[q]
  <2>1. PICK x \in Blocks(t) : x \in Nat /\ q = x + HeaderSize /\ q - HeaderSize = x
    BY <1>2, BlockOf
  <2>2. GrantedIn(t)[q] = t[x].size
    BY <1>2, <2>1 DEF GrantedIn
  <2>3. CASE x = a
    BY <1>1, <1>2, <2>1, <2>2, <2>3
  <2>4. CASE x # a
    <3>1. x \in Blocks(s) /\ q # p
      BY <2>1, <2>4, Numbers
    <3>2. q \in DOMAIN GrantedIn(s)
      BY <2>1, <3>1 DEF GrantedIn
    <3>3. GrantedIn(s)[q] = s[x].size
      BY <2>1, <3>2 DEF GrantedIn
    <3>4. QED
      BY <1>1, <1>2, <2>2, <3>1, <3>3
  <2>5. QED
    BY <2>3, <2>4
<1>3. GrantedIn(t) = [q \in DOMAIN GrantedIn(t) |-> GrantedIn(t)[q]]
  BY DEF GrantedIn
<1>4. QED
  BY <1>1, <1>2, <1>3 DEF GrantsMore

(* One block fewer: Reclaim has the same effect.                           *)
LEMMA OneBlockFewer ==
  ASSUME NEW s, NEW t, GoodHeap(s), GoodHeap(t), NEW a \in Blocks(s),
         Blocks(t) = Blocks(s) \ {a},
         \A x \in Blocks(t) : s[x].size = t[x].size
  PROVE  /\ a + HeaderSize \in DOMAIN GrantedIn(s)
         /\ GrantedIn(t) = [q \in DOMAIN GrantedIn(s) \ {a + HeaderSize} |-> GrantedIn(s)[q]]
<1> DEFINE p == a + HeaderSize
<1>1. a \in Nat /\ \A x \in Blocks(s) : x \in Nat
  BY GoodNumbers DEF Blocks
<1>2. p \in DOMAIN GrantedIn(s)
  BY DEF GrantedIn
<1>3. \A x \in Blocks(s) : x + HeaderSize = p => x = a
  BY <1>1, Numbers
<1>4. DOMAIN GrantedIn(t) = DOMAIN GrantedIn(s) \ {p}
  BY <1>3 DEF GrantedIn
<1>5. ASSUME NEW q \in DOMAIN GrantedIn(t) PROVE GrantedIn(t)[q] = GrantedIn(s)[q]
  <2>1. PICK x \in Blocks(t) : x \in Nat /\ q = x + HeaderSize /\ q - HeaderSize = x
    BY <1>5, BlockOf
  <2>2. q \in DOMAIN GrantedIn(s)
    BY <1>4, <1>5
  <2>3. GrantedIn(t)[q] = t[x].size /\ GrantedIn(s)[q] = s[x].size
    BY <1>5, <2>1, <2>2 DEF GrantedIn
  <2>4. QED
    BY <2>1, <2>3
<1>6. GrantedIn(t) = [q \in DOMAIN GrantedIn(t) |-> GrantedIn(t)[q]]
  BY DEF GrantedIn
<1>7. QED
  BY <1>2, <1>4, <1>5, <1>6

(* The blocks of the table of now are those the refinement mapping takes.  *)
LEMMA GrantedBlocks == Granted = GrantedIn(section)
  BY DEF Granted, GrantedIn, Blocks

(* malloc() cuts its block out of a free section or takes all of it.       *)
LEMMA MallocGrants ==
  ASSUME IInv, IInv', Tiled, NEW size \in RequestSizes, Malloc(size)
  PROVE  \E p \in UsableBytes, n \in Address : Allocator!Grant(p, n)
<1> DEFINE s == section
           t == section'
<1>1. size \in Address /\ size # 0 /\ size \in Nat /\ MEMORY_SECTION_ALLOCATED # 0
  BY MallocTakes, Numbers DEF MEMORY_SECTION_ALLOCATED, Address
<1>2. PICK a \in DOMAIN s :
        /\ s[a].flags = 0 /\ size <= s[a].size
        /\ \/ Divisible(a, size) /\ Divide(a, size)
           \/ t = [s EXCEPT ![a].flags = MEMORY_SECTION_ALLOCATED]
  BY MallocTakes
<1>3. GoodHeap(s) /\ GoodHeap(t)
  BY DEF IInv
<1>4. /\ a \in Nat /\ s[a].size \in Nat /\ s[a].size \in Address
      /\ a + HeaderSize + s[a].size <= AddressSpace
  BY <1>3, GoodNumbers
<1>5. /\ a \in DOMAIN t /\ t[a].flags = MEMORY_SECTION_ALLOCATED
      /\ t[a].size \in Address /\ 0 < t[a].size /\ t[a].size <= s[a].size
      /\ \A x \in DOMAIN t : x \notin DOMAIN s => t[x].flags = 0
      /\ DOMAIN s \subseteq DOMAIN t
      /\ \A x \in DOMAIN s : x # a => t[x].flags = s[x].flags /\ t[x].size = s[x].size
  <2>1. CASE Divisible(a, size) /\ Divide(a, size)
    <3> DEFINE r == a + HeaderSize + size
    <3>1. /\ DOMAIN t = DOMAIN s \cup {r}
          /\ t[a].size = size /\ t[a].flags = MEMORY_SECTION_ALLOCATED
          /\ t[r].flags = 0
          /\ \A x \in DOMAIN s : x # a => t[x].size = s[x].size /\ t[x].flags = s[x].flags
      BY <1>1, <1>2, <1>3, <2>1, DivideFields
    <3> HIDE DEF s, t, r
    <3>2. QED
      BY <1>1, <1>2, <3>1
  <2>2. CASE t = [s EXCEPT ![a].flags = MEMORY_SECTION_ALLOCATED]
    <3>1. /\ DOMAIN t = DOMAIN s
          /\ t[a].flags = MEMORY_SECTION_ALLOCATED
          /\ \A x \in DOMAIN s : /\ t[x].size = s[x].size
                                 /\ x # a => t[x].flags = s[x].flags
      BY <1>2, <1>3, <2>2, MarkedFields
    <3> HIDE DEF s, t
    <3>2. QED
      BY <1>1, <1>2, <1>4, <3>1
  <2>3. QED
    BY <1>2, <2>1, <2>2
<1> DEFINE p == a + HeaderSize
           n == t[a].size
<1>6. Blocks(t) = Blocks(s) \cup {a} /\ a \notin Blocks(s)
      /\ \A x \in Blocks(s) : s[x].size = t[x].size
  BY <1>1, <1>2, <1>5 DEF Blocks
<1>7. GrantedIn(t) = [q \in DOMAIN GrantedIn(s) \cup {p} |->
                        IF q = p THEN n ELSE GrantedIn(s)[q]]
  <2> HIDE DEF s, t
  <2>1. GrantsMore(s, t, a)
    BY <1>3, <1>4, <1>6, OneMoreBlock
  <2>2. QED
    BY <2>1 DEF GrantsMore
<1>8. Granted = GrantedIn(s) /\ Granted' = GrantedIn(t)
  BY GrantedBlocks DEF GrantedIn, Blocks, Granted
<1>9. n \in Nat /\ p \in Nat
  BY <1>4, <1>5, Numbers DEF Address
<1>10. ASSUME NEW q \in DOMAIN GrantedIn(s)
       PROVE  p + n <= q \/ q + GrantedIn(s)[q] <= p
  <2>1. PICK x \in Blocks(s) : x \in Nat /\ q = x + HeaderSize /\ q - HeaderSize = x
    BY <1>3, BlockOf
  <2>2. GrantedIn(s)[q] = s[x].size
    BY <2>1 DEF GrantedIn
  <2>3. x \in DOMAIN s /\ x # a
    BY <1>1, <1>2 DEF Blocks
  <2>4. x \in Nat /\ s[x].size \in Nat
    BY <1>3, <2>3, GoodNumbers
  <2>5. /\ x < a => x + HeaderSize + s[x].size <= a
        /\ a < x => a + HeaderSize + s[a].size <= x
    BY <1>2, <1>3, <2>3 DEF GoodHeap, Apart
  <2>6. QED
    <3> HIDE DEF n, s
    <3>1. n <= s[a].size
      BY <1>5 DEF n
    <3>2. q + s[x].size <= p \/ p + n <= q
      BY <1>4, <1>9, <2>1, <2>3, <2>4, <2>5, <3>1, Numbers
    <3>3. QED
      BY <2>2, <3>2
<1>11. ASSUME NEW z \in p .. p + n - 1
       PROVE  z \in UsableBytes
  <2>1. z \in Nat /\ a <= z /\ z < a + HeaderSize + s[a].size
    <3> HIDE DEF n, s
    <3>1. n <= s[a].size
      BY <1>5 DEF n
    <3>2. QED
      BY <1>4, <1>9, <3>1, Numbers
  <2>2. HasByte(section, z)
    BY <1>2, <2>1 DEF HasByte
  <2>3. ReadByte(z)
    BY <2>1, <2>2 DEF Tiled
  <2>4. PICK i \in HeapDescriptors :
          SectionAddress(Descriptors[i]) <= z /\ z < SectionEnd(Descriptors[i])
    BY <2>3 DEF ReadByte
  <2>5. SectionAddress(Descriptors[i]) \in Nat /\ SectionEnd(Descriptors[i]) \in Nat
    BY DescriptorSection, Numbers DEF Address
  <2>6. z \in SectionAddress(Descriptors[i]) .. SectionEnd(Descriptors[i]) - 1
    BY <2>1, <2>4, <2>5
  <2>7. QED
    BY <2>6 DEF UsableBytes
<1>12. p \in UsableBytes
  <2>1. p \in p .. p + n - 1
    BY <1>5, <1>9
  <2>2. QED
    BY <1>11, <2>1
<1>13. Allocator!Grant(p, n)
  BY <1>5, <1>7, <1>8, <1>10, <1>11 DEF Allocator!Grant
<1>14. QED
  BY <1>5, <1>12, <1>13

(* A merge of free sections grants and takes nothing.                      *)
LEMMA MergeKeepsBlocks ==
  ASSUME NEW s, GoodHeap(s), NEW a, NEW b, NEW t, Merged(s, a, b, t), s[a].flags = 0
  PROVE  GoodHeap(t) /\ GrantedIn(t) = GrantedIn(s)
<1>1. MergeEffect(s, a, b, t)
  BY MergedFields
<1>2. MEMORY_SECTION_ALLOCATED # 0
  BY DEF MEMORY_SECTION_ALLOCATED
<1>3. Blocks(t) = Blocks(s)
  BY <1>1, <1>2 DEF MergeEffect, Blocks
<1>4. \A x \in Blocks(s) : s[x].size = t[x].size
  BY <1>1, <1>2, <1>3 DEF MergeEffect, Blocks
<1>5. GoodHeap(t)
  BY <1>1 DEF MergeEffect
<1>6. QED
  BY <1>3, <1>4, <1>5, SameBlocks

(* free() takes back the block of its section and no other.                *)
LEMMA FreeReclaims ==
  ASSUME IInv, IInv', NEW a \in DOMAIN section, Free(a)
  PROVE  \E p \in DOMAIN Granted : Allocator!Reclaim(p)
<1> DEFINE s == Unmarked(a)
           k == s[a].previous
<1>1. /\ GoodHeap(s) /\ DOMAIN s = DOMAIN section /\ s[a].flags = 0
      /\ \A x \in DOMAIN s : /\ s[x].size = section[x].size
                             /\ x # a => s[x].flags = section[x].flags
  BY UnmarkedFields DEF IInv
<1>2. GoodHeap(section) /\ FreeSection(a) /\ a \in Blocks(section)
  BY DEF IInv, Free, Blocks
<1>3. PICK t, m :
        /\ GoodHeap(t) /\ m \in DOMAIN t
        /\ \/ m = k /\ Merged(s, k, a, t)
           \/ m = a /\ t = s /\ ~Mergeable(s, k, a)
        /\ \/ Merged(t, m, t[m].next, section')
           \/ section' = t /\ ~Mergeable(t, m, t[m].next)
  BY <1>2, FreeInTwoMerges
<1> HIDE DEF s, k
<1>4. Blocks(s) = Blocks(section) \ {a} /\ \A x \in Blocks(s) : section[x].size = s[x].size
  BY <1>1 DEF Blocks, MEMORY_SECTION_ALLOCATED
<1>5. /\ a + HeaderSize \in DOMAIN GrantedIn(section)
      /\ GrantedIn(s) = [q \in DOMAIN GrantedIn(section) \ {a + HeaderSize} |-> GrantedIn(section)[q]]
  BY <1>1, <1>2, <1>4, OneBlockFewer
<1>6. GrantedIn(t) = GrantedIn(s) /\ t[m].flags = 0
  <2>1. CASE m = k /\ Merged(s, k, a, t)
    <3>1. MergeEffect(s, k, a, t)
      BY <1>1, <2>1, MergedFields
    <3>2. s[k].flags = 0 /\ t[m].flags = 0
      BY <1>1, <2>1, <3>1 DEF MergeEffect
    <3>3. QED
      BY <1>1, <2>1, <3>2, MergeKeepsBlocks
  <2>2. CASE m = a /\ t = s
    BY <1>1, <2>2
  <2>3. QED
    BY <1>3, <2>1, <2>2
<1>7. GrantedIn(section') = GrantedIn(t)
  BY <1>3, <1>6, MergeKeepsBlocks
<1>8. Granted = GrantedIn(section) /\ Granted' = GrantedIn(section')
  BY GrantedBlocks DEF GrantedIn, Blocks, Granted
<1>9. Allocator!Reclaim(a + HeaderSize)
  BY <1>5, <1>6, <1>7, <1>8 DEF Allocator!Reclaim
<1>10. QED
  BY <1>5, <1>8, <1>9

LEMMA RegionGrantsNothing ==
  ASSUME IInv, IInv', InitMemoryRegion
  PROVE  Granted' = Granted
<1>1. MEMORY_SECTION_ALLOCATED # 0
  BY DEF MEMORY_SECTION_ALLOCATED
<1>2. Blocks(section') = Blocks(section)
  BY <1>1, RegionFields DEF Blocks
<1>3. \A x \in Blocks(section) : section[x].size = section'[x].size
  BY RegionFields DEF Blocks
<1>4. GoodHeap(section) /\ GoodHeap(section')
  BY DEF IInv
<1>5. GrantedIn(section) = GrantedIn(section')
  BY <1>2, <1>3, <1>4, SameBlocks
<1>6. Granted = GrantedIn(section) /\ Granted' = GrantedIn(section')
  BY GrantedBlocks DEF GrantedIn, Blocks, Granted
<1>7. QED
  BY <1>5, <1>6

(* malloc() and free() implement the abstract allocator.                   *)
THEOREM HeapImplementsAllocator == Spec => ImplementsAllocator
<1>1. Init => Allocator!Init
  <2>1. ASSUME DOMAIN section = {}
        PROVE  {a + HeaderSize : a \in {x \in DOMAIN section :
                   section[x].flags = MEMORY_SECTION_ALLOCATED}} = {}
    BY <2>1
  <2>2. QED
    BY <2>1 DEF Init, Allocator!Init, Granted
<1>2. IInv /\ IInv' /\ Tiled /\ [Next]_vars => [Allocator!Next]_Granted
  <2> SUFFICES ASSUME IInv, IInv', Tiled, [Next]_vars
               PROVE  Allocator!Next \/ Granted' = Granted
    OBVIOUS
  <2>1. CASE InitMemoryRegion
    BY <2>1, RegionGrantsNothing
  <2>2. ASSUME NEW size \in RequestSizes, Malloc(size)
        PROVE  Allocator!Next
    BY <2>2, MallocGrants DEF Allocator!Next
  <2>3. ASSUME NEW a \in DOMAIN section, Free(a)
        PROVE  Allocator!Next
    BY <2>3, FreeReclaims DEF Allocator!Next
  <2>4. CASE UNCHANGED vars
    BY <2>4 DEF vars, Granted
  <2>5. QED
    BY <2>1, <2>2, <2>3, <2>4 DEF Next, MallocFails, DoubleFree
<1>3. QED
  BY <1>1, <1>2, HeapInvariant, HeapTiled, PTL DEF Spec, ImplementsAllocator, Allocator!Spec
-----------------------------------------------------------------------------
(* The search starts at the root and follows next.                         *)
LEMMA WalkSteps ==
  ASSUME root_memory_section \in DOMAIN section,
         \A x \in DOMAIN section : section[x].next \in DOMAIN section
  PROVE  /\ Walk \in [Nat -> DOMAIN section] /\ Walk[0] = root_memory_section
         /\ \A k \in Nat : Walk[k + 1] = section[Walk[k]].next
<1> DEFINE D == DOMAIN section
           step == [x \in D |-> section[x].next]
           Steps(w) == [k \in Nat |-> IF k = 0 THEN root_memory_section
                                      ELSE section[w[k - 1]].next]
<1>1. step \in [D -> D]
  OBVIOUS
<1>2. PICK w : Iterates(w, D, root_memory_section, step)
  <2>1. root_memory_section \in D
    OBVIOUS
  <2> HIDE DEF step, D
  <2>2. QED
    BY <1>1, <2>1, Iteration, Zenon
<1> USE DEF Iterates
<1>3. w = Steps(w)
  <2> SUFFICES ASSUME NEW k \in Nat
               PROVE  w[k] = Steps(w)[k]
    BY <1>2
  <2>1. CASE k = 0
    BY <2>1, <1>2
  <2>2. CASE k # 0
    <3>1. k - 1 \in Nat /\ (k - 1) + 1 = k
      BY <2>2
    <3>2. w[k] = step[w[k - 1]] /\ w[k - 1] \in D
      BY <3>1, <1>2
    <3>3. QED
      BY <3>1, <3>2, <2>2
  <2>3. QED
    BY <2>1, <2>2
<1>4. Walk = Steps(Walk)
  <2>1. Walk = CHOOSE v : v = Steps(v)
    BY DEF Walk
  <2>2. QED
    BY <2>1, <1>3
<1>5. Walk[0] = root_memory_section
  <2>1. Steps(Walk)[0] = root_memory_section
    OBVIOUS
  <2>2. QED
    BY <2>1, <1>4
<1>6. ASSUME NEW k \in Nat
      PROVE  Walk[k + 1] = section[Walk[k]].next
  <2>1. Steps(Walk)[k + 1] = section[Walk[(k + 1) - 1]].next
    OBVIOUS
  <2>2. (k + 1) - 1 = k
    OBVIOUS
  <2>3. QED
    BY <2>1, <2>2, <1>4
<1>7. Walk \in [Nat -> D]
  <2> DEFINE T == {k \in Nat : Walk[k] \in D}
  <2>1. 0 \in T
    BY <1>5
  <2>2. \A k \in Nat : k \in T => k + 1 \in T
    BY <1>6
  <2> HIDE DEF T
  <2>3. \A k \in Nat : k \in T
    BY <2>1, <2>2, InductionBySet
  <2>4. \A k \in Nat : Walk[k] \in D
    BY <2>3 DEF T
  <2>5. Walk = [k \in Nat |-> Walk[k]]
    <3>1. DOMAIN Walk = Nat
      BY <1>4
    <3>2. QED
      BY <3>1, <1>4
  <2>6. QED
    BY <2>4, <2>5
<1>8. QED
  BY <1>5, <1>6, <1>7
-----------------------------------------------------------------------------
(* The links of s are one ring: what is closed under next is all of it.    *)
OneRing(s) == \A S \in SUBSET DOMAIN s :
                S # {} /\ (\A x \in S : s[x].next \in S) => S = DOMAIN s

(* A header linked in behind a.                                            *)
LEMMA RingGrows ==
  ASSUME NEW s, NEW t, NEW a \in DOMAIN s, NEW r, r \notin DOMAIN s, OneRing(s),
         \A x \in DOMAIN s : s[x].next \in DOMAIN s,
         DOMAIN t = DOMAIN s \cup {r}, t[a].next = r, t[r].next = s[a].next,
         \A x \in DOMAIN s : x # a => t[x].next = s[x].next
  PROVE  OneRing(t)
<1> SUFFICES ASSUME NEW S \in SUBSET DOMAIN t, S # {}, \A x \in S : t[x].next \in S
             PROVE  S = DOMAIN t
  BY DEF OneRing
<1> DEFINE R == S \ {r}
<1>1. R \in SUBSET DOMAIN s
  OBVIOUS
<1>2. R # {}
  <2>1. r \in S => s[a].next \in S /\ s[a].next # r
    OBVIOUS
  <2>2. QED
    BY <2>1
<1>3. ASSUME NEW x \in R
      PROVE  s[x].next \in R
  <2>1. s[x].next # r /\ t[x].next \in S
    BY <1>1, <1>3
  <2>2. CASE x = a
    BY <2>1, <2>2
  <2>3. CASE x # a
    BY <2>1, <2>3, <1>1
  <2>4. QED
    BY <2>2, <2>3
<1>4. R = DOMAIN s
  BY <1>1, <1>2, <1>3 DEF OneRing
<1>5. r \in S
  BY <1>4
<1>6. QED
  BY <1>4, <1>5

(* The header behind a is taken out.                                       *)
LEMMA RingShrinks ==
  ASSUME NEW s, NEW t, NEW a \in DOMAIN s, NEW b \in DOMAIN s, OneRing(s),
         a # b, s[a].next = b,
         DOMAIN t = DOMAIN s \ {b}, t[a].next = s[b].next,
         \A x \in DOMAIN t : x # a => t[x].next = s[x].next
  PROVE  OneRing(t)
<1> SUFFICES ASSUME NEW S \in SUBSET DOMAIN t, S # {}, \A x \in S : t[x].next \in S
             PROVE  S = DOMAIN t
  BY DEF OneRing
<1> DEFINE R == IF a \in S THEN S \cup {b} ELSE S
<1>1. R \in SUBSET DOMAIN s /\ R # {}
  OBVIOUS
<1>2. ASSUME NEW x \in R
      PROVE  s[x].next \in R
  <2>1. CASE x = a
    BY <2>1, <1>2
  <2>2. CASE x = b
    BY <2>2, <1>2
  <2>3. CASE x # a /\ x # b
    BY <2>3, <1>2
  <2>4. QED
    BY <2>1, <2>2, <2>3
<1>3. R = DOMAIN s
  BY <1>1, <1>2 DEF OneRing
<1>4. QED
  BY <1>3

(* A step that leaves the links as they are keeps the ring.                *)
LEMMA RingSame ==
  ASSUME NEW s, NEW t, OneRing(s), DOMAIN t = DOMAIN s,
         \A x \in DOMAIN s : t[x].next = s[x].next
  PROVE  OneRing(t)
BY DEF OneRing

(* A merge of free() takes the second header out.                          *)
LEMMA MergeKeepsRing ==
  ASSUME NEW s, GoodHeap(s), OneRing(s), NEW a, NEW b, NEW t, Merged(s, a, b, t)
  PROVE  OneRing(t)
<1>1. MergeEffect(s, a, b, t)
  BY MergedFields
<1>2. QED
  BY <1>1, RingShrinks DEF MergeEffect

(* free() merges at most twice.                                            *)
LEMMA FreeKeepsRing ==
  ASSUME GoodHeap(section), OneRing(section), NEW a \in DOMAIN section, FreeSection(a)
  PROVE  OneRing(section')
<1> DEFINE s == Unmarked(a)
           p == s[a].previous
<1>1. /\ GoodHeap(s) /\ DOMAIN s = DOMAIN section
      /\ \A x \in DOMAIN s : s[x].next = section[x].next
  BY UnmarkedFields
<1>2. PICK t, m :
        /\ GoodHeap(t) /\ m \in DOMAIN t
        /\ \/ m = p /\ Merged(s, p, a, t)
           \/ m = a /\ t = s /\ ~Mergeable(s, p, a)
        /\ \/ Merged(t, m, t[m].next, section')
           \/ section' = t /\ ~Mergeable(t, m, t[m].next)
  BY FreeInTwoMerges
<1> HIDE DEF s, p
<1>3. OneRing(s)
  BY <1>1, RingSame
<1>4. OneRing(t)
  BY <1>1, <1>2, <1>3, MergeKeepsRing
<1>5. QED
  BY <1>2, <1>4, MergeKeepsRing

(* malloc() marks a section, and when it divides it, links in the new      *)
(* header behind the old one.                                              *)
LEMMA MallocKeepsRing ==
  ASSUME IInv, OneRing(section), NEW size \in RequestSizes, Malloc(size)
  PROVE  OneRing(section')
<1>1. size \in Address /\ size # 0
  BY MallocTakes
<1>2. PICK a \in DOMAIN section :
        /\ section[a].flags = 0 /\ size <= section[a].size
        /\ \/ Divisible(a, size) /\ Divide(a, size)
           \/ section' = [section EXCEPT ![a].flags = MEMORY_SECTION_ALLOCATED]
  BY MallocTakes
<1>3. GoodHeap(section)
  BY DEF IInv
<1>4. CASE section' = [section EXCEPT ![a].flags = MEMORY_SECTION_ALLOCATED]
  BY <1>3, <1>4, MarkedFields, RingSame
<1>5. CASE Divisible(a, size) /\ Divide(a, size)
  <2> DEFINE r == a + HeaderSize + size
             t == section'
  <2>1. /\ DOMAIN t = DOMAIN section \cup {r} /\ r \notin DOMAIN section
        /\ t[a].next = r /\ t[r].next = section[a].next
        /\ \A x \in DOMAIN section : x # a => t[x].next = section[x].next
    BY <1>1, <1>2, <1>3, <1>5, DivideFields
  <2>2. \A x \in DOMAIN section : section[x].next \in DOMAIN section
    BY <1>3 DEF GoodHeap, Linked
  <2> HIDE DEF r, t
  <2>3. OneRing(t)
    BY <1>2, <2>1, <2>2, RingGrows
  <2>4. QED
    BY <2>3 DEF t
<1>6. QED
  BY <1>2, <1>4, <1>5

(* The first region is a ring of its own, the others go in behind the last *)
(* section.                                                                *)
LEMMA RegionKeepsRing ==
  ASSUME IInv, OneRing(section), InitMemoryRegion
  PROVE  OneRing(section')
<1> DEFINE i == memory_region_descriptor_index
           a == SectionAddress(Descriptors[i])
           size == SectionEnd(Descriptors[i]) - a - HeaderSize
           t == section'
<1>1. CASE section' = section
  BY <1>1
<1>2. CASE section' # section
  <2>1. a \notin DOMAIN section /\ DOMAIN t = DOMAIN section \cup {a}
    BY <1>2, RegionFields
  <2>2. AddSection(a, size)
    BY <1>2 DEF InitMemoryRegion
  <2> HIDE DEF a, size
  <2>3. CASE root_memory_section = NULL
    <3>1. t = [x \in {a} |-> [previous |-> a, next |-> a, size |-> size, flags |-> 0]]
      BY <2>2, <2>3 DEF AddSection
    <3>2. DOMAIN t = {a}
      BY <3>1
    <3>3. QED
      BY <3>2 DEF OneRing
  <2>4. CASE root_memory_section # NULL
    <3> DEFINE root == root_memory_section
               last == section[root].previous
    <3>1. root \in DOMAIN section /\ GoodHeap(section)
      BY <2>4 DEF IInv, RootLive
    <3>2. last \in DOMAIN section /\ section[last].next = root
      BY <3>1 DEF GoodHeap, Linked
    <3>3. /\ t[a].next = root
          /\ \A x \in DOMAIN section : t[x].next = IF x = last THEN a ELSE section[x].next
      BY <2>1, <2>2, <2>4 DEF AddSection
    <3>4. \A x \in DOMAIN section : section[x].next \in DOMAIN section
      BY <3>1 DEF GoodHeap, Linked
    <3> HIDE DEF t, root, last
    <3>5. OneRing(t)
      BY <2>1, <3>2, <3>3, <3>4, RingGrows
    <3>6. QED
      BY <3>5 DEF t
  <2>5. QED
    BY <2>3, <2>4
<1>3. QED
  BY <1>1, <1>2

(* A ring of n headers is met in n steps.                                  *)
LEMMA RingIsWalked ==
  ASSUME IInv, OneRing(section)
  PROVE  LapMeetsAll
<1> DEFINE D == DOMAIN section
           n == Cardinality(D)
           Met == {Walk[k] : k \in Lap}
<1>1. IsFiniteSet(D) /\ n \in Nat
  <2>1. IsFiniteSet(HeapBase .. AddressSpace - 1)
    BY Numbers, FS_Interval
  <2>2. D \in SUBSET (HeapBase .. AddressSpace - 1)
    BY DEF IInv, GoodHeap, Typed
  <2>3. IsFiniteSet(D)
    BY <2>1, <2>2, FS_Subset
  <2>4. QED
    BY <2>3, FS_CardinalityType
<1>2. Lap = 0 .. n - 1
  BY DEF Lap
<1>3. CASE D = {}
  <2>1. n = 0
    BY <1>3, FS_EmptySet
  <2>2. QED
    BY <2>1, <1>2, <1>3 DEF LapMeetsAll
<1>4. CASE D # {}
  <2>1. n # 0
    BY <1>1, <1>4, FS_EmptySet
  <2>2. root_memory_section \in D /\ \A x \in D : section[x].next \in D
    BY <1>4 DEF IInv, RootLive, GoodHeap, Linked
  <2>3. /\ Walk \in [Nat -> D]
        /\ \A k \in Nat : Walk[k + 1] = section[Walk[k]].next
    BY <2>2, WalkSteps
  <2>4. Met \subseteq D /\ Lap \subseteq Nat
    <3> HIDE DEF D, n
    <3>1. Lap \subseteq Nat
      BY ONLY <1>1, <1>2
    <3>2. \A k \in Lap : Walk[k] \in D
      BY ONLY <2>3, <3>1
    <3>3. QED
      BY ONLY <3>1, <3>2
  <2> HIDE DEF n
  <2>5. CASE \E i, j \in Lap : i < j /\ Walk[i] = Walk[j]
    <3>1. PICK i \in Lap, j \in Lap : i < j /\ Walk[i] = Walk[j]
      BY <2>5
    <3> DEFINE S == {Walk[k] : k \in i .. j - 1}
    <3>2. i \in Nat /\ j \in Nat /\ j < n
      BY <3>1, <1>1, <1>2
    <3>3. i .. j - 1 \subseteq Lap /\ i \in i .. j - 1
      BY <3>1, <3>2, <1>1, <1>2
    <3>4. S \in SUBSET D /\ S # {} /\ S \subseteq Met
      BY <3>3, <2>4
    <3>5. \A x \in S : section[x].next \in S
      <4> SUFFICES ASSUME NEW k \in i .. j - 1
                   PROVE  section[Walk[k]].next \in S
        OBVIOUS
      <4>1. k \in Nat /\ section[Walk[k]].next = Walk[k + 1]
        BY <3>2, <2>3
      <4>2. CASE k = j - 1
        <5>1. k + 1 = j
          BY <4>2, <3>2
        <5>2. Walk[k + 1] = Walk[j]
          BY <5>1
        <5>3. section[Walk[k]].next = Walk[i]
          BY <5>2, <4>1, <3>1
        <5>4. Walk[i] \in S
          BY <3>3
        <5>5. QED
          BY <5>3, <5>4
      <4>3. CASE k # j - 1
        <5>1. k + 1 \in i .. j - 1
          BY <4>3, <3>2
        <5>2. QED
          BY <4>1, <5>1
      <4>4. QED
        BY <4>2, <4>3
    <3>6. S = D
      BY <3>4, <3>5 DEF OneRing
    <3>7. QED
      BY <3>4, <3>6, <2>4 DEF LapMeetsAll
  <2>6. CASE ~ \E i, j \in Lap : i < j /\ Walk[i] = Walk[j]
    <3> DEFINE w == [k \in Lap |-> Walk[k]]
    <3>1. w \in [Lap -> D] /\ \A i, j \in Lap : w[i] = w[j] => i = j
      <4>1. w \in [Lap -> D]
        BY <2>3, <2>4
      <4>2. \A i, j \in Lap : i = j \/ i < j \/ j < i
        <5>1. \A i, j \in Nat : i = j \/ i < j \/ j < i
          OBVIOUS
        <5>2. Lap \subseteq Nat
          BY <2>4
        <5>3. QED
          BY <5>1, <5>2
      <4>3. QED
        BY <4>1, <4>2, <2>6
    <3> HIDE DEF w
    <3>2. w \in Injection(Lap, D)
      BY <3>1 DEF Injection, IsInjective
    <3>3. Cardinality(Lap) = n
      <4>1. Cardinality(0 .. n - 1) = n
        BY <1>1, <2>1, FS_Interval
      <4>2. QED
        BY <4>1, <1>2
    <3>4. w \in Surjection(Lap, D)
      BY <3>2, <3>3, <1>1, FS_Injection DEF n
    <3>5. \A x \in D : \E k \in Lap : w[k] = x
      BY <3>4 DEF Surjection
    <3>6. D \subseteq Met
      BY <3>5 DEF w
    <3>7. QED
      BY <3>6, <2>4 DEF LapMeetsAll
  <2>7. QED
    BY <2>5, <2>6
<1>5. QED
  BY <1>3, <1>4

(* One lap of malloc() meets every section.  The ring that links both ways *)
(* (RingLinked) could still be two rings, of which the search walks one;   *)
(* so the invariant is that no proper part of the table is closed under    *)
(* next, and a lap of as many steps as there are sections, which cannot    *)
(* meet one twice without closing a part, meets all.                       *)
THEOREM LapIsComplete == Spec => []LapMeetsAll
<1> DEFINE Ring == OneRing(section)
<1>1. Init => Ring
  <2>1. ASSUME DOMAIN section = {}
        PROVE  OneRing(section)
    BY <2>1 DEF OneRing
  <2>2. QED
    BY <2>1 DEF Init
<1>2. IInv /\ Ring /\ [Next]_vars => Ring'
  <2> SUFFICES ASSUME IInv, OneRing(section), [Next]_vars
               PROVE  OneRing(section')
    BY DEF OneRing
  <2>1. CASE InitMemoryRegion
    BY <2>1, RegionKeepsRing
  <2>2. ASSUME NEW size \in RequestSizes, Malloc(size)
        PROVE  OneRing(section')
    BY <2>2, MallocKeepsRing
  <2>3. ASSUME NEW a \in DOMAIN section, Free(a)
        PROVE  OneRing(section')
    BY <2>3, FreeKeepsRing DEF Free, IInv
  <2>4. CASE UNCHANGED vars
    BY <2>4 DEF vars
  <2>5. QED
    BY <2>1, <2>2, <2>3, <2>4 DEF Next, MallocFails, DoubleFree
<1>3. IInv /\ Ring => LapMeetsAll
  BY RingIsWalked
<1>4. QED
  BY <1>1, <1>2, <1>3, HeapInvariant, PTL DEF Spec
=============================================================================
