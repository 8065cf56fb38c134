------------------------ MODULE PhysAllocatorProofs ------------------------
(***************************************************************************)
(* Theorems about the physical page allocator, for any memory map of       *)
(* disjoint regions, any chunk size and any number of cores.               *)
(***************************************************************************)
EXTENDS PhysAllocator, FiniteSetTheorems, WellFoundedInduction, TLAPS

\* The scan order is well defined: a nonempty set of numbers has a first one.
LEMMA FirstExists ==
    ASSUME NEW S \in SUBSET Nat, S # {}
    PROVE  FirstOf(S) \in S /\ \A s \in S : FirstOf(S) <= s
<1> DEFINE R == OpToRel(<, Nat)
<1>1. IsWellFoundedOn(R, Nat)
  BY NatLessThanWellFounded
<1>2. \A x, y \in Nat : <<y, x>> \in R <=> y < x
  BY DEF OpToRel
<1> HIDE DEF R
<1>3. PICK x \in S : \A y \in S : ~ (<<y, x>> \in R)
  BY <1>1, WFMin
<1>4. ASSUME NEW y \in S PROVE x <= y
  <2>1. x \in Nat /\ y \in Nat
    OBVIOUS
  <2>2. ~ (y < x)
    BY <1>2, <1>3, <2>1
  <2> QED
    BY <2>1, <2>2
<1> QED
  BY <1>4 DEF FirstOf

LEMMA MapType ==
    /\ DOMAIN MemoryMap \subseteq Nat
    /\ \A r \in DOMAIN MemoryMap : /\ r < NoRegion /\ r > 0
                                   /\ MemoryMap[r].base \in Nat
                                   /\ MemoryMap[r].length \in Nat
    /\ NoRegion \in Nat
<1> DEFINE T == [base : Nat \ {0}, length : Nat]
<1>1. MemoryMap \in Seq(T)
  BY PhysAssumption
<1>2. \A t \in T : t.base \in Nat /\ t.length \in Nat
  OBVIOUS
<1> HIDE DEF T
<1>3. Len(MemoryMap) \in Nat /\ DOMAIN MemoryMap = 1..Len(MemoryMap)
  BY <1>1
<1>4. \A r \in DOMAIN MemoryMap : MemoryMap[r] \in T
  BY <1>1
<1> QED
  BY <1>2, <1>3, <1>4 DEF NoRegion

\* Dividing a length that is j pages shorter.
LEMMA DivShift ==
    ASSUME NEW n \in Nat, NEW j \in Nat, NEW m \in Nat \ {0}
    PROVE  (n - j * m) \div m <= (n \div m) - j
<1> DEFINE q == n \div m
           t == (n - j * m) \div m
<1>1. q \in Int /\ n < m * (q + 1)
  OBVIOUS
<1>2. j * m \in Int
  OBVIOUS
<1>3. t \in Int /\ m * t <= n - j * m
  <2> DEFINE x == n - j * m
  <2>1. x \in Int
    BY <1>2
  <2> HIDE DEF x
  <2> QED
    BY <2>1 DEF x
<1> HIDE DEF q, t
<1>4. SUFFICES ASSUME t > q - j PROVE FALSE
  BY <1>1, <1>3 DEF q, t
<1>5. t + j >= q + 1
  BY <1>1, <1>3, <1>4
<1>6. m * (t + j) >= m * (q + 1)
  BY <1>1, <1>3, <1>5
<1>7. m * (t + j) = m * t + j * m
  BY <1>3
<1> QED
  BY <1>1, <1>2, <1>3, <1>6, <1>7

LEMMA Times ==
    ASSUME NEW i \in Nat, NEW j \in Nat, NEW m \in Nat, i < j
    PROVE  i * m + m <= j * m /\ i * m \in Nat /\ j * m \in Nat
<1>1. (j - i - 1) * m >= 0
  OBVIOUS
<1> QED
  BY <1>1

LEMMA TimesType ==
    ASSUME NEW i \in Nat, NEW j \in Nat
    PROVE  i * j \in Nat /\ (j > 0 => i <= i * j)
  OBVIOUS

\* Chunks are pairs of a region and a position in its chain.
LEMMA ChunkType ==
    ASSUME NEW ch \in AllChunks
    PROVE  /\ ch[1] \in Regions
           /\ ch[2] \in Nat
           /\ ch = <<ch[1], ch[2]>>
           /\ Base(ch) \in Nat
           /\ NumPages(ch) \in Int
           /\ NumPages(ch) <= kMaxPages
           /\ ch[2] * kMaxPages \in Nat
           /\ NumPages(ch) <= (MemoryMap[ch[1]].length \div PageSize) - ch[2] * kMaxPages
<1>1. PICK r \in Regions : ch \in {r} \X (0..MemoryMap[r].length)
  BY DEF AllChunks
<1>2. r \in DOMAIN MemoryMap /\ MemoryMap[r].base \in Nat /\ MemoryMap[r].length \in Nat
  BY MapType DEF Regions
<1>3. ch[1] = r /\ ch[2] \in Nat /\ ch = <<ch[1], ch[2]>>
  BY <1>1, <1>2
<1>4. kMaxPages \in Nat /\ PageSize \in Nat \ {0}
  BY PhysAssumption
<1> DEFINE j == ch[2] * kMaxPages
           n == MemoryMap[r].length
<1>5. j \in Nat
  BY <1>3, <1>4, TimesType
<1>6. Base(ch) \in Nat
  BY <1>2, <1>3, <1>5 DEF Base
<1>7. n \in Nat
  BY <1>2
<1>8. Remaining(ch[1], ch[2]) = n - j * PageSize
  BY <1>3 DEF Remaining
<1> HIDE DEF j, n
<1>9. (n - j * PageSize) \div PageSize <= (n \div PageSize) - j
  BY <1>4, <1>5, <1>7, DivShift
<1>10. j * PageSize \in Nat
  BY <1>4, <1>5, TimesType
<1> DEFINE d == (n - j * PageSize) \div PageSize
<1>11. d \in Int
  <2> DEFINE x == n - j * PageSize
  <2>1. x \in Int
    BY <1>7, <1>10
  <2> HIDE DEF x
  <2> QED
    BY <1>4, <2>1 DEF x
<1>12. NumPages(ch) = IF d > kMaxPages THEN kMaxPages ELSE d
  BY <1>8 DEF NumPages
<1>13. d <= (n \div PageSize) - j /\ n \div PageSize \in Int
  BY <1>4, <1>7, <1>9
<1> HIDE DEF d
<1>14. /\ NumPages(ch) \in Int
       /\ NumPages(ch) <= kMaxPages
       /\ NumPages(ch) <= (n \div PageSize) - j
  BY <1>4, <1>5, <1>11, <1>12, <1>13
<1> QED
  BY <1>1, <1>3, <1>5, <1>6, <1>14 DEF j, n

\* A chunk that the code creates is one of AllChunks.
LEMMA ChunkIn ==
    ASSUME NEW r \in Regions, NEW k \in Nat,
           k = 0 \/ CanAllocate(Remaining(r, k))
    PROVE  <<r, k>> \in AllChunks
<1>1. MemoryMap[r].length \in Nat
  BY MapType DEF Regions
<1>2. k <= MemoryMap[r].length
  <2>1. CASE k = 0
    BY <1>1, <2>1
  <2>2. CASE CanAllocate(Remaining(r, k))
    <3>1. PageSize * kMinPages \in Nat
      BY PhysAssumption, TimesType
    <3>2. /\ k * kMaxPages \in Nat
          /\ k <= k * kMaxPages
      BY PhysAssumption, TimesType
    <3>3. /\ k * kMaxPages * PageSize \in Nat
          /\ k * kMaxPages <= k * kMaxPages * PageSize
      BY PhysAssumption, TimesType, <3>2
    <3>4. MemoryMap[r].length - k * kMaxPages * PageSize > PageSize * kMinPages
      BY <2>2 DEF CanAllocate, Remaining
    <3> QED
      BY <1>1, <3>1, <3>2, <3>3, <3>4
  <2> QED
    BY <2>1, <2>2
<1>3. <<r, k>> \in {r} \X (0..MemoryMap[r].length)
  BY <1>1, <1>2
<1> QED
  BY <1>3 DEF AllChunks

\* No page belongs to two chunks: chunks of a region follow one another, and
\* never reach past the end of their region.
LEMMA ChunksDisjoint ==
    ASSUME NEW ch \in AllChunks, NEW dh \in AllChunks, ch # dh
    PROVE  /\ AllocatablePages(ch) \cap AllocatablePages(dh) = {}
           /\ ManagedPages(ch) \cap ManagedPages(dh) = {}
<1> DEFINE End(x) == Base(x) + NumPages(x)
<1>1. ASSUME NEW x \in AllChunks, NEW y \in AllChunks, x[1] = y[1], x[2] < y[2]
      PROVE  End(x) <= Base(y)
  <2>1. kMaxPages \in Nat
    BY PhysAssumption
  <2>2. x[2] * kMaxPages + kMaxPages <= y[2] * kMaxPages
    BY <1>1, <2>1, ChunkType, Times
  <2>3. MemoryMap[x[1]].base \in Nat
    BY ChunkType, MapType DEF Regions
  <2> QED
    BY <1>1, <2>1, <2>2, <2>3, ChunkType DEF Base
<1>2. ASSUME NEW x \in AllChunks, NEW y \in AllChunks, x[1] < y[1]
      PROVE  End(x) <= Base(y) \/ End(y) <= Base(x)
  <2> DEFINE lx == MemoryMap[x[1]].length \div PageSize
             ly == MemoryMap[y[1]].length \div PageSize
  <2>1. x[1] \in DOMAIN MemoryMap /\ y[1] \in DOMAIN MemoryMap
    BY ChunkType DEF Regions
  <2>2. lx \in Int /\ ly \in Int /\ MemoryMap[x[1]].base \in Nat /\ MemoryMap[y[1]].base \in Nat
    <3>1. PageSize \in Nat \ {0}
      BY PhysAssumption
    <3>2. MemoryMap[x[1]].length \in Nat /\ MemoryMap[y[1]].length \in Nat
      BY <2>1, MapType
    <3> QED
      BY <2>1, <3>1, <3>2, MapType
  <2>3. \/ MemoryMap[x[1]].base + lx <= MemoryMap[y[1]].base
        \/ MemoryMap[y[1]].base + ly <= MemoryMap[x[1]].base
    BY <1>2, <2>1, PhysAssumption
  <2>4. /\ NumPages(x) \in Int /\ NumPages(y) \in Int
        /\ NumPages(x) <= lx - x[2] * kMaxPages
        /\ NumPages(y) <= ly - y[2] * kMaxPages
        /\ x[2] * kMaxPages \in Nat
        /\ y[2] * kMaxPages \in Nat
    BY ChunkType
  <2> HIDE DEF lx, ly
  <2> QED
    BY <2>2, <2>3, <2>4 DEF Base
<1>3. ch[1] # dh[1] \/ ch[2] # dh[2]
  BY ChunkType
<1>4. ch[1] \in Nat /\ dh[1] \in Nat /\ ch[2] \in Nat /\ dh[2] \in Nat
  BY ChunkType, MapType DEF Regions
<1>5. End(ch) <= Base(dh) \/ End(dh) <= Base(ch)
  <2>1. CASE ch[1] # dh[1]
    BY <1>2, <1>4, <2>1
  <2>2. CASE ch[1] = dh[1]
    BY <1>1, <1>3, <1>4, <2>2
  <2> QED
    BY <2>1, <2>2
<1>6. /\ Base(ch) \in Nat /\ Base(dh) \in Nat
      /\ NumPages(ch) \in Int /\ NumPages(dh) \in Int
  BY ChunkType
<1> QED
  BY <1>5, <1>6 DEF AllocatablePages, ManagedPages
----------------------------------------------------------------------------
(***************************************************************************)
(* The inductive invariant.  Every linked position of a chain is a chunk   *)
(* (Chained) and the free pages of a chunk are its own (Homed); with these *)
(* the properties the runs check are inductive together.                   *)
(***************************************************************************)
Chained ==
    \A r \in Regions : chain[r] >= 1 /\ \A k \in Nat : k < chain[r] => <<r, k>> \in AllChunks

Homed ==
    \A ch \in AllChunks : bitmap[ch] \subseteq ManagedPages(ch) /\ (ch \notin Linked => bitmap[ch] = {})

IInv == TypeOK /\ Chained /\ Homed /\ NoPageTwice /\ NoPageLost /\ IsFiniteSet(held) /\ CountExact

LEMMA InitIInv == Init => IInv
<1> SUFFICES ASSUME Init PROVE IInv
  OBVIOUS
<1>1. \A r \in Regions : <<r, 0>> \in AllChunks
  BY ChunkIn
<1>2. \A ch \in AllChunks : ManagedPages(ch) \subseteq Nat
  BY ChunkType DEF ManagedPages
<1>3. Linked = {ch \in AllChunks : ch[2] = 0}
  BY ChunkType DEF Init, Linked
<1>4. \A ch \in AllChunks : bitmap[ch] = IF ch[2] = 0 THEN ManagedPages(ch) ELSE {}
  BY DEF Init
<1>5. TypeOK
  <2>1. bitmap \in [AllChunks -> SUBSET Nat]
    BY <1>2 DEF Init
  <2>2. core \in [Cores -> CoreStates]
    BY DEF Init, CoreStates, Idle
  <2>3. vm \in 0..NoRegion
    BY MapType DEF Init
  <2> QED
    BY <2>1, <2>2, <2>3 DEF Init, TypeOK, Idle
<1>6. Chained
  BY <1>1 DEF Init, Chained
<1>7. Homed
  BY <1>3, <1>4 DEF Homed
<1>8. NoPageTwice
  BY <1>4, ChunksDisjoint DEF Init, NoPageTwice, Idle
<1>9. NoPageLost
  <2>1. InFlight = {}
    BY DEF Init, InFlight, Idle
  <2>2. UNION {ManagedPages(ch) : ch \in Linked} = FreePages
    BY <1>3, <1>4 DEF FreePages
  <2> QED
    BY <2>1, <2>2 DEF NoPageLost, Init
<1>10. IsFiniteSet(held) /\ CountExact
  <2>1. {c \in Cores : core[c].pc = "uncount"} = {}
    BY DEF Init, Idle
  <2>2. held = {} /\ allocated = 0
    BY DEF Init
  <2>3. IsFiniteSet({}) /\ Cardinality({}) = 0
    BY FS_EmptySet
  <2> QED
    BY <2>1, <2>2, <2>3 DEF CountExact
<1> QED
  BY <1>5, <1>6, <1>7, <1>8, <1>9, <1>10 DEF IInv

\* Steps that only move a core between states that own no page keep all but
\* the type invariant.
LEMMA QuietStep ==
    ASSUME IInv, TypeOK', UNCHANGED <<chain, bitmap, allocated, held>>, NEW c \in Cores,
           \A d \in Cores \ {c} : core'[d] = core[d],
           core[c].pc \notin {"count", "uncount"}, core'[c].pc \notin {"count", "uncount"}
    PROVE  IInv'
<1>1. Linked' = Linked /\ FreePages' = FreePages
  BY DEF Linked, FreePages
<1>2. Chained' /\ Homed'
  BY <1>1 DEF IInv, Chained, Homed
<1>3. /\ {d \in Cores : core'[d].pc = "count"} = {d \in Cores : core[d].pc = "count"}
      /\ {d \in Cores : core'[d].pc = "uncount"} = {d \in Cores : core[d].pc = "uncount"}
      /\ \A d \in Cores : core[d].pc = "count" => core'[d] = core[d]
  OBVIOUS
<1>4. NoPageTwice'
  BY <1>1, <1>3 DEF IInv, NoPageTwice
<1>5. InFlight' = InFlight
  BY <1>3 DEF InFlight
<1>6. NoPageLost'
  BY <1>1, <1>5 DEF IInv, NoPageLost
<1>7. CountExact' /\ IsFiniteSet(held)'
  BY <1>3 DEF IInv, CountExact
<1> QED
  BY <1>2, <1>4, <1>6, <1>7 DEF IInv

LEMMA AllocPageIInv ==
    ASSUME IInv, NEW c \in Cores, AllocPage(c)
    PROVE  IInv'
<1> DEFINE n == [Idle EXCEPT !.pc = "scan", !.at = <<FirstOf(Regions), 0>>]
<1>1. core' = [core EXCEPT ![c] = n] /\ core \in [Cores -> CoreStates]
  BY DEF AllocPage, IInv, TypeOK
<1>2. FirstOf(Regions) \in Regions
  <2>1. Regions # {} /\ Regions \subseteq Nat
    BY PhysAssumption, MapType DEF Regions, CanAllocate
  <2> QED
    BY <2>1, FirstExists
<1>3. <<FirstOf(Regions), 0>> \in Linked
  BY <1>2, ChunkIn DEF Linked, IInv, Chained, TypeOK
<1>4. n \in CoreStates /\ n.pc = "scan" /\ n.at \in Linked
  BY <1>3 DEF Idle, CoreStates, Linked
<1> HIDE DEF n
<1>5. core' \in [Cores -> CoreStates] /\ core'[c] = n /\ \A d \in Cores \ {c} : core'[d] = core[d]
  BY <1>1, <1>4
<1>6. Linked' = Linked
  BY DEF Linked, AllocPage
<1>7. TypeOK'
  BY <1>4, <1>5, <1>6 DEF IInv, TypeOK, AllocPage
<1>8. core[c].pc = "idle"
  BY DEF AllocPage, MayCall
<1> QED
  BY <1>4, <1>5, <1>7, <1>8, QuietStep DEF AllocPage

LEMMA AllocFailIInv ==
    ASSUME IInv, NEW c \in Cores, AllocFail(c)
    PROVE  IInv'
<1>1. Idle \in CoreStates /\ Idle.pc = "idle"
  BY DEF Idle, CoreStates
<1>2. /\ core' \in [Cores -> CoreStates]
      /\ core'[c] = Idle
      /\ \A d \in Cores \ {c} : core'[d] = core[d]
  BY <1>1 DEF AllocFail, IInv, TypeOK
<1>3. Linked' = Linked
  BY DEF Linked, AllocFail
<1>4. TypeOK'
  BY <1>1, <1>2, <1>3 DEF IInv, TypeOK, AllocFail
<1> QED
  BY <1>1, <1>2, <1>4, QuietStep DEF AllocFail

LEMMA ScanSkipIInv ==
    ASSUME IInv, NEW c \in Cores, ScanSkip(c)
    PROVE  IInv'
<1> DEFINE ch == core[c].at
           n == IF HasNextChunk(ch) THEN [core[c] EXCEPT !.at = <<ch[1], ch[2] + 1>>]
                ELSE IF NextRegions(ch[1]) # {}
                     THEN [core[c] EXCEPT !.at = <<FirstOf(NextRegions(ch[1])), 0>>]
                     ELSE [core[c] EXCEPT !.pc = "failed"]
<1>1. core' = [core EXCEPT ![c] = n] /\ core \in [Cores -> CoreStates] /\ core[c] \in CoreStates
  BY DEF ScanSkip, IInv, TypeOK
<1>2. core[c].pc = "scan" /\ ch \in Linked /\ ch \in AllChunks
  BY DEF ScanSkip, IInv, TypeOK, Linked
<1>3. ch[1] \in Regions /\ ch[2] \in Nat /\ chain \in [Regions -> Nat]
  BY <1>2, ChunkType DEF IInv, TypeOK
<1>4. HasNextChunk(ch) => <<ch[1], ch[2] + 1>> \in Linked
  BY <1>3 DEF HasNextChunk, Linked, IInv, Chained
<1>5. NextRegions(ch[1]) # {} => <<FirstOf(NextRegions(ch[1])), 0>> \in Linked
  <2> SUFFICES ASSUME NextRegions(ch[1]) # {} PROVE <<FirstOf(NextRegions(ch[1])), 0>> \in Linked
    OBVIOUS
  <2>1. NextRegions(ch[1]) \subseteq Regions /\ Regions \subseteq Nat
    BY MapType DEF NextRegions, Regions
  <2> DEFINE f == FirstOf(NextRegions(ch[1]))
  <2>2. f \in Regions
    BY <2>1, FirstExists
  <2> HIDE DEF f
  <2>3. <<f, 0>> \in AllChunks /\ 0 < chain[f]
    BY <1>3, <2>2, ChunkIn DEF IInv, Chained
  <2> QED
    BY <2>3 DEF Linked, f
<1>6. n \in CoreStates /\ n.pc \in {"scan", "failed"} /\ (n.pc = "scan" => n.at \in Linked)
  BY <1>1, <1>2, <1>4, <1>5 DEF CoreStates, Linked
<1> HIDE DEF n
<1>7. core' \in [Cores -> CoreStates] /\ core'[c] = n /\ \A d \in Cores \ {c} : core'[d] = core[d]
  BY <1>1, <1>6
<1>8. Linked' = Linked
  BY DEF Linked, ScanSkip
<1>9. hint' \in [AllChunks -> Nat]
  BY DEF ScanSkip, IInv, TypeOK
<1>10. TypeOK'
  BY <1>6, <1>7, <1>8, <1>9 DEF IInv, TypeOK, ScanSkip
<1> QED
  BY <1>2, <1>6, <1>7, <1>10, QuietStep DEF ScanSkip

\* What RegionAlloc() returns is free in the chunk, and its word is a valid hint.
LEMMA RegionAllocFree ==
    ASSUME IInv, NEW ch \in AllChunks, bitmap[ch] # {}
    PROVE  RegionAlloc(ch) \in bitmap[ch] /\ Word(ch, RegionAlloc(ch)) \in Nat
<1>1. bitmap[ch] \in SUBSET Nat
  BY DEF IInv, TypeOK
<1>2. FreeFrom(ch, hint[ch]) \subseteq bitmap[ch]
  BY DEF FreeFrom
<1>3. RegionAlloc(ch) \in bitmap[ch]
  BY <1>1, <1>2, FirstExists DEF RegionAlloc
<1> DEFINE p == RegionAlloc(ch)
<1>4. p \in ManagedPages(ch)
  BY <1>3 DEF IInv, Homed
<1> HIDE DEF p
<1>5. p - Base(ch) \in Nat
  BY <1>4, ChunkType DEF ManagedPages
<1>6. WordBits \in Nat \ {0}
  BY PhysAssumption
<1>7. Word(ch, p) \in Nat
  <2> DEFINE x == p - Base(ch)
  <2>1. x \in Nat
    BY <1>5
  <2> HIDE DEF x
  <2>2. x \div WordBits \in Nat
    BY <1>6, <2>1
  <2> QED
    BY <2>2 DEF x, Word
<1> QED
  BY <1>3, <1>7 DEF p

LEMMA ScanTakeIInv ==
    ASSUME IInv, NEW c \in Cores, ScanTake(c)
    PROVE  IInv'
<1> DEFINE ch == core[c].at
           page == RegionAlloc(ch)
           n == [core[c] EXCEPT !.pc = "count", !.page = page]
<1>1. core[c].pc = "scan" /\ ch \in Linked /\ ch \in AllChunks /\ bitmap[ch] # {}
  BY DEF ScanTake, IInv, TypeOK, Linked
<1>2. page \in bitmap[ch] /\ Word(ch, page) \in Nat
  BY <1>1, RegionAllocFree
<1>3. /\ bitmap' = [bitmap EXCEPT ![ch] = @ \ {page}]
      /\ hint' = [hint EXCEPT ![ch] = Word(ch, page)]
      /\ core' = [core EXCEPT ![c] = n]
      /\ sawFull' = [d \in Cores |-> sawFull[d] \/ FreePages = {page}]
      /\ UNCHANGED <<chain, vm, allocated, held>>
  BY DEF ScanTake, TakePage, IInv, TypeOK
<1> HIDE DEF page
<1>4. core \in [Cores -> CoreStates] /\ core[c] \in CoreStates /\ page \in Nat
  BY <1>1, <1>2 DEF IInv, TypeOK
<1>5. n \in CoreStates /\ n.pc = "count" /\ n.page = page
  BY <1>4 DEF CoreStates
<1> HIDE DEF n
<1>6. core' \in [Cores -> CoreStates] /\ core'[c] = n /\ \A d \in Cores \ {c} : core'[d] = core[d]
  BY <1>3, <1>4, <1>5
<1> HIDE DEF ch
<1>7. Linked' = Linked
  BY <1>3 DEF Linked
<1>8. /\ bitmap \in [AllChunks -> SUBSET Nat]
      /\ bitmap' \in [AllChunks -> SUBSET Nat]
      /\ bitmap'[ch] = bitmap[ch] \ {page}
      /\ \A x \in AllChunks : x # ch => bitmap'[x] = bitmap[x]
  BY <1>1, <1>3 DEF IInv, TypeOK
<1>9. TypeOK'
  <2>1. hint' \in [AllChunks -> Nat]
    BY <1>1, <1>2, <1>3 DEF IInv, TypeOK
  <2>2. sawFull' \in [Cores -> BOOLEAN]
    BY <1>3 DEF IInv, TypeOK
  <2> QED
    BY <1>3, <1>5, <1>6, <1>7, <1>8, <2>1, <2>2 DEF IInv, TypeOK
<1>10. Chained'
  BY <1>3 DEF IInv, Chained
<1>11. Homed'
  BY <1>1, <1>7, <1>8 DEF IInv, Homed
<1>12. FreePages' = FreePages \ {page} /\ page \in FreePages
  <2>1. \A x \in AllChunks : x # ch => page \notin bitmap[x]
    BY <1>1, <1>2 DEF IInv, NoPageTwice
  <2> QED
    BY <1>1, <1>2, <1>8, <2>1 DEF FreePages
<1>13. NoPageTwice'
  <2>1. held' \cap FreePages' = {}
    BY <1>3, <1>12 DEF IInv, NoPageTwice
  <2>2. page \notin held
    BY <1>12 DEF IInv, NoPageTwice
  <2>3. \A d \in Cores \ {c} : core[d].pc = "count" => core[d].page # page
    BY <1>12 DEF IInv, NoPageTwice
  <2>4. ASSUME NEW d \in Cores, core'[d].pc = "count"
        PROVE  /\ core'[d].page \notin held' \cup FreePages'
               /\ \A e \in Cores \ {d} : core'[e].pc = "count" => core'[e].page # core'[d].page
    <3>1. CASE d = c
      BY <1>3, <1>5, <1>6, <1>12, <2>2, <2>3, <3>1
    <3>2. CASE d # c
      <4>1. core'[d] = core[d] /\ core[d].page \notin held \cup FreePages
        BY <1>6, <2>4, <3>2 DEF IInv, NoPageTwice
      <4>2. ASSUME NEW e \in Cores \ {d}, core'[e].pc = "count" PROVE core'[e].page # core'[d].page
        <5>1. CASE e = c
          BY <1>5, <1>6, <2>3, <2>4, <3>2, <4>1, <5>1
        <5>2. CASE e # c
          BY <1>6, <2>4, <4>1, <4>2, <5>2 DEF IInv, NoPageTwice
        <5> QED
          BY <5>1, <5>2
      <4> QED
        BY <1>3, <1>12, <4>1, <4>2
    <3> QED
      BY <3>1, <3>2
  <2>5. \A x, y \in AllChunks : x # y => bitmap'[x] \cap bitmap'[y] = {}
    BY <1>8 DEF IInv, NoPageTwice
  <2> QED
    BY <2>1, <2>4, <2>5 DEF NoPageTwice
<1>14. NoPageLost'
  <2>1. InFlight' = InFlight \cup {page}
    BY <1>1, <1>5, <1>6 DEF InFlight
  <2>2. held' \cup InFlight' \cup FreePages' = held \cup InFlight \cup FreePages
    BY <1>3, <1>12, <2>1
  <2> QED
    BY <1>7, <2>2 DEF IInv, NoPageLost
<1>15. IsFiniteSet(held)' /\ CountExact'
  <2>1. {d \in Cores : core'[d].pc = "uncount"} = {d \in Cores : core[d].pc = "uncount"}
    BY <1>1, <1>5, <1>6
  <2> QED
    BY <1>3, <2>1 DEF IInv, CountExact
<1> QED
  BY <1>9, <1>10, <1>11, <1>13, <1>14, <1>15 DEF IInv

LEMMA CountAllocIInv ==
    ASSUME IInv, NEW c \in Cores, CountAlloc(c)
    PROVE  IInv'
<1> DEFINE page == core[c].page
<1>1. /\ core[c].pc = "count"
      /\ allocated' = allocated + 1
      /\ held' = held \cup {page}
      /\ core' = [core EXCEPT ![c] = Idle]
      /\ UNCHANGED <<chain, vm, bitmap, hint, sawFull>>
  BY DEF CountAlloc
<1>2. core \in [Cores -> CoreStates] /\ page \in Nat /\ held \subseteq Nat
  BY DEF IInv, TypeOK, CoreStates
<1>3. Idle \in CoreStates /\ Idle.pc = "idle"
  BY DEF Idle, CoreStates
<1>4. core' \in [Cores -> CoreStates] /\ core'[c] = Idle /\ \A d \in Cores \ {c} : core'[d] = core[d]
  BY <1>1, <1>2, <1>3
<1>5. Linked' = Linked /\ FreePages' = FreePages
  BY <1>1 DEF Linked, FreePages
<1>6. TypeOK'
  <2>1. allocated' \in Nat
    BY <1>1 DEF IInv, TypeOK
  <2>2. held' \subseteq Nat
    BY <1>1, <1>2
  <2>3. \A d \in Cores : core'[d].pc = "scan" => core'[d].at \in Linked'
    BY <1>3, <1>4, <1>5 DEF IInv, TypeOK
  <2> QED
    BY <1>1, <1>4, <2>1, <2>2, <2>3 DEF IInv, TypeOK
<1>7. Chained' /\ Homed'
  BY <1>1, <1>5 DEF IInv, Chained, Homed
<1>8. page \notin held \cup FreePages /\ \A d \in Cores \ {c} : core[d].pc = "count" => core[d].page # page
  BY <1>1 DEF IInv, NoPageTwice
<1>9. NoPageTwice'
  <2>1. held' \cap FreePages' = {}
    BY <1>1, <1>5, <1>8 DEF IInv, NoPageTwice
  <2>2. ASSUME NEW d \in Cores, core'[d].pc = "count"
        PROVE  /\ core'[d].page \notin held' \cup FreePages'
               /\ \A e \in Cores \ {d} : core'[e].pc = "count" => core'[e].page # core'[d].page
    <3>1. d # c /\ core'[d] = core[d]
      BY <1>3, <1>4, <2>2
    <3>2. core[d].page \notin held \cup FreePages /\ core[d].page # page
      BY <1>8, <2>2, <3>1 DEF IInv, NoPageTwice
    <3>3. ASSUME NEW e \in Cores \ {d}, core'[e].pc = "count" PROVE core'[e].page # core'[d].page
      <4>1. core'[e] = core[e]
        BY <1>3, <1>4, <3>3
      <4> QED
        BY <2>2, <3>1, <3>3, <4>1 DEF IInv, NoPageTwice
    <3> QED
      BY <1>1, <1>5, <3>1, <3>2, <3>3
  <2> QED
    BY <1>1, <2>1, <2>2 DEF IInv, NoPageTwice
<1>10. NoPageLost'
  <2>1. InFlight = InFlight' \cup {page}
    BY <1>1, <1>3, <1>4 DEF InFlight
  <2>2. held' \cup InFlight' \cup FreePages' = held \cup InFlight \cup FreePages
    BY <1>1, <1>5, <2>1
  <2> QED
    BY <1>5, <2>2 DEF IInv, NoPageLost
<1>11. IsFiniteSet(held)' /\ CountExact'
  <2>1. {d \in Cores : core'[d].pc = "uncount"} = {d \in Cores : core[d].pc = "uncount"}
    BY <1>1, <1>3, <1>4
  <2> DEFINE U == {d \in Cores : core[d].pc = "uncount"}
  <2>2. Cardinality(U) \in Nat
    <3>1. IsFiniteSet(U)
      BY PhysAssumption, FS_Subset
    <3> QED
      BY <3>1, FS_CardinalityType
  <2>3. IsFiniteSet(held') /\ Cardinality(held') = Cardinality(held) + 1 /\ Cardinality(held) \in Nat
    BY <1>1, <1>8, FS_AddElement, FS_CardinalityType DEF IInv
  <2>4. allocated = Cardinality(held) + Cardinality(U)
    BY DEF IInv, CountExact
  <2> HIDE DEF U
  <2>5. allocated' = Cardinality(held') + Cardinality(U)
    BY <1>1, <2>2, <2>3, <2>4
  <2> QED
    BY <2>1, <2>3, <2>5 DEF U, CountExact
<1> QED
  BY <1>6, <1>7, <1>9, <1>10, <1>11 DEF IInv

LEMMA FreePageIInv ==
    ASSUME IInv, NEW c \in Cores, NEW page \in held, FreePage(c, page)
    PROVE  IInv'
<1> DEFINE n == [Idle EXCEPT !.pc = "uncount"]
<1>1. PICK ch \in Owners(page) : page \in ManagedPages(ch) /\ bitmap' = GivePage(ch, page)
  BY DEF FreePage
<1>2. /\ core[c].pc = "idle"
      /\ held' = held \ {page}
      /\ core' = [core EXCEPT ![c] = n]
      /\ UNCHANGED <<chain, vm, hint, allocated, sawFull>>
  BY DEF FreePage, MayCall
<1>3. ch \in Linked /\ ch \in AllChunks
  BY DEF Owners, Linked
<1>4. n \in CoreStates /\ n.pc = "uncount" /\ core \in [Cores -> CoreStates] /\ page \in Nat
  BY DEF Idle, CoreStates, IInv, TypeOK
<1> HIDE DEF n
<1>5. core' \in [Cores -> CoreStates] /\ core'[c] = n /\ \A d \in Cores \ {c} : core'[d] = core[d]
  BY <1>2, <1>4
<1>6. Linked' = Linked
  BY <1>2 DEF Linked
<1>7. /\ bitmap \in [AllChunks -> SUBSET Nat]
      /\ bitmap' \in [AllChunks -> SUBSET Nat]
      /\ bitmap'[ch] = bitmap[ch] \cup {page}
      /\ \A x \in AllChunks : x # ch => bitmap'[x] = bitmap[x]
  BY <1>1, <1>3, <1>4 DEF GivePage, IInv, TypeOK
<1>8. TypeOK'
  <2>1. \A d \in Cores : core'[d].pc = "scan" => core'[d].at \in Linked'
    BY <1>4, <1>5, <1>6 DEF IInv, TypeOK
  <2> QED
    BY <1>2, <1>5, <1>7, <2>1 DEF IInv, TypeOK
<1>9. Chained'
  BY <1>2 DEF IInv, Chained
<1>10. Homed'
  BY <1>1, <1>3, <1>6, <1>7 DEF IInv, Homed
<1>11. FreePages' = FreePages \cup {page}
  BY <1>3, <1>7 DEF FreePages
<1>12. \A d \in Cores : core'[d].pc = "count" <=> d # c /\ core[d].pc = "count"
  BY <1>4, <1>5
<1>13. NoPageTwice'
  <2>1. held' \cap FreePages' = {}
    BY <1>2, <1>11 DEF IInv, NoPageTwice
  <2>2. ASSUME NEW d \in Cores, core'[d].pc = "count"
        PROVE  /\ core'[d].page \notin held' \cup FreePages'
               /\ \A e \in Cores \ {d} : core'[e].pc = "count" => core'[e].page # core'[d].page
    <3>1. core'[d] = core[d] /\ core[d].page \notin held \cup FreePages
      BY <1>5, <1>12, <2>2 DEF IInv, NoPageTwice
    <3>2. ASSUME NEW e \in Cores \ {d}, core'[e].pc = "count" PROVE core'[e].page # core'[d].page
      BY <1>5, <1>12, <2>2, <3>1, <3>2 DEF IInv, NoPageTwice
    <3> QED
      BY <1>2, <1>11, <3>1, <3>2
  <2>3. \A x, y \in AllChunks : x # y => bitmap'[x] \cap bitmap'[y] = {}
    BY <1>10, ChunksDisjoint DEF Homed
  <2> QED
    BY <2>1, <2>2, <2>3 DEF NoPageTwice
<1>14. NoPageLost'
  <2>1. InFlight' = InFlight
    BY <1>2, <1>5, <1>12 DEF InFlight
  <2>2. held' \cup InFlight' \cup FreePages' = held \cup InFlight \cup FreePages
    BY <1>2, <1>11, <2>1
  <2> QED
    BY <1>6, <2>2 DEF IInv, NoPageLost
<1>15. IsFiniteSet(held)' /\ CountExact'
  <2> DEFINE U == {d \in Cores : core[d].pc = "uncount"}
  <2>1. {d \in Cores : core'[d].pc = "uncount"} = U \cup {c} /\ c \notin U
    BY <1>2, <1>4, <1>5
  <2>2. IsFiniteSet(U)
    BY PhysAssumption, FS_Subset
  <2>3. Cardinality(U) \in Nat /\ Cardinality(U \cup {c}) = Cardinality(U) + 1
    BY <2>1, <2>2, FS_AddElement, FS_CardinalityType
  <2>4. IsFiniteSet(held') /\ Cardinality(held') = Cardinality(held) - 1 /\ Cardinality(held) \in Nat
    BY <1>2, FS_RemoveElement, FS_CardinalityType DEF IInv
  <2>5. allocated = Cardinality(held) + Cardinality(U)
    BY DEF IInv, CountExact
  <2> HIDE DEF U
  <2>6. allocated' = Cardinality(held') + Cardinality(U \cup {c})
    BY <1>2, <2>3, <2>4, <2>5
  <2> QED
    BY <2>1, <2>4, <2>6 DEF CountExact
<1> QED
  BY <1>8, <1>9, <1>10, <1>13, <1>14, <1>15 DEF IInv

LEMMA CountFreeIInv ==
    ASSUME IInv, NEW c \in Cores, CountFree(c)
    PROVE  IInv'
<1>1. /\ core[c].pc = "uncount"
      /\ allocated' = allocated - 1
      /\ core' = [core EXCEPT ![c] = Idle]
      /\ UNCHANGED <<chain, vm, bitmap, hint, held, sawFull>>
  BY DEF CountFree
<1>2. Idle \in CoreStates /\ Idle.pc = "idle" /\ core \in [Cores -> CoreStates]
  BY DEF Idle, CoreStates, IInv, TypeOK
<1>3. core' \in [Cores -> CoreStates] /\ core'[c] = Idle /\ \A d \in Cores \ {c} : core'[d] = core[d]
  BY <1>1, <1>2
<1>4. Linked' = Linked /\ FreePages' = FreePages
  BY <1>1 DEF Linked, FreePages
<1>5. IsFiniteSet(held)' /\ CountExact' /\ allocated' \in Nat
  <2> DEFINE U == {d \in Cores : core[d].pc = "uncount"}
  <2>1. {d \in Cores : core'[d].pc = "uncount"} = U \ {c} /\ c \in U
    BY <1>1, <1>2, <1>3
  <2>2. IsFiniteSet(U) /\ IsFiniteSet(U \ {c})
    BY PhysAssumption, FS_Subset
  <2>3. /\ Cardinality(U) \in Nat /\ Cardinality(U \ {c}) \in Nat
        /\ Cardinality(U \ {c}) = Cardinality(U) - 1
    BY <2>1, <2>2, FS_RemoveElement, FS_CardinalityType
  <2>4. allocated = Cardinality(held) + Cardinality(U)
    BY DEF IInv, CountExact
  <2>5. IsFiniteSet(held) /\ Cardinality(held) \in Nat
    BY FS_CardinalityType DEF IInv
  <2> HIDE DEF U
  <2>6. allocated' = Cardinality(held) + Cardinality(U \ {c}) /\ allocated' \in Nat
    BY <1>1, <2>3, <2>4, <2>5
  <2> QED
    BY <1>1, <2>1, <2>5, <2>6 DEF CountExact
<1>6. TypeOK'
  <2>1. \A d \in Cores : core'[d].pc = "scan" => core'[d].at \in Linked'
    BY <1>2, <1>3, <1>4 DEF IInv, TypeOK
  <2> QED
    BY <1>1, <1>3, <1>5, <2>1 DEF IInv, TypeOK
<1>7. Chained' /\ Homed'
  BY <1>1, <1>4 DEF IInv, Chained, Homed
<1>8. /\ {d \in Cores : core'[d].pc = "count"} = {d \in Cores : core[d].pc = "count"}
      /\ \A d \in Cores : core[d].pc = "count" => core'[d] = core[d]
  BY <1>1, <1>2, <1>3
<1>9. NoPageTwice'
  BY <1>1, <1>4, <1>8 DEF IInv, NoPageTwice
<1>10. NoPageLost'
  <2>1. InFlight' = InFlight
    BY <1>8 DEF InFlight
  <2> QED
    BY <1>1, <1>4, <2>1 DEF IInv, NoPageLost
<1> QED
  BY <1>5, <1>6, <1>7, <1>9, <1>10 DEF IInv

LEMMA LinkChildIInv ==
    ASSUME IInv, LinkChild
    PROVE  IInv'
<1> DEFINE ch == <<vm, chain[vm]>>
<1>1. /\ vm \in Regions
      /\ \A c \in Cores : core[c].pc = "idle"
      /\ CanAllocate(Remaining(vm, chain[vm]))
      /\ chain' = [chain EXCEPT ![vm] = @ + 1]
      /\ bitmap' = [bitmap EXCEPT ![ch] = ManagedPages(ch)]
      /\ UNCHANGED <<vm, hint, allocated, core, held, sawFull>>
  BY DEF LinkChild, AllIdle
<1>2. chain \in [Regions -> Nat] /\ chain[vm] \in Nat
  BY <1>1 DEF IInv, TypeOK
<1>3. ch \in AllChunks
  BY <1>1, <1>2, ChunkIn
<1>4. chain' \in [Regions -> Nat]
  BY <1>1, <1>2
<1>5. ch \notin Linked /\ Linked' = Linked \cup {ch}
  <2>1. ASSUME NEW x \in AllChunks
        PROVE  x[2] < chain'[x[1]] <=> x[2] < chain[x[1]] \/ x = ch
    <3>1. x[1] \in Regions /\ x[2] \in Nat /\ x = <<x[1], x[2]>>
      BY ChunkType
    <3>2. CASE x[1] = vm
      BY <1>1, <1>2, <3>1, <3>2
    <3>3. CASE x[1] # vm
      BY <1>1, <1>2, <3>1, <3>3
    <3> QED
      BY <3>2, <3>3
  <2>2. ~ (ch[2] < chain[ch[1]])
    BY <1>2
  <2> QED
    BY <1>3, <2>1, <2>2 DEF Linked
<1>6. ManagedPages(ch) \subseteq Nat
  BY <1>3, ChunkType DEF ManagedPages
<1> HIDE DEF ch
<1>7. /\ bitmap' \in [AllChunks -> SUBSET Nat]
      /\ bitmap'[ch] = ManagedPages(ch)
      /\ \A x \in AllChunks : x # ch => bitmap'[x] = bitmap[x]
      /\ bitmap[ch] = {}
  BY <1>1, <1>3, <1>5, <1>6 DEF IInv, TypeOK, Homed
<1>8. TypeOK'
  BY <1>1, <1>4, <1>7 DEF IInv, TypeOK
<1>9. Chained'
  <2>1. ASSUME NEW r \in Regions PROVE chain'[r] >= 1
    BY <1>1, <1>2, <2>1 DEF IInv, Chained
  <2>2. ASSUME NEW r \in Regions, NEW k \in Nat, k < chain'[r] PROVE <<r, k>> \in AllChunks
    <3>1. CASE r = vm /\ k = chain[vm]
      BY <1>3, <3>1 DEF ch
    <3>2. CASE ~ (r = vm /\ k = chain[vm])
      <4>1. k < chain[r]
        BY <1>1, <1>2, <2>2, <3>2
      <4> QED
        BY <4>1 DEF IInv, Chained
    <3> QED
      BY <3>1, <3>2
  <2> QED
    BY <2>1, <2>2 DEF Chained
<1>10. Homed'
  BY <1>3, <1>5, <1>7 DEF IInv, Homed
<1>11. FreePages' = FreePages \cup ManagedPages(ch)
  BY <1>3, <1>7 DEF FreePages
<1>12. (UNION {ManagedPages(x) : x \in Linked}) \cap ManagedPages(ch) = {}
  BY <1>3, <1>5, ChunksDisjoint DEF Linked
<1>13. held \cap ManagedPages(ch) = {}
  BY <1>12 DEF IInv, NoPageLost
<1>14. NoPageTwice'
  <2>1. held' \cap FreePages' = {}
    BY <1>1, <1>11, <1>13 DEF IInv, NoPageTwice
  <2>2. \A d \in Cores : core'[d].pc # "count"
    BY <1>1
  <2>3. \A x, y \in AllChunks : x # y => bitmap'[x] \cap bitmap'[y] = {}
    BY <1>10, ChunksDisjoint DEF Homed
  <2> QED
    BY <2>1, <2>2, <2>3 DEF NoPageTwice
<1>15. NoPageLost'
  <2>1. InFlight' = InFlight
    BY <1>1 DEF InFlight
  <2>2. UNION {ManagedPages(x) : x \in Linked'} = (UNION {ManagedPages(x) : x \in Linked}) \cup ManagedPages(ch)
    BY <1>5
  <2> QED
    BY <1>1, <1>11, <2>1, <2>2 DEF IInv, NoPageLost
<1>16. IsFiniteSet(held)' /\ CountExact'
  BY <1>1 DEF IInv, CountExact
<1> QED
  BY <1>8, <1>9, <1>10, <1>14, <1>15, <1>16 DEF IInv

LEMMA NextVmRegionIInv ==
    ASSUME IInv, NextVmRegion
    PROVE  IInv'
<1>1. UNCHANGED <<chain, bitmap, hint, allocated, core, held, sawFull>>
  BY DEF NextVmRegion
<1>2. vm' \in 0..NoRegion
  <2>1. NextRegions(vm) \subseteq Regions /\ Regions \subseteq Nat
    BY MapType DEF NextRegions, Regions
  <2>2. NextRegions(vm) # {} => FirstOf(NextRegions(vm)) \in Regions
    BY <2>1, FirstExists
  <2>3. \A r \in Regions : r \in 0..NoRegion
    BY MapType DEF Regions
  <2> QED
    BY <2>2, <2>3, MapType DEF NextVmRegion
<1>3. Linked' = Linked /\ FreePages' = FreePages /\ InFlight' = InFlight
  BY <1>1 DEF Linked, FreePages, InFlight
<1>4. TypeOK'
  BY <1>1, <1>2, <1>3 DEF IInv, TypeOK
<1> QED
  BY <1>1, <1>3, <1>4 DEF IInv, Chained, Homed, NoPageTwice, NoPageLost, CountExact

LEMMA NextIInv == IInv /\ [Next]_vars => IInv'
<1> SUFFICES ASSUME IInv, [Next]_vars PROVE IInv'
  OBVIOUS
<1>1. CASE LinkChild
  BY <1>1, LinkChildIInv
<1>2. CASE NextVmRegion
  BY <1>2, NextVmRegionIInv
<1>3. ASSUME NEW c \in Cores, AllocPage(c) PROVE IInv'
  BY <1>3, AllocPageIInv
<1>4. ASSUME NEW c \in Cores, ScanTake(c) PROVE IInv'
  BY <1>4, ScanTakeIInv
<1>5. ASSUME NEW c \in Cores, ScanSkip(c) PROVE IInv'
  BY <1>5, ScanSkipIInv
<1>6. ASSUME NEW c \in Cores, AllocFail(c) PROVE IInv'
  BY <1>6, AllocFailIInv
<1>7. ASSUME NEW c \in Cores, CountAlloc(c) PROVE IInv'
  BY <1>7, CountAllocIInv
<1>8. ASSUME NEW c \in Cores, CountFree(c) PROVE IInv'
  BY <1>8, CountFreeIInv
<1>9. ASSUME NEW c \in Cores, NEW page \in held, FreePage(c, page) PROVE IInv'
  BY <1>9, FreePageIInv
<1>10. CASE UNCHANGED vars
  <2>1. Linked' = Linked /\ FreePages' = FreePages /\ InFlight' = InFlight
    BY <1>10 DEF Linked, FreePages, InFlight, vars
  <2> QED
    BY <1>10, <2>1 DEF IInv, TypeOK, Chained, Homed, NoPageTwice, NoPageLost, CountExact, vars
<1> QED
  BY <1>1, <1>2, <1>3, <1>4, <1>5, <1>6, <1>7, <1>8, <1>9, <1>10 DEF Next

LEMMA SpecIInv == Spec => []IInv
  BY InitIInv, NextIInv, PTL DEF Spec
----------------------------------------------------------------------------
\* Type correctness of the allocator; in particular a scan never leaves the
\* chunks that exist and the counter never drops below zero.
THEOREM TypeCorrect == Spec => []TypeOK
<1>1. IInv => TypeOK
  BY DEF IInv
<1> QED
  BY <1>1, SpecIInv, PTL

\* allocPage() never hands a page to two callers, on any number of cores.
THEOREM NeverTwice == Spec => []NoPageTwice
<1>1. IInv => NoPageTwice
  BY DEF IInv
<1> QED
  BY <1>1, SpecIInv, PTL

\* allocPage() and freePage() never lose a managed page.
THEOREM NeverLost == Spec => []NoPageLost
<1>1. IInv => NoPageLost
  BY DEF IInv
<1> QED
  BY <1>1, SpecIInv, PTL

\* The count of allocated pages is exact once the calls in progress are done.
THEOREM CountCorrect == Spec => []CountExact
<1>1. IInv => CountExact
  BY DEF IInv
<1> QED
  BY <1>1, SpecIInv, PTL

\* freePage() finds the one chunk a page came from, so neither of its panics
\* can happen for a page allocPage() returned.
THEOREM OwnerAlwaysFound == Spec => []OwnerFound
<1>1. IInv => OwnerFound
  <2> SUFFICES ASSUME IInv, NEW page \in held
               PROVE  \E ch \in Linked : Owners(page) = {ch} /\ page \in ManagedPages(ch)
    BY DEF OwnerFound
  <2>1. PICK ch \in Linked : page \in ManagedPages(ch)
    BY DEF IInv, NoPageLost
  <2>2. \A x \in AllChunks : ManagedPages(x) \subseteq AllocatablePages(x)
    BY ChunkType DEF ManagedPages, AllocatablePages
  <2>3. Owners(page) = {ch}
    BY <2>1, <2>2, ChunksDisjoint DEF Owners, Linked
  <2> QED
    BY <2>1, <2>3
<1> QED
  BY <1>1, SpecIInv, PTL
============================================================================
