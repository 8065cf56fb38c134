--------------------------- MODULE PhysAllocator ---------------------------
(***************************************************************************)
(* The physical page allocator (kernel/src/mem/PhysicalAllocator.cpp and   *)
(* PhysRegion.cpp).  Every usable region of the memory map is managed by a *)
(* chain of PhysRegion objects ("chunks" here), each with a bitmap of free *)
(* pages and a spin lock of its own.  A call visits the chunks one after   *)
(* the other and holds one lock at a time, so calls on several cores       *)
(* interleave between chunks; the count of allocated pages is updated      *)
(* outside any lock.                                                       *)
(*                                                                         *)
(* Addresses are page numbers (all bases are page aligned); lengths stay   *)
(* in bytes because CanAllocate() compares bytes.                          *)
(***************************************************************************)
EXTENDS Integers, Sequences, FiniteSets

CONSTANTS Cores,
          MemoryMap,    \* platform_phys_get_info(): sequence of [base, length]
          PageSize,     \* arch_page_size()
          kMinPages, kMaxPages,
          WordBits      \* bits in a word of the bitmap

ASSUME PhysAssumption ==
    /\ PageSize \in Nat \ {0}
    /\ kMinPages \in Nat \ {0}
    /\ kMaxPages \in Nat \ {0}
    /\ WordBits \in Nat \ {0}
    /\ IsFiniteSet(Cores)
    /\ MemoryMap \in Seq([base : Nat \ {0}, length : Nat])
    /\ \E r \in DOMAIN MemoryMap : MemoryMap[r].length > PageSize * kMinPages
    /\ \A r, s \in DOMAIN MemoryMap : r < s =>
          \/ MemoryMap[r].base + MemoryMap[r].length \div PageSize <= MemoryMap[s].base
          \/ MemoryMap[s].base + MemoryMap[s].length \div PageSize <= MemoryMap[r].base

CanAllocate(len) == len > PageSize * kMinPages

\* Regions of the memory map that are given a PhysRegion.
Regions == {r \in DOMAIN MemoryMap : CanAllocate(MemoryMap[r].length)}

\* Length in bytes of what chunk k of region r and its successors manage.
Remaining(r, k) == MemoryMap[r].length - k * kMaxPages * PageSize

\* The k-th chunk of region r starts where its predecessors, all of them
\* kMaxPages long, end.
Base(ch) == MemoryMap[ch[1]].base + ch[2] * kMaxPages
NumPages(ch) ==
    LET pages == Remaining(ch[1], ch[2]) \div PageSize
    IN  IF pages > kMaxPages THEN kMaxPages ELSE pages

\* commonInit(): bits 0 to bitmapMax - 1 are set, where bitmapMax is one less
\* than the number of pages.
AllocatablePages(ch) == Base(ch)..(Base(ch) + NumPages(ch) - 1)
ManagedPagesWide(ch) == Base(ch)..(Base(ch) + NumPages(ch))
ManagedPages(ch) == Base(ch)..(Base(ch) + NumPages(ch) - 2)

\* All chunks the regions are cut into once the heap is available.
AllChunks ==
    {ch \in UNION {{r} \X (0..MemoryMap[r].length) : r \in Regions} :
        ch[2] = 0 \/ CanAllocate(Remaining(ch[1], ch[2]))}

NextRegions(r) == {s \in Regions : s > r}
FirstOf(S) == CHOOSE r \in S : \A s \in S : r <= s

VARIABLES
    chain,      \* chain[r]: number of chunks of region r linked so far
    vm,         \* region whose chain notifyRegionsVm() is extending; 0 before, NoRegion after
    bitmap,     \* bitmap[ch]: pages of chunk ch whose bit is set (free)
    hint,       \* hint[ch]: lastAllocIdx
    allocated,  \* allocatedPages
    core,       \* locals of the call in progress on each core
    held,       \* pages owned by callers
    sawFull     \* history: was no page free at some instant of the core's call?

vars == <<chain, vm, bitmap, hint, allocated, core, held, sawFull>>

NoRegion == Len(MemoryMap) + 1
Idle == [pc |-> "idle", at |-> <<0, 0>>, page |-> 0]

\* Chunks whose PhysRegion exists, and the pages free in them.
Linked == {ch \in AllChunks : ch[2] < chain[ch[1]]}
FreePages == UNION {bitmap[ch] : ch \in AllChunks}

Init ==
    /\ chain = [r \in Regions |-> 1]
    /\ vm = 0
    /\ bitmap = [ch \in AllChunks |-> IF ch[2] = 0 THEN ManagedPages(ch) ELSE {}]
    /\ hint = [ch \in AllChunks |-> 0]
    /\ allocated = 0
    /\ core = [c \in Cores |-> Idle]
    /\ held = {}
    /\ sawFull = [c \in Cores |-> FALSE]
----------------------------------------------------------------------------
Word(ch, page) == (page - Base(ch)) \div WordBits

\* PhysRegion::alloc() scans the words from the hint on, then from the start;
\* in a word it takes the lowest set bit.
FreeFrom(ch, w) == {p \in bitmap[ch] : Word(ch, p) >= w}
RegionAlloc(ch) ==
    FirstOf(IF FreeFrom(ch, hint[ch]) # {} THEN FreeFrom(ch, hint[ch]) ELSE bitmap[ch])

\* kernel_init() runs on one core: until the chains are complete there is at
\* most one call, and none while a child is linked.
AllIdle == \A c \in Cores : core[c].pc = "idle"
MayCall(c) == core[c].pc = "idle" /\ (vm # NoRegion => AllIdle)

\* allocPage(): enter the critical section and start at the first region.
AllocPage(c) ==
    /\ MayCall(c)
    /\ core' = [core EXCEPT ![c] = [Idle EXCEPT !.pc = "scan", !.at = <<FirstOf(Regions), 0>>]]
    /\ sawFull' = [sawFull EXCEPT ![c] = (FreePages = {})]
    /\ UNCHANGED <<chain, vm, bitmap, hint, allocated, held>>

TakePageKept(ch, page) == bitmap
TakePageWord(ch, page) == [bitmap EXCEPT ![ch] = {p \in @ : Word(ch, p) # Word(ch, page)}]
TakePage(ch, page) == [bitmap EXCEPT ![ch] = @ \ {page}]

\* The chunk under the cursor has a free page: take it.
ScanTake(c) ==
    LET ch == core[c].at
        page == RegionAlloc(ch)
    IN  /\ core[c].pc = "scan"
        /\ bitmap[ch] # {}
        /\ bitmap' = TakePage(ch, page)
        /\ hint' = [hint EXCEPT ![ch] = Word(ch, page)]
        /\ core' = [core EXCEPT ![c].pc = "count", ![c].page = page]
        /\ sawFull' = [d \in Cores |-> sawFull[d] \/ FreePages = {page}]
        /\ UNCHANGED <<chain, vm, allocated, held>>

HasNextChunk(ch) == ch[2] + 1 < chain[ch[1]]

\* It has none: go on to the next chunk of the chain, the next region, or give up.
ScanSkip(c) ==
    LET ch == core[c].at
    IN  /\ core[c].pc = "scan"
        /\ bitmap[ch] = {}
        /\ hint' = [hint EXCEPT ![ch] = 0]
        /\ core' = [core EXCEPT ![c] =
                      IF HasNextChunk(ch) THEN [@ EXCEPT !.at = <<ch[1], ch[2] + 1>>]
                      ELSE IF NextRegions(ch[1]) # {}
                           THEN [@ EXCEPT !.at = <<FirstOf(NextRegions(ch[1])), 0>>]
                           ELSE [@ EXCEPT !.pc = "failed"]]
        /\ UNCHANGED <<chain, vm, bitmap, allocated, held, sawFull>>

\* The call returns 0.
AllocFail(c) ==
    /\ core[c].pc = "failed"
    /\ core' = [core EXCEPT ![c] = Idle]
    /\ UNCHANGED <<chain, vm, bitmap, hint, allocated, held, sawFull>>

\* Count the page and return it to the caller.
CountAlloc(c) ==
    /\ core[c].pc = "count"
    /\ allocated' = allocated + 1
    /\ held' = held \cup {core[c].page}
    /\ core' = [core EXCEPT ![c] = Idle]
    /\ UNCHANGED <<chain, vm, bitmap, hint, sawFull>>

\* checkAddress(): the chunk that contains a page, the last one included.
Owners(page) == {ch \in Linked : page \in AllocatablePages(ch)}
GivePage(ch, page) == [bitmap EXCEPT ![ch] = @ \cup {page}]

\* freePage(): a caller gives a page back to the chunk it came from ...
FreePage(c, page) ==
    /\ MayCall(c)
    /\ page \in held
    /\ \E ch \in Owners(page) :
          /\ page \in ManagedPages(ch)
          /\ bitmap' = GivePage(ch, page)
    /\ held' = held \ {page}
    /\ core' = [core EXCEPT ![c] = [Idle EXCEPT !.pc = "uncount"]]
    /\ UNCHANGED <<chain, vm, hint, allocated, sawFull>>

CountFreeSkipped(c) ==
    /\ core[c].pc = "uncount"
    /\ core' = [core EXCEPT ![c] = Idle]
    /\ UNCHANGED <<chain, vm, bitmap, hint, allocated, held, sawFull>>

\* ... and then decrements the count.
CountFree(c) ==
    /\ core[c].pc = "uncount"
    /\ allocated' = allocated - 1
    /\ core' = [core EXCEPT ![c] = Idle]
    /\ UNCHANGED <<chain, vm, bitmap, hint, held, sawFull>>

\* notifyRegionsVm(): extend every region's chain, one child at a time.  The
\* children are allocated from the heap, so allocations happen in between.
LinkChild ==
    /\ vm \in Regions
    /\ AllIdle
    /\ CanAllocate(Remaining(vm, chain[vm]))
    /\ chain' = [chain EXCEPT ![vm] = @ + 1]
    /\ bitmap' = [bitmap EXCEPT ![<<vm, chain[vm]>>] = ManagedPages(<<vm, chain[vm]>>)]
    /\ UNCHANGED <<vm, hint, allocated, core, held, sawFull>>

NextVmRegion ==
    /\ vm # NoRegion
    /\ AllIdle
    /\ vm \in Regions => ~CanAllocate(Remaining(vm, chain[vm]))
    /\ vm' = IF NextRegions(vm) = {} THEN NoRegion ELSE FirstOf(NextRegions(vm))
    /\ UNCHANGED <<chain, bitmap, hint, allocated, core, held, sawFull>>

Next ==
    \/ LinkChild
    \/ NextVmRegion
    \/ \E c \in Cores :
          \/ AllocPage(c) \/ ScanTake(c) \/ ScanSkip(c) \/ AllocFail(c)
          \/ CountAlloc(c) \/ CountFree(c)
          \/ \E page \in held : FreePage(c, page)

Spec == Init /\ [][Next]_vars
----------------------------------------------------------------------------
\* Pages taken out of a bitmap and not yet returned to the caller.
InFlight == {core[c].page : c \in {d \in Cores : core[d].pc = "count"}}

CoreStates ==
    [pc : {"idle", "scan", "count", "failed", "uncount"},
     at : AllChunks \cup {<<0, 0>>},
     page : Nat]

\* Bitmaps, cursors and counters are well formed; a scan stays on chunks that
\* exist.
TypeOK ==
    /\ chain \in [Regions -> Nat]
    /\ vm \in 0..NoRegion
    /\ bitmap \in [AllChunks -> SUBSET Nat]
    /\ hint \in [AllChunks -> Nat]
    /\ allocated \in Nat
    /\ core \in [Cores -> CoreStates]
    /\ \A c \in Cores : core[c].pc = "scan" => core[c].at \in Linked
    /\ held \subseteq Nat
    /\ sawFull \in [Cores -> BOOLEAN]

\* A page is free in one bitmap, on its way to one caller, or owned by a
\* caller, and never two of these: alloc() on several cores never hands out a
\* page twice, and never one that is in use.
NoPageTwice ==
    /\ held \cap FreePages = {}
    /\ \A c \in Cores : core[c].pc = "count" =>
          /\ core[c].page \notin held \cup FreePages
          /\ \A d \in Cores \ {c} : core[d].pc = "count" => core[d].page # core[c].page
    /\ \A ch, dh \in AllChunks : ch # dh => bitmap[ch] \cap bitmap[dh] = {}

\* No page is ever lost: whatever calls interleave, each page commonInit()
\* marked free is free, in flight or owned.
NoPageLost ==
    UNION {ManagedPages(ch) : ch \in Linked} = held \cup InFlight \cup FreePages

\* The counter is exact up to the calls between their bitmap update and their
\* count: with none in progress it is the number of pages callers own.
CountExact ==
    allocated = Cardinality(held) + Cardinality({c \in Cores : core[c].pc = "uncount"})

\* Every page a caller owns is found again by freePage(): exactly one linked
\* chunk contains it, below its bitmapMax, so neither panic can happen.
OwnerFound ==
    \A page \in held : \E ch \in Linked : Owners(page) = {ch} /\ page \in ManagedPages(ch)

\* "Physical address of a newly allocated page, or 0 if no memory available":
\* a call that fails has seen an instant with no free page.
FailsOnlyWhenFull == \A c \in Cores : core[c].pc = "failed" => sawFull[c]

\* "mark the allocatable ones as free": before the first call every page of a
\* chunk's allocatable range is free.
AllocatableInitiallyFree ==
    held = {} /\ InFlight = {} => \A ch \in Linked : bitmap[ch] = AllocatablePages(ch)
============================================================================
