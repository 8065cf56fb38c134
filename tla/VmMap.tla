-------------------------------- MODULE VmMap --------------------------------
(***************************************************************************)
(* Virtual memory: regions (kernel/src/vm/MapEntry.cpp), the address       *)
(* spaces of the tasks (vm/Map.cpp, MapTree) and the system calls on them  *)
(* (sys/VM.cpp).  Addresses and lengths are counted in pages.              *)
(*                                                                         *)
(* A caller is a thread in a system call; it can be preempted between the  *)
(* parts of the call that hold a lock, and each such part is a step.  The  *)
(* page fault handler runs with interrupts off, and is one step.           *)
(***************************************************************************)
EXTENDS MapTree, FiniteSets, FiniteSetsExt

CONSTANTS Tasks, Regions,
          Anon,             \* the regions backed by anonymous memory; others are physical
          physBase,         \* where those start
          Callers, TaskOf,  \* the threads that make the calls, and their tasks
          Makes, Requests,  \* of each caller: the regions it creates, the mappings it asks for,
          Unmaps, Deallocs, \*    what it unmaps from which task, what it deallocates
          Lengths,          \* of each region: the lengths it may have
          Flags,            \* sets of permissions a region may have
          Frames,           \* pages of physical memory
          Worlds,           \* the sets of regions that may come up together
          Touched,          \* of each task: the addresses it uses
          kMaxSequentialPrefault,
          AddrMod,          \* addresses wrap
          None

MaxLength == Max(UNION {Lengths[r] : r \in Regions})
Offsets == 0 .. MaxLength - 1
Addrs == 1 .. AddrMod - 1

ASSUME VmAssumption ==
    /\ Frames \subseteq Nat /\ physBase \in [Regions -> Nat \ Frames]
    /\ Anon \subseteq Regions /\ TaskOf \in [Callers -> Tasks]
    /\ Makes \in [Callers -> SUBSET Regions]
    /\ Unmaps \in [Callers -> SUBSET (Regions \X Tasks)] /\ Deallocs \in [Callers -> SUBSET Regions]
    /\ \A c \in Callers : \A q \in Requests[c] :
          /\ q.entry \in Regions /\ q.task \in Tasks /\ q.transfer \in BOOLEAN
          /\ q.start \in Addrs /\ q.end \in {0} \cup Addrs /\ q.length \in Nat
          /\ q.start + q.length + MaxLength < AddrMod
    /\ Lengths \in [Regions -> SUBSET Nat] /\ None \notin Frames \cup Tasks
    /\ Worlds \subseteq SUBSET Regions /\ Touched \in [Tasks -> SUBSET Addrs]

VARIABLES tree,                     \* of each task: its mappings,
          pte,                      \*    and its page table
          state, length, flags,     \* of each region, as are the next four
          owner,
          pages,                    \* the frame of each page faulted in
          views,                    \* mappedIn: task, base and mask
          torn,                     \* the regions two threads changed that list of at once
          seq,                      \* the fault sequence detector
          owned,                    \* of each task: ownedRegions
          used,                     \* frames allocated
          call,                     \* where each caller is, and its locals
          panic,
          mixed                     \* history: the tasks whose map was ever Mixed, see below

regionVars == <<state, length, flags, owner, seq>>
lists == <<views, torn>>
vars == <<tree, pte, regionVars, pages, lists, owned, used, call, panic, mixed>>

NoCall == [op |-> "idle", entry |-> None, task |-> None, base |-> 0, size |-> 0,
           mask |-> {}, transfer |-> FALSE]
NoPages == [i \in Offsets |-> None]
\* (The detector's state has no initialiser; the slab allocator zeroes the region's memory.)
IdleDetector == [st |-> "Idle", last |-> 0, stride |-> 0, num |-> 0]

Init ==
    /\ tree = [m \in Tasks |-> Empty]
    /\ pte = [m \in Tasks |-> [a \in Addrs |-> None]]
    /\ \E world \in Worlds : state = [r \in Regions |-> IF r \in world THEN "none" ELSE "never"]
    /\ length = [r \in Regions |-> 0]
    /\ flags = [r \in Regions |-> {}]
    /\ owner = [r \in Regions |-> None]
    /\ pages = [r \in Regions |-> NoPages]
    /\ views = [r \in Regions |-> {}]
    /\ torn = {}
    /\ seq = [r \in Regions |-> IdleDetector]
    /\ owned = [m \in Tasks |-> {}]
    /\ used = {}
    /\ call = [c \in Callers |-> NoCall]
    /\ panic = "none"
    /\ mixed = {}

Goto(c, op) == call' = [call EXCEPT ![c].op = op]
\* The same, done with the mapping.
Leave(c, op) == call' = [call EXCEPT ![c] = [NoCall EXCEPT !.op = op, !.entry = call[c].entry,
                                                           !.task = call[c].task]]
----------------------------------------------------------------------------
\* Physical memory backing page i of region r.
Backing(r, i) ==
    IF r \in Anon THEN pages[r][i] ELSE IF i < length[r] THEN physBase[r] + i ELSE None

\* mapAnonPages() and mapPhysMem() with a mask clear the permissions before they look at them.
Mode(f, mask) == IF mask = {} THEN f ELSE {}

\* A page table with all of region r mapped from base on.
Mapped(table, r, f, base, mask) ==
    [a \in Addrs |-> IF a - base \in Offsets /\ Backing(r, a - base) # None
                     THEN [frame |-> Backing(r, a - base), mode |-> Mode(f, mask)]
                     ELSE table[a]]

\* VmAllocAnonRegion and VmAllocPhysRegion; the handle is nobody else's before they return.
New(c, r, n, f) ==
    /\ panic = "none" /\ call[c] = NoCall /\ state[r] = "none"
    /\ state' = [state EXCEPT ![r] = "live"]
    /\ length' = [length EXCEPT ![r] = n]
    /\ flags' = [flags EXCEPT ![r] = f]
    /\ owner' = [owner EXCEPT ![r] = TaskOf[c]]
    /\ UNCHANGED <<tree, pte, lists, seq, panic, mixed>>
AddVmRegion(c, r) == owned' = [owned EXCEPT ![TaskOf[c]] = @ \cup {r}] /\ UNCHANGED call

VmAllocRegion(c, r, n, f) == New(c, r, n, f) /\ AddVmRegion(c, r) /\ UNCHANGED <<pages, used>>

\* Which free frame the allocator gives is immaterial; taking that with the number of the
\* page where it can keeps down the orders in which frames come up.
Pick(i, free) == IF i \in free THEN i ELSE Min(free)

\* Pages of a region given frames: m has the region's pages and `used'.
Allocated(m, offsets) ==
    FoldSet(LAMBDA i, x : LET f == Pick(i, Frames \ x.used)
                          IN  [pages |-> [x.pages EXCEPT ![i] = f], used |-> x.used \cup {f}],
            m, offsets)
Fits(offsets) == Cardinality(offsets) <= Cardinality(Frames \ used)

\* kNoLazyAlloc: faultInAllPages() takes frames until it has them all, or there are no
\* more; then the call drops the region, with the frames it has got, when it returns.
VmAllocAll(c, r, n, f) ==
    LET got == 0 .. Min({n, Cardinality(Frames \ used)}) - 1
        m == Allocated([pages |-> NoPages, used |-> used], got)
    IN  /\ r \in Anon
        /\ New(c, r, n, f)
        /\ pages' = [pages EXCEPT ![r] = m.pages] /\ used' = m.used
        /\ IF Fits(0 .. n - 1) THEN AddVmRegion(c, r)
           ELSE /\ call' = [call EXCEPT ![c] = [NoCall EXCEPT !.op = "return", !.entry = r,
                                                              !.task = TaskOf[c]]]
                /\ UNCHANGED owned
----------------------------------------------------------------------------
\* A window still being taken down: its leaf is out of the tree.
Leaving(m) == {[address |-> call[c].base, size |-> call[c].size, entry |-> call[c].entry] :
                  c \in {d \in Callers : call[d].op \in {"unmap", "dealloc"} /\ call[d].task = m}}
\* One thread takes down a window of a region, and another one is still putting one up.
Crossed(m) == \E c, d \in Callers :
    /\ call[c].entry = call[d].entry /\ call[c].task = m /\ call[d].task = m
    /\ call[c].op \in {"unmap", "dealloc"} /\ call[d].op \in {"append", "link", "map"}
\* A region has a window shorter than its memory (what was faulted in before it was shrunk
\* included), or has two windows.
Narrow(m) == \E l \in Leaves(tree[m]) :
    \/ l.size < length[l.entry]
    \/ l.entry \in Anon /\ \E i \in Offsets : i >= l.size /\ pages[l.entry][i] # None
Doubled(m) == \E k, l \in Leaves(tree[m]) : k # l /\ k.entry = l.entry
Mixed(m) == Crossed(m) \/ Narrow(m) \/ Doubled(m)
\* The steps that can make a map Mixed have this as a conjunct.
Remember == mixed' = mixed \cup {m \in Tasks : Mixed(m)'}
----------------------------------------------------------------------------
\* VmRegionMap and VmRegionMapEx: under the lock of the map a window is found and taken ...
Window(q) == IF q.length = 0 THEN length[q.entry] ELSE q.length
Placed(q) ==
    IF q.end = 0
    THEN IF FindOverlapping(tree[q.task], q.start, Window(q)) = {} THEN {q.start} ELSE {}
    ELSE FirstFit(tree[q.task], q.start, (q.end - Window(q)) % AddrMod, Window(q))

VmRegionMap(c, q) ==
    /\ panic = "none" /\ call[c] = NoCall /\ state[q.entry] = "live"
    /\ q.transfer => owner[q.entry] = TaskOf[c]
    /\ \E base \in Placed(q) :
          IF HasKey(tree[q.task], base) THEN panic' = "equal keys" /\ UNCHANGED <<tree, call>>
          ELSE /\ tree' = [tree EXCEPT ![q.task] =
                             Insert(@, [address |-> base, size |-> Window(q), entry |-> q.entry])]
               /\ call' = [call EXCEPT ![c] = [op |-> "append", entry |-> q.entry,
                                               task |-> q.task, base |-> base,
                                               size |-> Window(q), mask |-> q.mask,
                                               transfer |-> q.transfer]]
               /\ UNCHANGED panic
    /\ UNCHANGED <<pte, regionVars, pages, lists, owned, used>>
    /\ Remember

\* ... addedToMap() notes the view, under no lock: it looks at the tail of the list ...
AppendView(c) ==
    /\ panic = "none" /\ call[c].op = "append"
    /\ Goto(c, "link")
    /\ UNCHANGED <<tree, pte, regionVars, pages, lists, owned, used, panic, mixed>>

\* (a list that one thread changes while another has looked at its tail is torn: what of it
\* is still reached from the head is anybody's guess, now and after later changes)
Tears(c, r) ==
    torn' = torn \cup IF \E d \in Callers \ {c} : call[d].op = "link" /\ call[d].entry = r
                      THEN {r} ELSE {}
Remaining(r, vs) == IF r \in torn THEN SUBSET vs ELSE {vs}

\* ... links the view in behind it ...
LinkView(c) ==
    LET k == call[c] IN
    /\ panic = "none" /\ k.op = "link"
    /\ \E vs \in Remaining(k.entry, views[k.entry] \cup {<<k.task, k.base, k.mask>>}) :
          views' = [views EXCEPT ![k.entry] = vs]
    /\ Tears(c, k.entry)
    /\ Goto(c, "map")
    /\ UNCHANGED <<tree, pte, regionVars, pages, owned, used, panic, mixed>>

\* ... and maps what memory there is, under the lock of the region.
AddedToMap(c) ==
    LET k == call[c] IN
    /\ panic = "none" /\ k.op = "map"
    /\ pte' = [pte EXCEPT ![k.task] = Mapped(@, k.entry, flags[k.entry], k.base, k.mask)]
    /\ Leave(c, IF k.transfer THEN "transfer" ELSE "return")
    /\ UNCHANGED <<tree, regionVars, pages, lists, owned, used, panic, mixed>>

SetOwner(c) ==
    /\ panic = "none" /\ call[c].op = "transfer"
    /\ owner' = [owner EXCEPT ![call[c].entry] = call[c].task]
    /\ Leave(c, "return")
    /\ UNCHANGED <<tree, pte, state, length, flags, seq, pages, lists, owned, used, panic, mixed>>
----------------------------------------------------------------------------
\* Map::remove(): the first leaf found for r leaves the tree ...
RemoveLeaf(c, r, m, op) ==
    \E leaf \in LeafFor(tree[m], r) :
       IF RootWithOneChild(tree[m], leaf.address)
       THEN panic' = "null parent" /\ UNCHANGED <<tree, call>>
       ELSE /\ tree' = [tree EXCEPT ![m] = Remove(@, leaf.address)]
            /\ call' = [call EXCEPT ![c] = [NoCall EXCEPT !.op = op, !.entry = r, !.task = m,
                                            !.base = leaf.address, !.size = leaf.size]]
            /\ UNCHANGED panic

VmRegionUnmap(c, r, m) ==
    /\ panic = "none" /\ call[c] = NoCall /\ state[r] = "live"
    /\ RemoveLeaf(c, r, m, "unmap")
    /\ UNCHANGED <<pte, regionVars, pages, lists, owned, used>>
    /\ Remember

\* ... and removedFromMap() clears its window, and all the task's views.
Cleared(table, base, size) ==
    [a \in Addrs |-> IF a \in base .. base + size - 1 THEN None ELSE table[a]]
OtherViews(r, m) == {v \in views[r] : v[1] # m}

RemovedFromMap(c) ==
    LET k == call[c] IN
    /\ panic = "none" /\ k.op \in {"unmap", "dealloc"}
    /\ pte' = [pte EXCEPT ![k.task] = Cleared(@, k.base, k.size)]
    /\ \E vs \in Remaining(k.entry, OtherViews(k.entry, k.task)) :
          views' = [views EXCEPT ![k.entry] = vs]
    /\ Tears(c, k.entry)
    /\ Leave(c, IF k.op = "dealloc" THEN "disown" ELSE "return")
    /\ UNCHANGED <<tree, regionVars, pages, owned, used, panic, mixed>>

\* VmDealloc: unmaps the region if the task has it mapped ...
VmDealloc(c, r) ==
    /\ panic = "none" /\ call[c] = NoCall /\ state[r] = "live"
    /\ call' = [call EXCEPT ![c] = [NoCall EXCEPT
                   !.op = IF LeafFor(tree[TaskOf[c]], r) # {} THEN "remove" ELSE "disown",
                   !.entry = r, !.task = TaskOf[c]]]
    /\ UNCHANGED <<tree, pte, regionVars, pages, lists, owned, used, panic, mixed>>

\* (somebody else may have done so since, and then the call fails)
DeallocRemove(c) ==
    LET k == call[c] IN
    /\ panic = "none" /\ k.op = "remove"
    /\ \/ RemoveLeaf(c, k.entry, k.task, "dealloc")
       \/ LeafFor(tree[k.task], k.entry) = {} /\ Leave(c, "return") /\ UNCHANGED <<tree, panic>>
    /\ UNCHANGED <<pte, regionVars, pages, lists, owned, used>>
    /\ Remember

\* ... and takes it from the task's list.
Disown(c) ==
    LET k == call[c] IN
    /\ panic = "none" /\ k.op = "disown"
    /\ owned' = [owned EXCEPT ![k.task] = @ \ {k.entry}]
    /\ Leave(c, "return")
    /\ UNCHANGED <<tree, pte, regionVars, pages, lists, used, panic, mixed>>

\* A call returns; ~MapEntry frees the pages if it had the last reference to the region.
Entries(m) == {l.entry : l \in Leaves(tree[m])}
HeldByOwners(r, c) == \/ \E m \in Tasks : r \in owned[m]
                      \/ \E d \in Callers \ {c} : call[d].entry = r
Held(r, c) == \/ \E m \in Tasks : r \in Entries(m) \cup owned[m]
              \/ \E d \in Callers \ {c} : call[d].entry = r

ReturnFreeing(c) ==
    LET r == call[c].entry IN
    /\ panic = "none" /\ call[c].op = "return"
    /\ call' = [call EXCEPT ![c] = NoCall]
    /\ IF Held(r, c) THEN UNCHANGED <<regionVars, pages, lists, used>>
       ELSE /\ state' = [state EXCEPT ![r] = "none"]
            /\ used' = used \ {pages[r][i] : i \in 0 .. length[r] - 1}
            /\ pages' = [pages EXCEPT ![r] = NoPages]
            /\ views' = [views EXCEPT ![r] = {}] /\ torn' = torn \ {r}
            /\ length' = [length EXCEPT ![r] = 0]
            /\ flags' = [flags EXCEPT ![r] = {}]
            /\ owner' = [owner EXCEPT ![r] = None]
            /\ seq' = [seq EXCEPT ![r] = IdleDetector]
    /\ UNCHANGED <<tree, pte, owned, panic, mixed>>
Return(c) ==
    LET r == call[c].entry IN
    /\ panic = "none" /\ call[c].op = "return"
    /\ call' = [call EXCEPT ![c] = NoCall]
    /\ IF Held(r, c) THEN UNCHANGED <<regionVars, pages, lists, used>>
       ELSE /\ state' = [state EXCEPT ![r] = "none"]
            /\ used' = used \ {pages[r][i] : i \in Offsets}
            /\ pages' = [pages EXCEPT ![r] = NoPages]
            /\ views' = [views EXCEPT ![r] = {}] /\ torn' = torn \ {r}
            /\ length' = [length EXCEPT ![r] = 0]
            /\ flags' = [flags EXCEPT ![r] = {}]
            /\ owner' = [owner EXCEPT ![r] = None]
            /\ seq' = [seq EXCEPT ![r] = IdleDetector]
    /\ UNCHANGED <<tree, pte, owned, panic, mixed>>
----------------------------------------------------------------------------
\* VmRegionResize: windows, page tables and pages past the new end stay as they are.
VmRegionResize(c, r, n) ==
    /\ panic = "none" /\ call[c] = NoCall /\ state[r] = "live" /\ owner[r] = TaskOf[c] /\ n # 0
    /\ length' = [length EXCEPT ![r] = n]
    /\ UNCHANGED <<tree, pte, state, flags, owner, seq, pages, lists, owned, used, call, panic>>
    /\ Remember

\* VmRegionUpdatePermissions: all views are mapped again.
Remapped(r, f, vs) ==
    [m \in Tasks |-> FoldSet(LAMBDA v, table : Mapped(table, r, f, v[2], v[3]),
                             pte[m], {v \in vs : v[1] = m})]
VmRegionUpdatePermissions(c, r, f) ==
    /\ panic = "none" /\ call[c] = NoCall /\ state[r] = "live" /\ owner[r] = TaskOf[c]
    /\ flags' = [flags EXCEPT ![r] = f]
    /\ pte' = IF f = flags[r] THEN pte ELSE Remapped(r, f, views[r])
    /\ UNCHANGED <<tree, state, length, owner, seq, pages, lists, owned, used, call, panic, mixed>>
----------------------------------------------------------------------------
\* detectFaultSequence(): the detector after a fault of page i, and how many pages it
\* wants faulted in behind it; those past the end of the region are not.
Detect(q, i) ==
    CASE q.st = "Idle" -> [q EXCEPT !.st = "Detect1", !.last = i, !.stride = 0]
      [] q.st # "Idle" /\ i <= q.last -> [q EXCEPT !.st = "Idle"]
      [] q.st = "Detect1" /\ i > q.last ->
            [q EXCEPT !.st = "Detect2", !.last = i, !.stride = i - q.last]
      [] q.st = "Detect2" /\ i > q.last /\ i - q.last # q.stride ->
            [q EXCEPT !.st = "Idle", !.num = 0]
      [] OTHER -> [q EXCEPT !.last = i, !.num = @ + 1]
Sequential(q, i) == q.st = "Detect2" /\ i > q.last /\ i - q.last = q.stride

Wanted(q, i) == IF Sequential(q, i) THEN Min({q.num + 1, kMaxSequentialPrefault}) ELSE 0
PrefaultOverrun(q, i, len) == i + 1 .. Min({i + Wanted(q, i), MaxLength - 1})
Prefault(q, i, len) == i + 1 .. Min({i + Wanted(q, i), len - 1})
Detected(q, i, len) ==
    LET d == Detect(q, i) IN
    IF ~ Sequential(q, i) THEN d
    ELSE IF i + Wanted(q, i) < len THEN [d EXCEPT !.last = i + Wanted(q, i)]
    ELSE [d EXCEPT !.st = "Idle", !.num = 0]

\* handlePagefault(): a page of an anonymous region, not present, is found or allocated.
PageFault(m, a) ==
    /\ panic = "none" /\ pte[m][a] = None
    /\ \E leaf \in Find(tree[m], a) :
       LET r == leaf.entry
           i == a - leaf.address
           known == pages[r][i] # None
           more == IF known THEN {} ELSE Prefault(seq[r], i, length[r])
           fresh == {j \in {i} \cup more : pages[r][j] = None}
           taken == Allocated([pages |-> pages[r], used |-> used], fresh)
       IN  /\ r \in Anon /\ i < length[r]
           /\ IF Fits(fresh)
              THEN /\ seq' = IF known THEN seq
                             ELSE [seq EXCEPT ![r] = Detected(@, i, length[r])]
                   /\ pages' = [pages EXCEPT ![r] = taken.pages]
                   /\ used' = taken.used
                   /\ pte' = [pte EXCEPT ![m] = [b \in Addrs |->
                                 IF b - leaf.address \in {i} \cup more
                                 THEN [frame |-> taken.pages[b - leaf.address], mode |-> flags[r]]
                                 ELSE pte[m][b]]]
                   /\ UNCHANGED panic
              ELSE panic' = "no memory" /\ UNCHANGED <<seq, pages, used, pte>>
    /\ UNCHANGED <<tree, state, length, flags, owner, lists, owned, call, mixed>>
----------------------------------------------------------------------------
\* The rest of a call.
Proceed(c) == \/ AppendView(c) \/ LinkView(c) \/ AddedToMap(c) \/ SetOwner(c)
              \/ RemovedFromMap(c) \/ DeallocRemove(c) \/ Disown(c) \/ Return(c)

Next ==
    \/ \E c \in Callers :
          \/ \E r \in Makes[c], f \in Flags : \E n \in Lengths[r] :
                VmAllocRegion(c, r, n, f) \/ VmAllocAll(c, r, n, f)
          \/ \E q \in Requests[c] : VmRegionMap(c, q)
          \/ \E u \in Unmaps[c] : VmRegionUnmap(c, u[1], u[2])
          \/ \E r \in Deallocs[c] : VmDealloc(c, r)
          \/ \E r \in Regions : \/ \E n \in Lengths[r] : VmRegionResize(c, r, n)
                                \/ \E f \in Flags : VmRegionUpdatePermissions(c, r, f)
          \/ Proceed(c)
    \/ \E m \in Tasks : \E a \in Touched[m] : PageFault(m, a)

Spec == Init /\ [][Next]_vars
----------------------------------------------------------------------------
TypeOK ==
    /\ \A m \in Tasks : \A l \in Leaves(tree[m]) :
          l.entry \in Regions /\ l.address \in Addrs /\ l.size \in Nat
    /\ \A m \in Tasks, a \in Addrs : pte[m][a] # None =>
          /\ pte[m][a].frame \in Nat
          /\ pte[m][a].mode \in Flags \cup {{}}
    /\ state \in [Regions -> {"never", "none", "live"}]
    /\ \A r \in Regions : length[r] \in {0} \cup Lengths[r]
    /\ flags \in [Regions -> Flags \cup {{}}]
    /\ owner \in [Regions -> Tasks \cup {None}]
    /\ pages \in [Regions -> [Offsets -> Frames \cup {None}]]
    /\ \A r \in Regions : \A v \in views[r] : v[1] \in Tasks /\ v[2] \in Addrs
    /\ \A r \in Regions : /\ seq[r].st \in {"Idle", "Detect1", "Detect2"}
                          /\ seq[r].last \in Offsets /\ seq[r].stride \in Offsets
    /\ torn \subseteq Regions /\ mixed \subseteq Tasks
    /\ owned \in [Tasks -> SUBSET Regions] /\ used \subseteq Frames
    /\ \A c \in Callers : call[c].op \in {"idle", "append", "link", "map", "transfer", "unmap",
                                          "remove", "dealloc", "disown", "return"}
    /\ panic \in {"none", "null parent", "equal keys", "no memory"}

\* A region nobody maps or unmaps just now.
Settled(r) == \A c \in Callers : call[c].entry # r

(***************************************************************************)
(* The search tree finds what is mapped: its windows are in order, never   *)
(* overlap and are there once, whichever were taken or given up before,    *)
(* and find() of any address is the one window that contains it (or that   *)
(* begins there and is empty).                                             *)
(***************************************************************************)
TreeRight == \A m \in Tasks :
    /\ LET s == InOrder(tree[m]) IN
       \A i, j \in DOMAIN s : i < j => /\ s[i].address < s[j].address
                                       /\ s[i].address + s[i].size <= s[j].address
    /\ \A a \in Addrs : Find(tree[m], a)
                          = {l \in Leaves(tree[m]) : l.address = a \/ Contains(l, a)}

(***************************************************************************)
(* Frames are neither lost nor shared: those allocated are the pages of    *)
(* the regions there are, each of exactly one page of one region, whoever  *)
(* faulted it in, resized the region or failed to allocate.                *)
(***************************************************************************)
FramesOnce ==
    LET faulted == {p \in Regions \X Offsets : pages[p[1]][p[2]] # None} IN
    /\ used = {pages[p[1]][p[2]] : p \in faulted}
    /\ \A p, q \in faulted : pages[p[1]][p[2]] = pages[q[1]][q[2]] => p = q


(***************************************************************************)
(* A view shows no more than its length (VmMapRequest: it "may be smaller  *)
(* or larger than the object"; MapTreeLeaf: "if it grows, the new pages    *)
(* are simply inaccessible"): what a page table maps is in a window.       *)
(***************************************************************************)
InWindow == \A m \in Tasks, a \in Addrs : pte[m][a] # None =>
    \E l \in Leaves(tree[m]) \cup Leaving(m) : Contains(l, a)


(***************************************************************************)
(* Deallocating a region is "safe to call ... on a region shared with      *)
(* other tasks" (VmDealloc): whoever deallocates, unmaps and returns, and  *)
(* in whatever order, no page table maps a frame that has been given back. *)
(* The exceptions are those of MappingsTrue.                               *)
(***************************************************************************)
FreeUnmapped == \A m \in Tasks \ mixed : \A a \in Addrs :
    pte[m][a] # None /\ pte[m][a].frame \in Frames => pte[m][a].frame \in used

(***************************************************************************)
(* No page is faulted in past the end of a region, the pages faulted in    *)
(* ahead of a sequence of faults included.                                 *)
(***************************************************************************)
FaultsWithin == [][\A r \in Regions, i \in Offsets :
                      pages[r][i] = None /\ pages'[r][i] # None => i < length'[r]]_vars

(***************************************************************************)
(* A mapping that is found is removed (the comment of MapTree::remove):    *)
(* unmapping never stops the kernel.                                       *)
(***************************************************************************)
UnmapSucceeds == panic # "null parent"
=============================================================================
