--------------------------- MODULE MemoryContexts ---------------------------
(***************************************************************************)
(* The tree of memory contexts (memcontext.cpp), the scopes that switch    *)
(* CurrentMemoryContext (jm_alloc.h) and the three contexts each storage   *)
(* engine makes and deletes (engine.cpp).  One thread; the program's own   *)
(* calls, and the calls the tests make on a scratch context.               *)
(*                                                                         *)
(* node[c] is the MemoryContextData of c with the fields of its allocator, *)
(* heap the malloc'ed blocks, chunks what callers hold, scopes the         *)
(* ScopeContext and ScopeChildContext objects on the stack, innermost      *)
(* first, allocs a count that bounds the runs.  fault is set when a freed  *)
(* context is touched, or when a walk of a child list never ends; corrupt  *)
(* when an allocation uses a freed block, from where anything may happen.  *)
(***************************************************************************)
EXTENDS Allocators

CONSTANTS
    Top, ErrorCtx,      \* TopMemoryContext and ErrorContext
    Engines,            \* storage engines
    Scratch,            \* contexts made by ScopeChildContext and by tests
    NoCtx,              \* nullptr, of contexts
    Sizes,              \* sizes asked of an AllocSet
    BumpSizes,          \* sizes asked of a Bump context
    MaxAllocs,          \* calls of jmalloc and jrealloc
    MaxScopes           \* scopes nested in each other

VARIABLES node, heap, chunks, scopes, current, fault, corrupt, allocs

vars == <<node, heap, chunks, scopes, current, fault, corrupt, allocs>>

EngineCtx(e) == <<e, "engine">>
WalCtx(e)    == <<e, "wal">>
VacuumCtx(e) == <<e, "vacuum">>
EngineTree(e) == {EngineCtx(e), WalCtx(e), VacuumCtx(e)}

Contexts == {Top, ErrorCtx} \cup Scratch \cup UNION {EngineTree(e) : e \in Engines}

-----------------------------------------------------------------------------
(* A context that does not exist, and the two constructors.                  *)
Fresh(kind, init, max) ==
    [kind |-> kind, parent |-> NoCtx, first |-> NoCtx, prev |-> NoCtx, next |-> NoCtx,
     blocks |-> <<>>, freeptr |-> Nil, mem_allocated |-> 0,
     freelist |-> [i \in 0..kAllocSetNumFreelists - 1 |-> <<>>],
     init_block_size |-> init, max_block_size |-> max, next_block_size |-> init,
     limit |-> ChunkLimit(max)]

Gone == Fresh("none", 0, 0)

Alive(n, c) == n[c].kind # "none"

(* A store into a context: n carries the contexts and whether a freed one    *)
(* was written.                                                              *)
Put(t, c, field, v) ==
    IF c # NoCtx /\ Alive(t.n, c)
    THEN [t EXCEPT !.n[c] = [@ EXCEPT ![field] = v]]
    ELSE [t EXCEPT !.bad = TRUE]

MemoryContextLinkChild(t, p, c) ==
    LET first == t.n[p].first
        t1 == Put(t, c, "parent", p)
    IN  IF first = NoCtx
        THEN Put(Put(Put(t1, c, "prev", c), c, "next", NoCtx), p, "first", c)
        ELSE LET tail == t.n[first].prev
                 t2 == Put(Put(t1, c, "prev", tail), c, "next", first)
             IN  Put(Put(Put(t2, tail, "next", c), first, "prev", c), p, "first", c)

(* The last three stores of MemoryContextUnlinkChild.                        *)
Detached(t, c) == Put(Put(Put(t, c, "prev", NoCtx), c, "next", NoCtx), c, "parent", NoCtx)

(* An unlink that leaves the new head's link to the tail as it was.          *)
MemoryContextUnlinkChild_NoTail(t, c) ==
    LET me == t.n[c]
        p  == me.parent
    IN  IF p # NoCtx /\ t.n[p].first = c
        THEN Detached(Put(t, p, "first", IF me.prev = c THEN NoCtx ELSE me.next), c)
        ELSE IF p = NoCtx THEN t
        ELSE Detached(Put(Put(t, me.prev, "next", me.next), me.next, "prev", me.prev), c)

MemoryContextUnlinkChild(t, c) ==
    LET me == t.n[c]
        p  == me.parent
    IN  CASE p = NoCtx -> t
          [] p # NoCtx /\ ~Alive(t.n, p) -> [t EXCEPT !.bad = TRUE]
          [] p # NoCtx /\ Alive(t.n, p) /\ t.n[p].first = NoCtx -> t
          [] p # NoCtx /\ Alive(t.n, p) /\ t.n[p].first = c ->
               LET t1 == IF me.prev = c \/ me.next = NoCtx THEN t
                         ELSE Put(t, me.next, "prev", me.prev)
               IN  Detached(Put(t1, p, "first", IF me.prev = c THEN NoCtx ELSE me.next), c)
          [] OTHER ->
               LET t1 == Put(t, me.prev, "next", me.next)
               IN  Detached(IF me.next # NoCtx THEN Put(t1, me.next, "prev", me.prev)
                            ELSE Put(t1, t.n[p].first, "prev", me.prev), c)

(* A delete that frees the context and forgets its blocks.                   *)
DeleteContext_KeepBlocks(t, c) == [t EXCEPT !.n[c] = Gone]

(* methods->delete_context: the blocks go, then the context itself.          *)
DeleteContext(t, c) ==
    IF ~Alive(t.n, c) THEN [t EXCEPT !.bad = TRUE]
    ELSE [t EXCEPT !.h = DestroyBlocks(@, ToSet(t.n[c].blocks)), !.n[c] = Gone]

RECURSIVE MemoryContextDeleteChildren(_, _)
MemoryContextDeleteChildren(t, c) ==
    LET child == t.n[c].first
    IN  IF child = NoCtx \/ t.bad THEN t
        ELSE IF ~Alive(t.n, child) THEN [t EXCEPT !.bad = TRUE]
        ELSE LET t1 == MemoryContextUnlinkChild(t, child)
             IN  MemoryContextDeleteChildren(
                     DeleteContext(MemoryContextDeleteChildren(t1, child), child), c)

MemoryContextDelete(t, c) ==
    DeleteContext(MemoryContextUnlinkChild(MemoryContextDeleteChildren(t, c), c), c)

(* JMAllocSetContextCreate and JMBumpContextCreate under a parent.           *)
Create(t, c, p, new) ==
    LET t1 == [t EXCEPT !.n[c] = new]
    IN  IF p = NoCtx THEN t1
        ELSE MemoryContextLinkChild(MemoryContextUnlinkChild(t1, c), p, c)

-----------------------------------------------------------------------------
(* MemoryContextResetChildren follows nextchild to its end; the child list   *)
(* of two or more children is a ring, which has none.                        *)
RECURSIVE MemoryContextReset(_, _)
MemoryContextReset(t, c) ==
    LET child == t.n[c].first
        t1 == IF child = NoCtx THEN t
              ELSE IF t.n[child].next # NoCtx \/ ~Alive(t.n, child)
              THEN [t EXCEPT !.bad = TRUE]
              ELSE MemoryContextReset(t, child)
        r  == IF t1.n[c].kind = "Bump" THEN BumpReset(t1.n[c], t1.h)
              ELSE AllocSetReset(t1.n[c], t1.h)
    IN  [t1 EXCEPT !.n[c] = r.c, !.h = r.h]

(* The contexts a caller made below c: what a reset or a delete of c takes.  *)
RECURSIVE Below(_, _)
Below(n, c) == {c} \cup UNION {Below(n, d) : d \in {x \in DOMAIN n : n[x].parent = c}}

-----------------------------------------------------------------------------
Tree == [n |-> node, h |-> heap, bad |-> FALSE]

Install(t) ==
    /\ node' = t.n
    /\ heap' = t.h
    /\ fault' = (fault \/ t.bad)

(* Nobody outside the contexts of dead keeps a chunk of theirs.              *)
Drop(dead) == chunks' = {k \in chunks : k.ctx \notin dead}

(* The contexts some scope will come back to, or is in.                      *)
InScope == UNION {{scopes[i].ctx, scopes[i].saved} : i \in DOMAIN scopes} \cup {current}

(* MemoryContextInit.                                                        *)
Init ==
    /\ node = Create(Create([n |-> [c \in Contexts |-> Gone], h |-> <<>>, bad |-> FALSE],
                            Top, NoCtx, Fresh("AllocSet", 8192, 8192 * 1024)),
                     ErrorCtx, Top, Fresh("AllocSet", 8192, 8192)).n
    /\ heap = <<>>
    /\ chunks = {}
    /\ scopes = <<>>
    /\ current = Top
    /\ fault = FALSE
    /\ corrupt = FALSE
    /\ allocs = 0

(* The contexts of the constructor of StorageEngine, and of its destructor.  *)
OpenEngine(e) ==
    /\ ~Alive(node, EngineCtx(e))
    /\ LET t1 == Create(Tree, EngineCtx(e), Top, Fresh("AllocSet", 8192, 8192 * 1024))
           t2 == Create(t1, WalCtx(e), EngineCtx(e), Fresh("AllocSet", 8192, 1024 * 1024))
       IN  Install(Create(t2, VacuumCtx(e), EngineCtx(e), Fresh("AllocSet", 8192, 1024 * 1024)))
    /\ UNCHANGED <<chunks, scopes, current, corrupt, allocs>>

CloseEngine(e) ==
    /\ Alive(node, EngineCtx(e))
    /\ InScope \cap EngineTree(e) = {}
    /\ Install(MemoryContextDelete(Tree, EngineCtx(e)))
    /\ Drop(Below(node, EngineCtx(e)))
    /\ UNCHANGED <<scopes, current, corrupt, allocs>>

(* ScopeContext around a call: write_wal enters its WAL context and leaves   *)
(* it as it is; a scratch context may be reset on the way out.               *)
EnterScope(c, leave) ==
    /\ Len(scopes) < MaxScopes
    /\ Alive(node, c)
    /\ c \in Scratch \/ (leave = "switch" /\ \E e \in Engines : c = WalCtx(e))
    /\ scopes' = <<[saved |-> current, ctx |-> c, leave |-> leave]>> \o scopes
    /\ current' = c
    /\ UNCHANGED <<node, heap, chunks, fault, corrupt, allocs>>

(* ScopeChildContext: a context of its own below the current one.            *)
EnterChild(c, kind) ==
    /\ Len(scopes) < MaxScopes
    /\ ~Alive(node, c)
    /\ Install(Create(Tree, c, current,
                      IF kind = "Bump" THEN Fresh("Bump", 1024, 4096)
                      ELSE Fresh("AllocSet", 1024, 8192 * 1024)))
    /\ scopes' = <<[saved |-> current, ctx |-> c, leave |-> "delete"]>> \o scopes
    /\ current' = c
    /\ UNCHANGED <<chunks, corrupt, allocs>>

(* A scope whose destructor deletes the child and forgets to switch back.    *)
LeaveScope_NoSwitch ==
    /\ scopes # <<>>
    /\ LET s == scopes[1]
       IN  /\ Install(IF s.leave = "delete" THEN MemoryContextDelete(Tree, s.ctx) ELSE Tree)
           /\ Drop(IF s.leave = "delete" THEN {s.ctx} ELSE {})
           /\ current' = IF s.leave = "delete" THEN current ELSE s.saved
    /\ scopes' = Tail(scopes)
    /\ UNCHANGED <<corrupt, allocs>>

LeaveScope ==
    /\ scopes # <<>>
    /\ LET s == scopes[1]
       IN  /\ \/ /\ s.leave = "switch"
                 /\ UNCHANGED <<node, heap, chunks, fault>>
              \/ /\ s.leave = "reset"
                 /\ Install(MemoryContextReset(Tree, s.ctx))
                 /\ Drop(Below(node, s.ctx))
              \/ /\ s.leave = "delete"
                 /\ Install(MemoryContextDelete(Tree, s.ctx))
                 /\ Drop(Below(node, s.ctx))
           /\ current' = s.saved
    /\ scopes' = Tail(scopes)
    /\ UNCHANGED <<corrupt, allocs>>

-----------------------------------------------------------------------------
(* jmalloc: a chunk of the current context.                                  *)
AllocIn(n, h, c, size) ==
    IF n[c].kind = "Bump" THEN BumpAlloc(n[c], h, size) ELSE AllocSetAlloc(n[c], h, size)

(* A caller's chunk: kept says that its contents came through every realloc, *)
(* moved that one of them started from an external chunk.                    *)
Chunk(a, c, kept, moved) ==
    [block |-> a.chunk.block, off |-> a.chunk.off, size |-> a.chunk.size,
     idx |-> a.chunk.idx, ctx |-> c, kept |-> kept, moved |-> moved]

jmalloc(size) ==
    /\ allocs < MaxAllocs
    /\ allocs' = allocs + 1
    /\ LET a == AllocIn(node, heap, current, size)
       IN  /\ Install([n |-> [node EXCEPT ![current] = a.c], h |-> a.h, bad |-> FALSE])
           /\ corrupt' = (corrupt \/ a.bad)
           /\ chunks' = chunks \cup {Chunk(a, current, TRUE, FALSE)}
    /\ UNCHANGED <<scopes, current>>

(* jmfree: the context is the one the chunk's header names; a Bump context   *)
(* does nothing.                                                             *)
jmfree(k) ==
    /\ k \in chunks
    /\ chunks' = chunks \ {k}
    /\ IF node[k.ctx].kind = "Bump" THEN UNCHANGED <<node, heap, fault>>
       ELSE LET f == AllocSetFree(node[k.ctx], heap, k)
            IN  Install([n |-> [node EXCEPT ![k.ctx] = f.c], h |-> f.h, bad |-> FALSE])
    /\ UNCHANGED <<scopes, current, corrupt, allocs>>

(* jrealloc: a new chunk of the same context, as much of the old contents as *)
(* the old header admits to, and the old chunk freed.  A Bump context copies *)
(* the new size, so its callers only shrink.                                 *)
jrealloc(k, size) ==
    /\ k \in chunks
    /\ allocs < MaxAllocs
    /\ allocs' = allocs + 1
    /\ LET c == k.ctx
           a == AllocIn(node, heap, c, size)
           bump == node[c].kind = "Bump"
           copied == IF bump THEN size ELSE Min({AllocSetGetChunkSpace(k), size})
           kept == k.kept /\ copied >= Min({k.size, size})
           f == AllocSetFree(a.c, a.h, k)
       IN  /\ bump => size <= k.size
           /\ Install([n |-> [node EXCEPT ![c] = IF bump THEN a.c ELSE f.c],
                       h |-> IF bump THEN a.h ELSE f.h, bad |-> FALSE])
           /\ corrupt' = (corrupt \/ a.bad)
           /\ chunks' = (chunks \ {k}) \cup {Chunk(a, c, kept, k.moved \/ k.idx = External)}
    /\ UNCHANGED <<scopes, current>>

SizesIn(c) == IF node[c].kind = "Bump" THEN BumpSizes ELSE Sizes

Next ==
    \/ \E e \in Engines : OpenEngine(e) \/ CloseEngine(e)
    \/ \E c \in Contexts, leave \in {"switch", "reset"} : EnterScope(c, leave)
    \/ \E c \in Scratch, kind \in {"AllocSet", "Bump"} : EnterChild(c, kind)
    \/ LeaveScope
    \/ \E size \in SizesIn(current) : jmalloc(size)
    \/ \E k \in chunks : jmfree(k)
    \/ \E k \in chunks : \E size \in SizesIn(k.ctx) : jrealloc(k, size)

Spec == Init /\ [][Next]_vars

-----------------------------------------------------------------------------
TypeOK ==
    /\ \A c \in Contexts :
           /\ node[c].kind \in {"none", "AllocSet", "Bump"}
           /\ {node[c].parent, node[c].first, node[c].prev, node[c].next}
                  \subseteq Contexts \cup {NoCtx}
           /\ node[c].mem_allocated \in Nat
           /\ node[c].next_block_size \in node[c].init_block_size..node[c].max_block_size
           /\ ToSet(node[c].blocks) \subseteq DOMAIN heap
    /\ \A b \in DOMAIN heap : heap[b].used \in Nat /\ heap[b].live \in BOOLEAN
    /\ {k.ctx : k \in chunks} \cup {current} \subseteq Contexts

(* The bytes of a chunk, header included, and of an entry of a freelist.     *)
HdrSize(k) == IF node[k.ctx].kind = "Bump" THEN kBumpHdrSize ELSE kChunkHdrSize
End(k) == k.off + HdrSize(k) + Max({k.size, 1})

Overlap(lo1, hi1, lo2, hi2) == lo1 < hi2 /\ lo2 < hi1

(* No two callers share a byte, and nobody holds a byte the allocator would  *)
(* hand out again: chunks in use are disjoint from each other and from every *)
(* entry of a freelist, over alloc, free, realloc and reset                  *)
(* (allocset.cpp, bump.cpp), as long as no allocation has used a freed block *)
(* (DanglesByReset says how it comes to that).                               *)
LiveDisjoint == ~corrupt =>
    /\ \A k, l \in chunks :
           k # l /\ k.block = l.block => ~Overlap(k.off, End(k), l.off, End(l))
    /\ \A c \in {d \in Contexts : node[d].kind = "AllocSet"} :
           \A i \in {l \in DOMAIN node[c].freelist : node[c].freelist[l] # <<>>} :
               \A k \in chunks, f \in ToSet(node[c].freelist[i]) :
                   f.block = k.block =>
                       ~Overlap(k.off, End(k), f.off, f.off + AllocSetFreeListSize(i))

(* Every chunk a caller holds lies inside a block that is still allocated    *)
(* and that belongs to the context its header names, which is alive: reset   *)
(* and delete take nothing but what is below them.  So do the chunks of the  *)
(* freelists.                                                                *)
ChunksHeld == ~corrupt =>
    /\ \A k \in chunks :
           /\ Alive(node, k.ctx)
           /\ k.block \in ToSet(node[k.ctx].blocks)
           /\ heap[k.block].live
           /\ End(k) <= heap[k.block].cap
    /\ \A c \in Contexts : \A i \in DOMAIN node[c].freelist :
           \A f \in ToSet(node[c].freelist[i]) : f.block \in ToSet(node[c].blocks)

(* The children of a context as its list gives them, head to tail.           *)
RECURSIVE Walk(_, _)
Walk(c, tail) == IF c = tail \/ ~Alive(node, c) THEN {c}
                 ELSE {c} \cup Walk(node[c].next, tail)

(* The child lists hold exactly the children, all of them alive, and no      *)
(* operation writes to a context that was freed: with ErrorContext at the    *)
(* end of the list of TopMemoryContext and the contexts of an engine deleted *)
(* together, no order of opening and closing engines and scopes reaches the  *)
(* link that an unlink of the head leaves dangling (memcontext.cpp:81).      *)
TreeAgrees ==
    /\ ~fault
    /\ \A p \in Contexts :
           Alive(node, p) =>
               {c \in Contexts : node[c].parent = p}
                   = IF node[p].first = NoCtx THEN {}
                     ELSE Walk(node[p].first, node[node[p].first].prev)

(* A block that is still allocated is on the list of exactly one context, so *)
(* that delete gives everything back; only a Bump reset lets go of a block.  *)
BlocksOwned ==
    \A b \in DOMAIN heap :
        LET owners == {c \in Contexts : b \in ToSet(node[c].blocks)}
        IN  /\ Cardinality(owners) <= 1
            /\ owners # {} => heap[b].live
            /\ heap[b].live /\ heap[b].kind = "AllocSet" => owners # {}

(* The block the next chunk of c will be carved from has been freed.         *)
Dangles(c) == node[c].freeptr # Nil /\ node[c].freeptr \notin ToSet(node[c].blocks)

(* Over every alloc, free, realloc, scope and delete, a context carves from  *)
(* a block of its own.  AllocSetReset alone breaks that, and only when the   *)
(* block at the head of the list, the one it keeps, is not the block in use: *)
(* a large chunk was allocated after it (allocset.cpp:295).                  *)
DanglesByReset ==
    [][\A c \in Contexts :
          Dangles(c)' /\ ~Dangles(c) =>
              /\ scopes' = Tail(scopes)
              /\ scopes[1].leave = "reset" /\ c \in Below(node, scopes[1].ctx)
              /\ node[c].freeptr # Head(node[c].blocks)]_vars

(* A realloc keeps the caller's bytes up to the smaller of the two sizes,    *)
(* unless the chunk had a block of its own, whose header tells no size       *)
(* (allocset.cpp:344).                                                       *)
ReallocKeeps == \A k \in chunks : k.kept \/ k.moved

(* CurrentMemoryContext and every context a scope will switch back to is     *)
(* alive: closing an engine or leaving a scope strands no one.               *)
CurrentAlive ==
    /\ Alive(node, current)
    /\ \A i \in DOMAIN scopes : Alive(node, scopes[i].saved)

=============================================================================
