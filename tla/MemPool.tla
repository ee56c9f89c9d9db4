-------------------------------- MODULE MemPool --------------------------------
(***************************************************************************)
(* The memory pool of mem_pool/mempool.c.  Small requests are carved out of*)
(* a chain of blocks by moving each block's pointer last towards its end;  *)
(* large ones come from malloc, and a list of slots remembers them.  The   *)
(* slots (struct mp_large_s) are themselves carved out of the blocks.      *)
(*                                                                         *)
(* Addresses inside a block are offsets from its start, which is aligned   *)
(* and lies at Base.  The offsets are the real ones: the pool structure    *)
(* takes 24 bytes, a node 32, a slot 16.                                   *)
(***************************************************************************)
EXTENDS Integers, Sequences, FiniteSets

CONSTANTS
  PoolSize,   \* the argument of mp_create_pool
  Sizes,      \* the sizes requested
  Addrs,      \* addresses malloc returns for large blocks; bound: memory
  NULL,
  MaxBlocks,  \* bound: posix_memalign fails beyond that many blocks
  Base,       \* for each block, the address that posix_memalign gives it
  HeadNexts   \* what the memory of a new pool holds where head->next lies:
              \* NULL, or a wild pointer

ASSUME PoolAssumption ==
  /\ PoolSize \in Nat /\ PoolSize >= 16     \* a slot can be carved
  /\ Sizes \subseteq Nat \ {0}
  /\ NULL \notin Addrs
  /\ MaxBlocks \in Nat /\ MaxBlocks >= 1
  /\ HeadNexts \subseteq {"null", "wild"} /\ HeadNexts # {}

VARIABLES
  last,      \* for each block of the chain, the start of its free part
  failed,    \* for each block, how often a request did not fit
  current,   \* pool->current: the block where requests start looking
  headNext,  \* head->next as long as there is one block only
  large,     \* pool->large: for each slot, its large block or NULL
  heap,      \* the large blocks that malloc has given and free not taken back
  chunks,    \* history: what has been carved since the last reset
  status     \* "live", "destroyed", or "wild" once a wild pointer is followed

small == <<last, failed, current, chunks>>
vars == <<last, failed, current, headNext, large, heap, chunks, status>>

MP_ALIGNMENT == 32
PoolHeader == 24
Node == 32
Slot == 16

\* p->max
Max == IF PoolSize < 4095 THEN PoolSize ELSE 4095

\* mp_align_ptr
Align(n) == ((n + MP_ALIGNMENT - 1) \div MP_ALIGNMENT) * MP_ALIGNMENT

\* Where the data of block b begins, and where the block ends: the node of
\* the first block lies behind the pool structure.
Start(b) == IF b = 1 THEN PoolHeader + Node ELSE Node
End(b) == Start(b) + PoolSize

\* posix_memalign gives each block memory of its own, aligned.
ASSUME PlacementAssumption ==
  /\ Base \in [1 .. MaxBlocks -> Nat]
  /\ \A b \in 1 .. MaxBlocks : Base[b] % MP_ALIGNMENT = 0
  /\ \A a, b \in 1 .. MaxBlocks :
       a < b => Base[a] + End(a) <= Base[b] \/ Base[b] + End(b) <= Base[a]

Blocks == 1 .. Len(last)

Chunk(b, lo, s) == [block |-> b, lo |-> lo, hi |-> lo + s]

TypeOK ==
  /\ last \in Seq(Nat) /\ failed \in Seq(Nat)
  /\ Len(failed) = Len(last) /\ Len(last) >= 1
  /\ \A b \in Blocks : last[b] >= Start(b)
  /\ current \in Blocks
  /\ headNext \in {"null", "wild"}
  /\ large \in Seq(Addrs \union {NULL})
  /\ heap \subseteq Addrs
  /\ chunks \subseteq [block : Nat, lo : Nat, hi : Nat]
  /\ status \in {"live", "destroyed", "wild"}

-----------------------------------------------------------------------------
\* mp_create_pool: every field but head->next is initialised.
Init ==
  /\ last = <<Start(1)>>
  /\ failed = <<0>>
  /\ current = 1
  /\ headNext \in HeadNexts
  /\ large = <<>>
  /\ heap = {}
  /\ chunks = {}
  /\ status = "live"

\* The end of the chain is found by following a next that is NULL.
ChainEnds == Len(last) > 1 \/ headNext = "null"

-----------------------------------------------------------------------------
(* mp_alloc and mp_alloc_block, for a request of at most Max bytes.        *)

\* Mutated form: the space is measured before the alignment.
FitsUnaligned(b, s) == End(b) - last[b] >= s
\* (size_t)(p->end - m) >= size: the difference wraps when m > p->end.
Fits(b, s) == Align(last[b]) > End(b) \/ End(b) - Align(last[b]) >= s

Fitting(s) == {b \in current .. Len(last) : Fits(b, s)}

\* Block b is the first, from pool->current on, with room for s bytes.
CarveFrom(b, s) ==
  /\ b \in Fitting(s) /\ \A i \in Fitting(s) : b <= i
  /\ last' = [last EXCEPT ![b] = Align(last[b]) + s]
  /\ chunks' = chunks \union {Chunk(b, Align(last[b]), s)}
  /\ UNCHANGED <<failed, current>>

\* Mutated form: an off-by-one in the number of failures.
WornOutEarly(b) == failed[b] > 3
\* p->failed++ > 4
WornOut(b) == failed[b] > 4

\* The nodes that the loop of mp_alloc_block visits: from pool->current to
\* the last but one.
Visited == current .. (Len(last) - 1)

\* pool->current moves behind the last node that is worn out, if any is.
MoveCurrent ==
  \/ \E b \in Visited : /\ WornOut(b) /\ \A c \in Visited : WornOut(c) => c <= b
                       /\ current' = b + 1
  \/ /\ \A b \in Visited : ~WornOut(b)
     /\ current' = current

\* Mutated form: new_node->last is not moved behind the first request.
NotCarved(s) == Align(Node)
\* new_node->last = m + size
FirstLast(s) == Align(Node) + s

\* No block fits: a new one is appended and s bytes are carved out of it.
mp_alloc_block(s) ==
  /\ Fitting(s) = {}
  /\ ChainEnds
  /\ Len(last) < MaxBlocks
  /\ last' = Append(last, FirstLast(s))
  /\ failed' = Append([b \in Blocks |-> IF b \in Visited THEN failed[b] + 1
                                                         ELSE failed[b]], 0)
  /\ MoveCurrent
  /\ chunks' = chunks \union {Chunk(Len(last) + 1, Align(Node), s)}

SmallSucceeds(s) == (\E b \in Blocks : CarveFrom(b, s)) \/ mp_alloc_block(s)

\* posix_memalign has no memory for a new block: NULL is returned.
SmallFails(s) == Fitting(s) = {} /\ ChainEnds /\ UNCHANGED small

\* mp_alloc and mp_calloc of a small block
AllocSmall(s) ==
  /\ status = "live"
  /\ s <= Max
  /\ SmallSucceeds(s) \/ SmallFails(s)
  /\ UNCHANGED <<headNext, large, heap, status>>

-----------------------------------------------------------------------------
(* mp_alloc_large, mp_memalign, mp_free.  A failing malloc changes nothing.*)

\* for (large = pool->large; ...) if (n++ > 3) break: the fifth slot is
\* still looked at.
Reusable == {k \in 1 .. Len(large) : k <= 5 /\ large[k] = NULL}

ReuseSlot(a, k) ==
  /\ k \in Reusable /\ \A j \in Reusable : k <= j
  /\ large' = [large EXCEPT ![k] = a]
  /\ heap' = heap \union {a}
  /\ UNCHANGED small

\* A slot is carved for large block a and put in front of the list.
PrependSlot(a) ==
  /\ SmallSucceeds(Slot)
  /\ large' = <<a>> \o large
  /\ heap' = heap \union {a}

\* Mutated form: the large block is not given back.
KeepsBlock(a) == heap \union {a}
\* free(p) when no slot can be carved for it.
GivesBack(a) == heap

NoSlot(a) ==
  /\ SmallFails(Slot)
  /\ heap' = GivesBack(a)
  /\ UNCHANGED large

AllocLarge(a) ==
  /\ status = "live"
  /\ \E s \in Sizes : s > Max
  /\ a \in Addrs \ heap
  /\ \/ \E k \in 1 .. Len(large) : ReuseSlot(a, k)
     \/ Reusable = {} /\ (PrependSlot(a) \/ NoSlot(a))
  /\ UNCHANGED <<headNext, status>>

\* mp_memalign never looks for a slot to reuse.
mp_memalign(a) ==
  /\ status = "live"
  /\ a \in Addrs \ heap
  /\ PrependSlot(a) \/ NoSlot(a)
  /\ UNCHANGED <<headNext, status>>

mp_free(a) ==
  /\ status = "live"
  /\ \E k \in 1 .. Len(large) :
       /\ large[k] = a /\ \A j \in 1 .. k - 1 : large[j] # a
       /\ large' = [large EXCEPT ![k] = NULL]
  /\ heap' = heap \ {a}
  /\ UNCHANGED <<small, headNext, status>>

-----------------------------------------------------------------------------
(* mp_reset_pool and mp_destory_pool.                                      *)

Listed == {large[k] : k \in 1 .. Len(large)} \ {NULL}

\* Mutated form: the size of the node is forgotten.
AtNode(b) == Start(b) - Node
\* h->last = (unsigned char *)h + sizeof(struct mp_node_s)
Emptied(b) == Start(b)

\* pool->current and the failure counts stay as they are.
mp_reset_pool ==
  /\ status = "live"
  /\ ChainEnds
  /\ heap' = heap \ Listed
  /\ large' = <<>>
  /\ last' = [b \in Blocks |-> Emptied(b)]
  /\ chunks' = {}
  /\ UNCHANGED <<failed, current, headNext, status>>

mp_destory_pool ==
  /\ status = "live"
  /\ ChainEnds
  /\ heap' = heap \ Listed
  /\ status' = "destroyed"
  /\ UNCHANGED <<small, headNext, large>>

\* head->next is wild and is followed: by the search of mp_alloc once the
\* first block is full, by a reset, or by the destruction.  The large blocks
\* are not followed any further.
WildRead ==
  /\ status = "live"
  /\ ~ChainEnds
  /\ status' = "wild"
  /\ UNCHANGED <<small, headNext, large, heap>>

Terminated == status # "live" /\ UNCHANGED vars

Next ==
  \/ \E s \in Sizes : AllocSmall(s)
  \/ \E a \in Addrs : AllocLarge(a) \/ mp_memalign(a) \/ mp_free(a)
  \/ mp_reset_pool \/ mp_destory_pool \/ WildRead
  \/ Terminated

Spec == Init /\ [][Next]_vars

-----------------------------------------------------------------------------
(* Properties.                                                             *)

\* The configurations in which no block can end in the part of its last
\* MP_ALIGNMENT bytes from which last is aligned beyond the end of the block.
WrapFree ==
  \A s \in {r \in Sizes : r <= Max} \union {Slot} : \A b \in {1, 2} :
    s % MP_ALIGNMENT = 0 \/ s % MP_ALIGNMENT > End(b) % MP_ALIGNMENT

\* Whatever mp_alloc returns lies inside the data part of its block.
InBounds ==
  \A c \in chunks : c.block \in Blocks /\ Start(c.block) <= c.lo
                                       /\ c.hi <= End(c.block)

\* No two chunks overlap in memory, of the same block or of two, wherever the
\* blocks lie: neither two that users got, nor one of them and a slot of the
\* list of large blocks, which lives in the same blocks.  And no chunk
\* reaches into what mp_alloc takes for the free part of its block.
Disjoint ==
  /\ \A c, d \in chunks :
       c # d => \/ Base[c.block] + c.hi <= Base[d.block] + d.lo
                \/ Base[d.block] + d.hi <= Base[c.block] + c.lo
  /\ \A c \in chunks : c.hi <= last[c.block]

\* The large blocks that exist are those in the list, each in one slot, so
\* that reset and destruction free each of them exactly once; none is left
\* after the destruction.
LargeAccounted ==
  /\ status # "destroyed" => heap = Listed
  /\ status = "destroyed" => heap = {}
  /\ \A j, k \in 1 .. Len(large) : large[j] = large[k] /\ large[j] # NULL => j = k

\* Blocks that requests no longer look at have failed at least six times,
\* and of those still looked at none has failed less than a later one, so
\* that skipping one never skips a better one before it.
SkippedHaveFailed ==
  /\ \A b \in 1 .. current - 1 : failed[b] >= 6
  /\ \A b, c \in current .. Len(last) : b < c => failed[b] >= failed[c]

\* A block that has been skipped serves no request again, for as long as the
\* pool exists, not even after resets: nothing new is carved before current,
\* and current never moves back.
SkippedForGood ==
  [][/\ current <= current'
     /\ \A c \in chunks' \ chunks : c.block >= current]_vars

\* "通过重置整个内存池来回收所有小内存空间": after a reset all the blocks are used
\* again, from the first one on.
ResetRecycles == [][mp_reset_pool => current' = 1]_vars

=============================================================================
