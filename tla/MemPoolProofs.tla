---------------------------- MODULE MemPoolProofs ----------------------------
(***************************************************************************)
(* Proofs about MemPool, for any pool size, any request sizes and any      *)
(* number of blocks: typing, no block serves the same bytes twice, in the  *)
(* configurations of WrapFree the chunks stay inside their blocks and never*)
(* overlap, the list of large blocks is exact, and only blocks that failed *)
(* are skipped.                                                            *)
(***************************************************************************)
EXTENDS MemPool, SequenceTheorems, TLAPS

\* A chunk lies below the pointer last of its block.
Below ==
  \A c \in chunks :
    c.block \in Blocks /\ Start(c.block) <= c.lo /\ c.lo <= c.hi
                       /\ c.hi <= last[c.block]

\* No pointer last is aligned beyond the end of its block.
Room == \A b \in Blocks : Align(last[b]) <= End(b)

\* Two chunks of one block do not overlap, even where they leave the block.
Apart ==
  \A c, d \in chunks :
    c # d /\ c.block = d.block => c.hi <= d.lo \/ d.hi <= c.lo

Carved == TypeOK /\ Below /\ Apart

\* The sizes that are carved.
Requests == {s \in Sizes : s <= Max} \union {Slot}

-----------------------------------------------------------------------------
(* Alignment.                                                              *)

\* mp_align_ptr rounds up to a multiple of the alignment.
LEMMA AlignUp ==
  ASSUME NEW n \in Nat
  PROVE  Align(n) \in Nat /\ Align(n) >= n /\ Align(n) % MP_ALIGNMENT = 0
  BY DEF Align, MP_ALIGNMENT

\* A chunk that begins at a multiple of the alignment and ends at most at e
\* leaves a pointer whose alignment is at most e, unless its size has a
\* small remainder.
LEMMA AlignFits ==
  ASSUME NEW m \in Nat, NEW s \in Nat, NEW e \in Nat,
         m % MP_ALIGNMENT = 0, m + s <= e,
         s % MP_ALIGNMENT = 0 \/ s % MP_ALIGNMENT > e % MP_ALIGNMENT
  PROVE  Align(m + s) <= e
  BY DEF Align, MP_ALIGNMENT

LEMMA AlignBase == Align(Node) = 32 /\ Align(PoolHeader + Node) = 64
  BY DEF Align, MP_ALIGNMENT, Node, PoolHeader

LEMMA Geometry ==
  /\ \A b \in Nat : Start(b) \in Nat /\ End(b) \in Nat /\ Start(b) >= Node
                    /\ End(b) = Start(b) + PoolSize
  /\ \A b \in Nat : Align(Start(b)) <= End(b)
  /\ \A s \in Requests : s \in Nat /\ s >= 1 /\ s <= PoolSize
<1>1. \A b \in Nat : Start(b) \in Nat /\ End(b) \in Nat /\ Start(b) >= Node
                     /\ End(b) = Start(b) + PoolSize
  BY PoolAssumption DEF Start, End, Node, PoolHeader
<1>2. \A b \in Nat : Align(Start(b)) <= End(b)
  BY AlignBase, PoolAssumption DEF Start, End, Node, PoolHeader
<1>3. \A s \in Requests : s \in Nat /\ s >= 1 /\ s <= PoolSize
  BY PoolAssumption DEF Requests, Max, Slot
<1> QED
  BY <1>1, <1>2, <1>3

-----------------------------------------------------------------------------
(* One request carved out of the blocks.                                   *)

\* CarveFrom moves last beyond the new chunk, which begins at or above it.
LEMMA CarveFromStep ==
  ASSUME Carved, NEW s \in Requests, NEW b \in Blocks, CarveFrom(b, s)
  PROVE  /\ last' \in Seq(Nat) /\ Len(last') = Len(last)
         /\ \A i \in Blocks : last'[i] >= Start(i)
         /\ chunks' \subseteq [block : Nat, lo : Nat, hi : Nat]
         /\ Below' /\ Apart'
         /\ WrapFree /\ Room => Room'
<1> DEFINE m == Align(last[b])
           c == Chunk(b, m, s)
<1>1. /\ last \in Seq(Nat) /\ b \in Nat /\ last[b] \in Nat /\ Len(last) \in Nat
      /\ s \in Nat /\ s >= 1 /\ s <= PoolSize
  <2>1. last \in Seq(Nat)
    BY DEF Carved, TypeOK
  <2>2. b \in Nat /\ last[b] \in Nat /\ Len(last) \in Nat
    BY <2>1 DEF Blocks
  <2> QED
    BY <2>1, <2>2, Geometry
<1>2. m \in Nat /\ m >= last[b] /\ m % MP_ALIGNMENT = 0
  BY <1>1, AlignUp
<1>3. /\ last' = [last EXCEPT ![b] = m + s]
      /\ chunks' = chunks \union {c}
      /\ Fits(b, s)
  BY DEF CarveFrom, Fitting
<1>4. c = [block |-> b, lo |-> m, hi |-> m + s]
  BY DEF Chunk
<1> HIDE DEF m, c
<1>5. /\ last' \in Seq(Nat) /\ Len(last') = Len(last)
      /\ \A i \in Blocks : last'[i] = IF i = b THEN m + s ELSE last[i]
  BY <1>1, <1>2, <1>3 DEF Blocks
<1>6. \A i \in Blocks : last'[i] >= Start(i) /\ last'[i] >= last[i]
  <2>1. \A i \in Blocks : i \in Nat /\ last[i] \in Nat
    BY <1>1 DEF Blocks
  <2>2. \A i \in Blocks : last[i] >= Start(i) /\ Start(i) \in Nat
    BY <2>1, Geometry DEF Carved, TypeOK
  <2>3. m + s >= last[b] /\ m + s \in Nat
    BY ONLY <1>1, <1>2
  <2>4. ASSUME NEW i \in Blocks PROVE last'[i] >= Start(i) /\ last'[i] >= last[i]
    <3>1. CASE i = b
      BY ONLY <3>1, <2>1, <2>2, <2>3, <1>5
    <3>2. CASE i # b
      BY ONLY <3>2, <2>1, <2>2, <1>5
    <3> QED
      BY ONLY <3>1, <3>2
  <2> QED
    BY ONLY <2>4
<1>7. chunks' \subseteq [block : Nat, lo : Nat, hi : Nat]
  BY <1>1, <1>2, <1>3, <1>4 DEF Carved, TypeOK
<1>8. Blocks' = Blocks
  BY <1>5 DEF Blocks
<1>9. Below'
  <2>1. ASSUME NEW d \in chunks
        PROVE  d.block \in Blocks /\ Start(d.block) <= d.lo /\ d.lo <= d.hi
                                  /\ d.hi <= last'[d.block]
    <3>1. /\ d.block \in Blocks /\ Start(d.block) <= d.lo /\ d.lo <= d.hi
          /\ d.hi <= last[d.block] /\ d.hi \in Nat
      BY <2>1 DEF Carved, Below, TypeOK
    <3> DEFINE k == d.block
    <3>0. k \in DOMAIN last /\ k \in DOMAIN last'
      BY ONLY <3>1, <1>1, <1>5 DEF Blocks
    <3>2. last[k] \in Nat /\ last'[k] \in Nat
      <4> HIDE DEF k
      <4> QED
        BY ONLY <3>0, <1>1, <1>5
    <3>3. last'[d.block] >= last[d.block]
      BY ONLY <3>1, <1>6
    <3>4. d.hi <= last'[d.block]
      BY ONLY <3>1, <3>2, <3>3
    <3> QED
      BY ONLY <3>1, <3>4
  <2>2. c.block \in Blocks /\ Start(c.block) <= c.lo /\ c.lo <= c.hi
                           /\ c.hi <= last'[c.block]
    <3>1. last[b] >= Start(b) /\ Start(b) \in Nat
      BY <1>1, Geometry DEF Carved, TypeOK
    <3> QED
      BY <3>1, <1>1, <1>2, <1>4, <1>5
  <2> QED
    BY <2>1, <2>2, <1>3, <1>8 DEF Below
<1>10. Apart'
  <2>1. ASSUME NEW d \in chunks, d.block = b PROVE d.hi <= c.lo
    <3>1. d.hi <= last[b] /\ d.hi \in Nat
      BY <2>1 DEF Carved, Below, TypeOK
    <3> QED
      BY <3>1, <1>1, <1>2, <1>4
  <2>2. c.block = b
    BY <1>4
  <2> QED
    BY <2>1, <2>2, <1>3 DEF Carved, Apart
<1>11. ASSUME WrapFree, Room PROVE Room'
  <2>1. m + s <= End(b) /\ End(b) \in Nat
    <3>1. m <= End(b)
      BY <1>11 DEF Room, m
    <3>2. m > End(b) \/ End(b) - m >= s
      BY <1>3 DEF Fits, m
    <3>3. End(b) \in Nat
      BY <1>1, Geometry
    <3> QED
      BY <3>1, <3>2, <3>3, <1>1, <1>2
  <2>2. s % MP_ALIGNMENT = 0 \/ s % MP_ALIGNMENT > End(b) % MP_ALIGNMENT
    <3>1. End(b) = End(1) \/ End(b) = End(2)
      BY DEF End, Start
    <3> QED
      BY <3>1, <1>11 DEF WrapFree, Requests
  <2>3. Align(m + s) <= End(b)
    BY <2>1, <2>2, <1>1, <1>2, AlignFits
  <2> QED
    BY <2>3, <1>5, <1>8, <1>11 DEF Room
<1> QED
  BY <1>5, <1>6, <1>7, <1>9, <1>10, <1>11

\* A new block begins with the chunk, and pool->current stays in the chain.
LEMMA NewBlockStep ==
  ASSUME Carved, NEW s \in Requests, mp_alloc_block(s)
  PROVE  /\ last' \in Seq(Nat) /\ Len(last') = Len(last) + 1
         /\ failed' \in Seq(Nat) /\ Len(failed') = Len(last')
         /\ current' \in Blocks'
         /\ \A i \in Blocks' : last'[i] >= Start(i)
         /\ chunks' \subseteq [block : Nat, lo : Nat, hi : Nat]
         /\ Below' /\ Apart'
         /\ WrapFree /\ Room => Room'
<1> DEFINE n == Len(last) + 1
           c == Chunk(n, Align(Node), s)
<1>1. /\ last \in Seq(Nat) /\ Len(last) \in Nat /\ Len(last) >= 1 /\ n \in Nat
      /\ s \in Nat /\ s >= 1 /\ s <= PoolSize /\ PoolSize \in Nat
  <2>1. last \in Seq(Nat) /\ Len(last) >= 1
    BY DEF Carved, TypeOK
  <2>2. s \in Nat /\ s >= 1 /\ s <= PoolSize
    BY Geometry
  <2>3. PoolSize \in Nat
    BY PoolAssumption
  <2> QED
    BY <2>1, <2>2, <2>3
<1>2. last' = Append(last, Align(Node) + s) /\ chunks' = chunks \union {c}
  BY DEF mp_alloc_block, FirstLast
<1>3. Align(Node) = 32 /\ Start(n) = 32 /\ End(n) = 32 + PoolSize
  BY <1>1, AlignBase DEF Start, End, Node
<1>4. c = [block |-> n, lo |-> 32, hi |-> 32 + s]
  BY <1>3 DEF Chunk
<1> HIDE DEF c
<1>5. /\ last' \in Seq(Nat) /\ Len(last') = n /\ last'[n] = 32 + s
      /\ \A i \in 1 .. Len(last) : last'[i] = last[i]
  BY <1>1, <1>2, <1>3
<1>6. Blocks' = 1 .. n /\ Blocks = 1 .. Len(last)
  BY <1>5 DEF Blocks
<1> HIDE DEF n
<1>7. n = Len(last) + 1
  BY DEF n
<1>8. failed' \in Seq(Nat) /\ Len(failed') = n
  <2>1. failed \in Seq(Nat) /\ Len(failed) = Len(last)
    BY DEF Carved, TypeOK
  <2> DEFINE f == [b \in Blocks |-> IF b \in Visited THEN failed[b] + 1 ELSE failed[b]]
  <2>2. f \in [1 .. Len(last) -> Nat]
    BY <2>1, <1>6
  <2>3. f \in Seq(Nat) /\ Len(f) = Len(last)
    BY <2>2, <1>1, SeqDef
  <2>4. failed' = Append(f, 0)
    BY DEF mp_alloc_block
  <2> HIDE DEF f
  <2> QED
    BY <2>3, <2>4, <1>7
<1>9. current' \in Blocks'
  <2>1. current \in Blocks /\ MoveCurrent
    BY DEF Carved, TypeOK, mp_alloc_block
  <2> QED
    BY <2>1, <1>1, <1>6, <1>7 DEF MoveCurrent, Visited
<1>10. \A i \in Blocks' : last'[i] >= Start(i)
  <2>1. \A i \in Blocks : last[i] >= Start(i)
    BY DEF Carved, TypeOK
  <2>2. ASSUME NEW i \in Blocks' PROVE last'[i] >= Start(i)
    <3>1. CASE i \in 1 .. Len(last)
      BY <3>1, <2>1, <1>5, <1>6
    <3>2. CASE i = n
      BY <3>2, <1>1, <1>3, <1>5
    <3> QED
      BY <2>2, <3>1, <3>2, <1>1, <1>6, <1>7
  <2> QED
    BY <2>2
<1>11. chunks' \subseteq [block : Nat, lo : Nat, hi : Nat]
  BY <1>1, <1>2, <1>4 DEF Carved, TypeOK
<1>12. Below'
  <2>1. ASSUME NEW d \in chunks
        PROVE  d.block \in Blocks' /\ Start(d.block) <= d.lo /\ d.lo <= d.hi
                                   /\ d.hi <= last'[d.block]
    <3>1. /\ d.block \in Blocks /\ Start(d.block) <= d.lo /\ d.lo <= d.hi
          /\ d.hi <= last[d.block]
      BY <2>1 DEF Carved, Below
    <3> QED
      BY <3>1, <1>1, <1>5, <1>6, <1>7
  <2>2. c.block \in Blocks' /\ Start(c.block) <= c.lo /\ c.lo <= c.hi
                            /\ c.hi <= last'[c.block]
    <3>1. c.block = n /\ c.lo = 32 /\ c.hi = 32 + s
      BY <1>4
    <3>2. n \in Blocks' /\ Start(n) = 32 /\ last'[n] = 32 + s
      BY <1>1, <1>3, <1>5, <1>6, <1>7
    <3>3. 32 <= 32 + s /\ 32 + s \in Nat
      BY <1>1
    <3> QED
      BY <3>1, <3>2, <3>3
  <2> QED
    BY <2>1, <2>2, <1>2 DEF Below
<1>13. Apart'
  <2>1. ASSUME NEW d \in chunks PROVE d.block # c.block
    <3>1. d.block \in Blocks
      BY <2>1 DEF Carved, Below
    <3> QED
      BY <3>1, <1>1, <1>4, <1>6, <1>7
  <2> QED
    BY <2>1, <1>2 DEF Carved, Apart
<1>14. ASSUME WrapFree, Room PROVE Room'
  <2>1. 32 % MP_ALIGNMENT = 0 /\ 32 \in Nat
    BY DEF MP_ALIGNMENT
  <2>2. End(n) = End(2) /\ End(n) \in Nat
    BY <1>1, <1>3, Geometry DEF End, Start, Node
  <2>3. s % MP_ALIGNMENT = 0 \/ s % MP_ALIGNMENT > End(n) % MP_ALIGNMENT
    BY <2>2, <1>14 DEF WrapFree, Requests
  <2>4. Align(32 + s) <= End(n)
    BY <2>1, <2>2, <2>3, <1>1, <1>3, AlignFits
  <2>5. ASSUME NEW i \in Blocks' PROVE Align(last'[i]) <= End(i)
    <3>1. CASE i \in Blocks
      BY ONLY <3>1, <1>5, <1>6, <1>14 DEF Room
    <3>2. CASE i = n
      BY ONLY <3>2, <2>4, <1>5
    <3>3. i \in Blocks \/ i = n
      BY ONLY <2>5, <1>1, <1>6, <1>7
    <3> QED
      BY ONLY <3>1, <3>2, <3>3
  <2> QED
    BY <2>5 DEF Room
<1> QED
  BY <1>5, <1>7, <1>8, <1>9, <1>10, <1>11, <1>12, <1>13, <1>14

\* Both together: what mp_alloc does for a small request or for a slot.
LEMMA SmallStep ==
  ASSUME TypeOK, Below, Apart, NEW s \in Requests,
         SmallSucceeds(s) \/ SmallFails(s),
         UNCHANGED headNext, large' \in Seq(Addrs \union {NULL}),
         heap' \subseteq Addrs, UNCHANGED status
  PROVE  TypeOK' /\ Below' /\ Apart' /\ (WrapFree /\ Room => Room')
<1> USE DEF Carved
<1>1. CASE \E b \in Blocks : CarveFrom(b, s)
  <2>1. PICK b \in Blocks : CarveFrom(b, s)
    BY <1>1
  <2>2. /\ last' \in Seq(Nat) /\ Len(last') = Len(last)
        /\ \A i \in Blocks : last'[i] >= Start(i)
        /\ chunks' \subseteq [block : Nat, lo : Nat, hi : Nat]
        /\ Below' /\ Apart' /\ (WrapFree /\ Room => Room')
    BY <2>1, CarveFromStep
  <2>3. failed' = failed /\ current' = current
    BY <2>1 DEF CarveFrom
  <2> QED
    BY <2>2, <2>3 DEF TypeOK, Blocks
<1>2. CASE mp_alloc_block(s)
  <2>1. /\ last' \in Seq(Nat) /\ Len(last') = Len(last) + 1
        /\ failed' \in Seq(Nat) /\ Len(failed') = Len(last')
        /\ current' \in Blocks'
        /\ \A i \in Blocks' : last'[i] >= Start(i)
        /\ chunks' \subseteq [block : Nat, lo : Nat, hi : Nat]
        /\ Below' /\ Apart' /\ (WrapFree /\ Room => Room')
    BY <1>2, NewBlockStep
  <2>2. Len(last') >= 1
    BY <2>1 DEF TypeOK
  <2> QED
    BY <2>1, <2>2 DEF TypeOK
<1>3. CASE SmallFails(s)
  BY <1>3 DEF SmallFails, small, TypeOK, Below, Apart, Room, Blocks
<1> QED
  BY <1>1, <1>2, <1>3 DEF SmallSucceeds

-----------------------------------------------------------------------------
(* Every step.                                                             *)

Safe == TypeOK /\ Below /\ Apart /\ (WrapFree => Room)

LEMMA SafeInit == Init => Safe
<1> SUFFICES ASSUME Init PROVE Safe
  OBVIOUS
<1>1. /\ Len(last) = 1 /\ last \in Seq(Nat) /\ last[1] = Start(1)
      /\ Len(failed) = 1 /\ failed \in Seq(Nat)
  BY Geometry DEF Init
<1>2. Blocks = {1}
  BY <1>1 DEF Blocks
<1>3. TypeOK
  <2>1. headNext \in {"null", "wild"} /\ Start(1) \in Nat
    BY PoolAssumption, Geometry DEF Init
  <2> QED
    BY <1>1, <1>2, <2>1 DEF Init, TypeOK
<1>4. Room
  BY <1>1, <1>2, Geometry DEF Room
<1> QED
  BY <1>3, <1>4 DEF Init, Safe, Below, Apart

\* A step that leaves the blocks alone.
LEMMA SmallSame ==
  ASSUME Safe, UNCHANGED <<small, headNext>>,
         large' \in Seq(Addrs \union {NULL}), heap' \subseteq Addrs,
         status' \in {"live", "destroyed", "wild"}
  PROVE  Safe'
  BY DEF Safe, TypeOK, Below, Apart, Room, Blocks, small

LEMMA PrependOrNot ==
  ASSUME Safe, NEW a \in Addrs, PrependSlot(a) \/ NoSlot(a),
         UNCHANGED <<headNext, status>>
  PROVE  Safe'
<1>1. Slot \in Requests
  BY DEF Requests
<1>2. SmallSucceeds(Slot) \/ SmallFails(Slot)
  BY DEF PrependSlot, NoSlot
<1>3. heap' \subseteq Addrs
  BY DEF PrependSlot, NoSlot, GivesBack, Safe, TypeOK
<1>4. large' \in Seq(Addrs \union {NULL})
  <2>1. large \in Seq(Addrs \union {NULL}) /\ <<a>> \in Seq(Addrs \union {NULL})
    BY DEF Safe, TypeOK
  <2>2. large' = <<a>> \o large \/ large' = large
    BY DEF PrependSlot, NoSlot
  <2> QED
    BY <2>1, <2>2, ConcatProperties
<1> QED
  BY <1>1, <1>2, <1>3, <1>4, SmallStep DEF Safe

LEMMA SafeStep == Safe /\ [Next]_vars => Safe'
<1> SUFFICES ASSUME Safe, [Next]_vars PROVE Safe'
  OBVIOUS
<1>1. ASSUME NEW s \in Sizes, AllocSmall(s) PROVE Safe'
  <2>1. s \in Requests /\ (SmallSucceeds(s) \/ SmallFails(s))
    BY <1>1 DEF AllocSmall, Requests
  <2>2. large' \in Seq(Addrs \union {NULL}) /\ heap' \subseteq Addrs
    BY <1>1 DEF AllocSmall, Safe, TypeOK
  <2> QED
    BY <1>1, <2>1, <2>2, SmallStep DEF AllocSmall, Safe
<1>2. ASSUME NEW a \in Addrs, AllocLarge(a) PROVE Safe'
  <2>1. CASE \E k \in 1 .. Len(large) : ReuseSlot(a, k)
    <3>1. PICK k \in 1 .. Len(large) : ReuseSlot(a, k)
      BY <2>1
    <3>2. /\ large' \in Seq(Addrs \union {NULL}) /\ heap' \subseteq Addrs
          /\ UNCHANGED small
      BY <3>1 DEF ReuseSlot, Safe, TypeOK
    <3> QED
      BY <1>2, <3>2, SmallSame DEF AllocLarge, Safe, TypeOK
  <2>2. CASE PrependSlot(a) \/ NoSlot(a)
    BY <1>2, <2>2, PrependOrNot DEF AllocLarge
  <2> QED
    BY <1>2, <2>1, <2>2 DEF AllocLarge
<1>3. ASSUME NEW a \in Addrs, mp_memalign(a) PROVE Safe'
  BY <1>3, PrependOrNot DEF mp_memalign
<1>4. ASSUME NEW a \in Addrs, mp_free(a) PROVE Safe'
  <2>1. large' \in Seq(Addrs \union {NULL}) /\ heap' \subseteq Addrs
    BY <1>4 DEF mp_free, Safe, TypeOK
  <2> QED
    BY <1>4, <2>1, SmallSame DEF mp_free, Safe, TypeOK
<1>5. CASE mp_reset_pool
  <2>1. /\ last \in Seq(Nat) /\ Len(last) \in Nat /\ Blocks = 1 .. Len(last)
        /\ last' = [b \in Blocks |-> Start(b)]
    BY <1>5 DEF mp_reset_pool, Emptied, Safe, TypeOK, Blocks
  <2>2. last' \in [1 .. Len(last) -> Nat]
    BY <2>1, Geometry
  <2>3. last' \in Seq(Nat) /\ Len(last') = Len(last)
    BY <2>1, <2>2, SeqDef
  <2>4. \A b \in Blocks : last'[b] = Start(b) /\ Start(b) \in Nat /\ b \in Nat
    BY <2>1, Geometry
  <2>5. Blocks' = Blocks
    BY <2>3 DEF Blocks
  <2>6. TypeOK'
    <3>1. \A b \in Blocks' : last'[b] >= Start(b)
      BY <2>4, <2>5
    <3>2. large' \in Seq(Addrs \union {NULL}) /\ heap' \subseteq Addrs /\ chunks' = {}
      BY <1>5 DEF mp_reset_pool, Safe, TypeOK
    <3>3. UNCHANGED <<failed, current, headNext, status>>
      BY <1>5 DEF mp_reset_pool
    <3> QED
      BY <2>3, <2>5, <3>1, <3>2, <3>3 DEF Safe, TypeOK
  <2>7. Room'
    BY <2>4, <2>5, Geometry DEF Room
  <2>8. Below' /\ Apart'
    BY <1>5 DEF mp_reset_pool, Below, Apart
  <2> QED
    BY <2>6, <2>7, <2>8 DEF Safe
<1>6. CASE mp_destory_pool
  <2>1. large' \in Seq(Addrs \union {NULL}) /\ heap' \subseteq Addrs
    BY <1>6 DEF mp_destory_pool, Safe, TypeOK
  <2> QED
    BY <1>6, <2>1, SmallSame DEF mp_destory_pool
<1>7. CASE WildRead
  BY <1>7, SmallSame DEF WildRead, Safe, TypeOK
<1>8. CASE UNCHANGED vars
  BY <1>8, SmallSame DEF vars, small, Safe, TypeOK
<1> QED
  BY <1>1, <1>2, <1>3, <1>4, <1>5, <1>6, <1>7, <1>8 DEF Next, Terminated

\* Every variable keeps its type: no last pointer falls below the data of its
\* block, and pool->current stays in the chain.
THEOREM Typing == Spec => []TypeOK
<1>1. Safe => TypeOK
  BY DEF Safe
<1> QED
  BY <1>1, SafeInit, SafeStep, PTL DEF Spec

\* In any pool, even one whose comparison wraps, no request is served with
\* bytes that an earlier chunk of the same block has.
THEOREM BlockNeverServesTwice == Spec => []Apart
<1>1. Safe => Apart
  BY DEF Safe
<1> QED
  BY <1>1, SafeInit, SafeStep, PTL DEF Spec

\* In the pools where the remainders of the sizes keep last away from the
\* last bytes of a block, all that is handed out lies inside the blocks.
THEOREM WrapFreeInBounds == WrapFree => (Spec => []InBounds)
<1> SUFFICES ASSUME WrapFree PROVE Spec => []InBounds
  OBVIOUS
<1>1. Safe => InBounds
  <2> SUFFICES ASSUME Safe, NEW c \in chunks
               PROVE  c.block \in Blocks /\ Start(c.block) <= c.lo
                                         /\ c.hi <= End(c.block)
    BY DEF InBounds
  <2>0. c \in [block : Nat, lo : Nat, hi : Nat]
    BY DEF Safe, TypeOK
  <2>1. /\ c.block \in Blocks /\ Start(c.block) <= c.lo
        /\ c.hi <= last[c.block] /\ c.hi \in Nat
    BY <2>0 DEF Safe, Below
  <2>2. last[c.block] \in Nat /\ c.block \in Nat
    <3> DEFINE k == c.block
    <3>1. last \in Seq(Nat) /\ k \in 1 .. Len(last)
      BY <2>1 DEF Safe, TypeOK, Blocks
    <3> HIDE DEF k
    <3>2. last[k] \in Nat /\ k \in Nat
      BY ONLY <3>1
    <3> QED
      BY <3>2 DEF k
  <2>3. /\ last[c.block] <= Align(last[c.block]) /\ Align(last[c.block]) \in Nat
        /\ Align(last[c.block]) <= End(c.block) /\ End(c.block) \in Nat
    BY <2>1, <2>2, AlignUp, Geometry DEF Safe, Room
  <2>4. Align(last[c.block]) \in Nat /\ Start(c.block) \in Nat
    BY ONLY <2>3, <2>2, Geometry
  <2>5. c.hi <= End(c.block)
    BY ONLY <2>1, <2>2, <2>3, <2>4
  <2> QED
    BY ONLY <2>1, <2>5
<1> QED
  BY <1>1, SafeInit, SafeStep, PTL DEF Spec

\* The chain is never longer than the blocks that posix_memalign gives.
LEMMA Bounded == Spec => [](Len(last) <= MaxBlocks)
<1> DEFINE Few == Len(last) <= MaxBlocks
<1>1. Init => Few
  BY PoolAssumption DEF Init
<1>2. TypeOK /\ Few /\ [Next]_vars => Few'
  <2> SUFFICES ASSUME TypeOK, Few, [Next]_vars PROVE Few'
    OBVIOUS
  <2>1. last \in Seq(Nat) /\ Len(last) \in Nat /\ MaxBlocks \in Nat
    BY PoolAssumption DEF TypeOK
  <2>2. ASSUME NEW s, SmallSucceeds(s) \/ SmallFails(s) PROVE Few'
    <3>1. ASSUME NEW b \in Blocks, CarveFrom(b, s) PROVE Len(last') = Len(last)
      BY <3>1, <2>1 DEF CarveFrom
    <3>2. ASSUME mp_alloc_block(s) PROVE Few'
      <4>1. Len(last) < MaxBlocks /\ last' = Append(last, FirstLast(s))
        BY <3>2 DEF mp_alloc_block
      <4>2. Len(last') = Len(last) + 1
        BY <4>1, <2>1
      <4> QED
        BY <4>1, <4>2, <2>1
    <3>3. ASSUME SmallFails(s) PROVE Few'
      BY <3>3 DEF SmallFails, small
    <3> QED
      BY <2>2, <3>1, <3>2, <3>3 DEF SmallSucceeds
  <2>3. ASSUME mp_reset_pool PROVE Few'
    BY <2>1, <2>3 DEF mp_reset_pool, Blocks
  <2>4. ASSUME UNCHANGED last PROVE Few'
    BY <2>4
  <2> QED
    BY <2>2, <2>3, <2>4
       DEF Next, AllocSmall, AllocLarge, mp_memalign, mp_free, PrependSlot, NoSlot,
           ReuseSlot, mp_destory_pool, WildRead, Terminated, vars, small
<1> QED
  BY <1>1, <1>2, Typing, PTL DEF Spec

\* In these pools no two chunks overlap in memory, wherever posix_memalign has
\* put the blocks: in one block they are apart, and between two blocks the
\* blocks are.
THEOREM ChunksNeverOverlap == WrapFree => (Spec => []Disjoint)
<1> SUFFICES ASSUME WrapFree PROVE Spec => []Disjoint
  OBVIOUS
<1>1. Safe /\ InBounds /\ Len(last) <= MaxBlocks => Disjoint
  <2> SUFFICES ASSUME Safe, InBounds, Len(last) <= MaxBlocks PROVE Disjoint
    OBVIOUS
  <2>1. ASSUME NEW c \in chunks
        PROVE  /\ c.block \in 1 .. MaxBlocks /\ c.lo \in Nat /\ c.hi \in Nat
               /\ Start(c.block) <= c.lo /\ c.hi <= End(c.block)
               /\ Start(c.block) \in Nat /\ End(c.block) \in Nat
               /\ Base[c.block] \in Nat /\ c.hi <= last[c.block]
    <3>1. c.block \in Blocks /\ Len(last) \in Nat /\ MaxBlocks \in Nat
      BY PoolAssumption DEF Safe, TypeOK, InBounds
    <3>2. c.block \in 1 .. MaxBlocks
      BY <3>1 DEF Blocks
    <3>3. c.lo \in Nat /\ c.hi \in Nat
      BY DEF Safe, TypeOK
    <3>4. Base[c.block] \in Nat
      BY <3>2, PlacementAssumption
    <3>5. Start(c.block) \in Nat /\ End(c.block) \in Nat
      <4>1. c.block \in Nat
        BY <3>1, <3>2
      <4> QED
        BY <4>1, Geometry
    <3>6. Start(c.block) <= c.lo /\ c.hi <= End(c.block) /\ c.hi <= last[c.block]
      BY DEF InBounds, Safe, Below
    <3> QED
      BY <3>2, <3>3, <3>4, <3>5, <3>6
  <2>2. ASSUME NEW c \in chunks, NEW d \in chunks, c # d
        PROVE  \/ Base[c.block] + c.hi <= Base[d.block] + d.lo
               \/ Base[d.block] + d.hi <= Base[c.block] + c.lo
    <3>1. CASE c.block = d.block
      <4>1. c.hi <= d.lo \/ d.hi <= c.lo
        BY <2>2, <3>1 DEF Safe, Apart
      <4> QED
        BY <4>1, <3>1, <2>1
    <3>2. CASE c.block # d.block
      <4>1. \/ Base[c.block] + End(c.block) <= Base[d.block]
            \/ Base[d.block] + End(d.block) <= Base[c.block]
        <5>1. c.block < d.block \/ d.block < c.block
          BY <3>2, <2>1
        <5> QED
          BY <5>1, <2>1, PlacementAssumption
      <4>2. /\ c.lo \in Nat /\ c.hi \in Nat /\ Base[c.block] \in Nat
            /\ End(c.block) \in Nat /\ c.hi <= End(c.block)
        BY <2>1
      <4>3. /\ d.lo \in Nat /\ d.hi \in Nat /\ Base[d.block] \in Nat
            /\ End(d.block) \in Nat /\ d.hi <= End(d.block)
        BY <2>1
      <4> QED
        BY ONLY <4>1, <4>2, <4>3
    <3> QED
      BY <3>1, <3>2
  <2> QED
    BY <2>1, <2>2 DEF Disjoint
<1> QED
  BY <1>1, SafeInit, SafeStep, WrapFreeInBounds, Bounded, PTL DEF Spec

-----------------------------------------------------------------------------
(* Large blocks.                                                           *)

Accounted == TypeOK /\ LargeAccounted

\* A block that is not in the list is put into an empty slot.
LEMMA ReuseAccounts ==
  ASSUME Accounted, status = "live", status' = status,
         NEW a \in Addrs \ heap, NEW k \in 1 .. Len(large), ReuseSlot(a, k)
  PROVE  LargeAccounted'
<1>1. /\ large \in Seq(Addrs \union {NULL}) /\ NULL \notin Addrs /\ Len(large) \in Nat
      /\ heap = Listed /\ large[k] = NULL
  BY PoolAssumption DEF Accounted, TypeOK, LargeAccounted, ReuseSlot, Reusable
<1>2. /\ large' = [large EXCEPT ![k] = a] /\ heap' = heap \union {a}
  BY DEF ReuseSlot
<1>3. /\ Len(large') = Len(large) /\ large'[k] = a
      /\ \A j \in 1 .. Len(large) : j # k => large'[j] = large[j]
  BY <1>1, <1>2
<1>4. \A j \in 1 .. Len(large) : large[j] # a
  BY <1>1 DEF Listed
<1>5. heap' = Listed'
  BY <1>1, <1>2, <1>3 DEF Listed
<1>6. \A i, j \in 1 .. Len(large') : large'[i] = large'[j] /\ large'[i] # NULL => i = j
  BY <1>3, <1>4 DEF Accounted, LargeAccounted
<1> QED
  BY <1>5, <1>6 DEF LargeAccounted

\* A new slot in front of the list remembers a block that is not in it.
LEMMA PrependAccounts ==
  ASSUME Accounted, status = "live", status' = status,
         NEW a \in Addrs \ heap, PrependSlot(a)
  PROVE  LargeAccounted'
<1>1. /\ large \in Seq(Addrs \union {NULL}) /\ NULL \notin Addrs /\ Len(large) \in Nat
      /\ heap = Listed
  BY PoolAssumption DEF Accounted, TypeOK, LargeAccounted
<1>2. large' = <<a>> \o large /\ heap' = heap \union {a}
  BY DEF PrependSlot
<1>3. Len(large') = Len(large) + 1 /\ large'[1] = a
  BY <1>1, <1>2
<1>4. /\ \A j \in 1 .. Len(large) : large'[j + 1] = large[j]
      /\ \A i \in 2 .. Len(large') : i - 1 \in 1 .. Len(large) /\ large'[i] = large[i - 1]
  BY <1>1, <1>2, <1>3
<1>5. \A j \in 1 .. Len(large) : large[j] # a
  BY <1>1 DEF Listed
<1>6. heap' = Listed'
  <2>1. ASSUME NEW x \in heap' PROVE x \in Listed'
    <3>1. CASE x = a
      BY <3>1, <1>1, <1>3 DEF Listed
    <3>2. CASE x \in heap
      <4>1. PICK j \in 1 .. Len(large) : large[j] = x
        BY <3>2, <1>1 DEF Listed
      <4>2. j + 1 \in 1 .. Len(large') /\ large'[j + 1] = x
        BY <4>1, <1>1, <1>3, <1>4
      <4>3. x # NULL
        BY <3>2, <1>1 DEF Listed
      <4> QED
        BY <4>2, <4>3 DEF Listed
    <3> QED
      BY <2>1, <3>1, <3>2, <1>2
  <2>2. ASSUME NEW x \in Listed' PROVE x \in heap'
    <3>1. PICK i \in 1 .. Len(large') : large'[i] = x
      BY <2>2 DEF Listed
    <3>2. x # NULL
      BY <2>2 DEF Listed
    <3>3. CASE i = 1
      BY <3>1, <3>3, <1>2, <1>3
    <3>4. CASE i # 1
      <4>1. i - 1 \in 1 .. Len(large) /\ large[i - 1] = x
        BY <3>1, <3>4, <1>1, <1>3, <1>4
      <4> QED
        BY <4>1, <3>2, <1>1, <1>2 DEF Listed
    <3> QED
      BY <3>3, <3>4
  <2> QED
    BY <2>1, <2>2
<1>7. ASSUME NEW i \in 1 .. Len(large'), NEW j \in 1 .. Len(large'),
             large'[i] = large'[j], large'[i] # NULL
      PROVE  i = j
  <2>1. CASE i = 1 \/ j = 1
    BY <1>1, <1>3, <1>4, <1>5, <1>7, <2>1
  <2>2. CASE i # 1 /\ j # 1
    <3>1. /\ i - 1 \in 1 .. Len(large) /\ large'[i] = large[i - 1]
          /\ j - 1 \in 1 .. Len(large) /\ large'[j] = large[j - 1]
      BY <1>1, <1>3, <1>4, <2>2
    <3>2. i - 1 = j - 1
      BY <3>1, <1>7 DEF Accounted, LargeAccounted
    <3> QED
      BY <3>2
  <2> QED
    BY <2>1, <2>2
<1> QED
  BY <1>6, <1>7 DEF LargeAccounted

\* The one slot of a freed block is emptied.
LEMMA FreeAccounts ==
  ASSUME Accounted, NEW a \in Addrs, mp_free(a) PROVE LargeAccounted'
<1>1. /\ large \in Seq(Addrs \union {NULL}) /\ NULL \notin Addrs /\ Len(large) \in Nat
      /\ status = "live" /\ status' = status /\ heap = Listed
  BY PoolAssumption DEF Accounted, TypeOK, LargeAccounted, mp_free
<1>2. PICK k \in 1 .. Len(large) : large[k] = a /\ large' = [large EXCEPT ![k] = NULL]
  BY DEF mp_free
<1>3. heap' = heap \ {a}
  BY DEF mp_free
<1>4. /\ Len(large') = Len(large) /\ large'[k] = NULL
      /\ \A j \in 1 .. Len(large) : j # k => large'[j] = large[j]
  BY <1>1, <1>2
<1>5. \A j \in 1 .. Len(large) : j # k => large[j] # a
  BY <1>1, <1>2 DEF Accounted, LargeAccounted
<1>6. heap' = Listed'
  BY <1>1, <1>2, <1>3, <1>4, <1>5 DEF Listed
<1>7. \A i, j \in 1 .. Len(large') : large'[i] = large'[j] /\ large'[i] # NULL => i = j
  BY <1>4 DEF Accounted, LargeAccounted
<1> QED
  BY <1>1, <1>6, <1>7 DEF LargeAccounted

LEMMA AccountedStep == Accounted /\ [Next]_vars => LargeAccounted'
<1> SUFFICES ASSUME Accounted, [Next]_vars PROVE LargeAccounted'
  OBVIOUS
<1>1. ASSUME UNCHANGED <<large, heap>>, status' = status \/ (status = "live" /\ status' = "wild")
      PROVE  LargeAccounted'
  BY <1>1 DEF Accounted, LargeAccounted, Listed
<1>2. ASSUME NEW a \in Addrs, NoSlot(a), status' = status PROVE LargeAccounted'
  BY <1>1, <1>2 DEF NoSlot, GivesBack
<1>3. ASSUME NEW s \in Sizes, AllocSmall(s) PROVE LargeAccounted'
  BY <1>1, <1>3 DEF AllocSmall
<1>4. ASSUME NEW a \in Addrs, AllocLarge(a) PROVE LargeAccounted'
  BY <1>2, <1>4, ReuseAccounts, PrependAccounts DEF AllocLarge
<1>5. ASSUME NEW a \in Addrs, mp_memalign(a) PROVE LargeAccounted'
  BY <1>2, <1>5, PrependAccounts DEF mp_memalign
<1>6. ASSUME NEW a \in Addrs, mp_free(a) PROVE LargeAccounted'
  BY <1>6, FreeAccounts
<1>7. CASE mp_reset_pool
  <2>1. heap = Listed /\ status' = "live"
    BY <1>7 DEF mp_reset_pool, Accounted, LargeAccounted
  <2>2. heap' = {} /\ large' = <<>>
    BY <1>7, <2>1 DEF mp_reset_pool
  <2> QED
    BY <2>1, <2>2 DEF LargeAccounted, Listed
<1>8. CASE mp_destory_pool
  <2>1. heap = Listed /\ status' = "destroyed" /\ large' = large
    BY <1>8 DEF mp_destory_pool, Accounted, LargeAccounted
  <2>2. heap' = {}
    BY <1>8, <2>1 DEF mp_destory_pool
  <2> QED
    BY <2>1, <2>2 DEF Accounted, LargeAccounted
<1>9. CASE WildRead
  BY <1>1, <1>9 DEF WildRead
<1>10. CASE UNCHANGED vars
  BY <1>1, <1>10 DEF vars
<1> QED
  BY <1>3, <1>4, <1>5, <1>6, <1>7, <1>8, <1>9, <1>10 DEF Next, Terminated

\* The list of mp_alloc_large holds each large block that exists once, so
\* that mp_free, mp_reset_pool and mp_destory_pool free it exactly once.
THEOREM LargeBlocksAccounted == Spec => []LargeAccounted
<1>1. Init => LargeAccounted
  BY DEF Init, LargeAccounted, Listed
<1>2. Safe /\ LargeAccounted /\ [Next]_vars => LargeAccounted'
  BY AccountedStep DEF Safe, Accounted
<1> QED
  BY <1>1, <1>2, SafeInit, SafeStep, PTL DEF Spec

-----------------------------------------------------------------------------
(* Blocks that are skipped.                                                *)

\* Where mp_alloc_block appends a block: the visited ones have failed once
\* more, and pool->current moves behind one that has now failed six times.
LEMMA FailuresStep ==
  ASSUME TypeOK, SkippedHaveFailed, NEW s, mp_alloc_block(s)
  PROVE  SkippedHaveFailed'
<1> DEFINE n == Len(last)
<1>1. /\ n \in Nat /\ n >= 1 /\ Len(failed) = n /\ failed \in Seq(Nat)
      /\ current \in 1 .. n /\ Blocks = 1 .. n
      /\ \A b \in 1 .. n : failed[b] \in Nat
  BY DEF TypeOK, Blocks
<1>2. /\ last' = Append(last, FirstLast(s)) /\ last \in Seq(Nat)
      /\ failed' = Append([b \in Blocks |-> IF b \in Visited THEN failed[b] + 1 ELSE failed[b]], 0)
      /\ MoveCurrent /\ Visited = current .. n - 1
  BY DEF mp_alloc_block, Visited, TypeOK
<1>3. Len(last') = n + 1
  BY <1>2
<1> HIDE DEF n
<1>4. /\ failed'[n + 1] = 0
      /\ \A b \in 1 .. n : failed'[b] = IF b \in current .. n - 1 THEN failed[b] + 1
                                                                  ELSE failed[b]
  <2> DEFINE f == [b \in 1 .. n |-> IF b \in current .. n - 1 THEN failed[b] + 1 ELSE failed[b]]
  <2>1. f \in [1 .. n -> Nat]
    BY <1>1
  <2>2. f \in Seq(Nat) /\ Len(f) = n
    BY <2>1, <1>1, SeqDef
  <2>3. failed' = Append(f, 0)
    BY <1>1, <1>2
  <2>4. \A b \in 1 .. n : f[b] = IF b \in current .. n - 1 THEN failed[b] + 1 ELSE failed[b]
    OBVIOUS
  <2> HIDE DEF f
  <2>5. failed'[n + 1] = 0 /\ \A b \in 1 .. n : failed'[b] = f[b]
    BY <2>2, <2>3, <1>1
  <2> QED
    BY <2>4, <2>5
<1>5. current' \in current .. n
  <2>1. CASE current' = current
    BY <2>1, <1>1
  <2>2. ASSUME NEW b \in current .. n - 1, current' = b + 1 PROVE current' \in current .. n
    BY <2>2, <1>1
  <2>3. current' = current \/ \E b \in current .. n - 1 : current' = b + 1
    BY <1>2 DEF MoveCurrent
  <2> QED
    BY <2>1, <2>2, <2>3
<1>0. PICK k \in current .. n : current' = k
  BY <1>5
<1>6. ASSUME NEW b \in 1 .. k - 1 PROVE failed'[b] >= 6
  <2>0. /\ n \in Nat /\ current \in Nat
        /\ k \in Int /\ k <= n
    <3>1. n \in Nat /\ current \in Nat
      BY ONLY <1>1
    <3>2. k \in Int /\ k <= n
      BY ONLY <3>1, <1>0
    <3> QED
      BY ONLY <3>1, <3>2
  <2>1. b \in 1 .. n /\ failed[b] \in Nat /\ current \in Nat
    <3>1. b \in Int /\ b >= 1 /\ b <= k - 1
      BY <2>0, <1>6
    <3>2. b \in 1 .. n
      BY ONLY <2>0, <3>1
    <3> QED
      BY ONLY <2>0, <3>2, <1>1
  <2>2. CASE b < current
    <3>1. failed[b] >= 6
      BY <2>1, <2>2, <1>1 DEF SkippedHaveFailed
    <3> QED
      BY <2>1, <2>2, <3>1, <1>4
  <2>3. CASE b >= current
    <3>1. PICK c \in current .. n - 1 : failed[c] > 4 /\ k = c + 1
      BY <2>1, <2>3, <1>0, <1>1, <1>2, <1>6 DEF MoveCurrent, WornOut
    <3>2. b <= c /\ c \in 1 .. n /\ failed[c] \in Nat /\ b \in current .. n - 1
      BY <2>1, <2>3, <3>1, <1>1, <1>6
    <3>3. failed[b] >= failed[c]
      <4>1. CASE b = c
        BY <4>1, <3>2
      <4>2. CASE b < c
        <5>1. b \in current .. Len(last) /\ c \in current .. Len(last)
          BY <3>1, <3>2, <1>1 DEF n
        <5> QED
          BY <4>2, <5>1 DEF SkippedHaveFailed
      <4> QED
        BY <4>1, <4>2, <3>2, <2>1, <1>1
    <3>4. failed'[b] = failed[b] + 1
      BY <2>1, <3>2, <1>4
    <3> QED
      BY <2>1, <3>1, <3>2, <3>3, <3>4
  <2> QED
    BY <2>1, <2>2, <2>3, <1>1
<1>7. ASSUME NEW b \in k .. n + 1, NEW c \in k .. n + 1, b < c
      PROVE  failed'[b] >= failed'[c]
  <2>0. /\ n \in Nat /\ current \in Nat /\ current >= 1
        /\ k \in Int /\ k >= current
    <3>1. n \in Nat /\ current \in Nat /\ current >= 1
      BY ONLY <1>1
    <3>2. k \in Int /\ k >= current
      BY ONLY <3>1, <1>0
    <3> QED
      BY ONLY <3>1, <3>2
  <2>1. b \in current .. n /\ failed[b] \in Nat /\ b \in 1 .. n /\ b \in Nat
    <3>1. b \in current .. n /\ b \in 1 .. n /\ b \in Nat
      BY <2>0, <1>7
    <3> QED
      BY ONLY <3>1, <1>1
  <2>2. failed'[b] \in Nat /\ failed'[b] >= failed[b]
    BY <2>1, <1>4
  <2>3. CASE c = n + 1
    BY <2>2, <2>3, <1>4
  <2>4. CASE c # n + 1
    <3>1. c \in current .. n /\ failed[c] \in Nat /\ c \in 1 .. n /\ b \in current .. n - 1
      BY <2>1, <2>4, <1>1, <1>0, <1>7
    <3>2. failed[b] >= failed[c]
      BY <2>1, <3>1, <1>7 DEF SkippedHaveFailed, n
    <3>3. failed'[b] = failed[b] + 1 /\ failed'[c] <= failed[c] + 1 /\ failed'[c] \in Nat
      BY <2>1, <3>1, <1>4
    <3> QED
      BY <2>1, <3>1, <3>2, <3>3
  <2> QED
    BY <2>3, <2>4
<1>8. /\ \A b \in 1 .. current' - 1 : failed'[b] >= 6
      /\ \A b, c \in current' .. n + 1 : b < c => failed'[b] >= failed'[c]
  BY ONLY <1>0, <1>6, <1>7, Zenon
<1> QED
  BY <1>3, <1>8 DEF SkippedHaveFailed

LEMMA SkippedStep == TypeOK /\ SkippedHaveFailed /\ [Next]_vars => SkippedHaveFailed'
<1> SUFFICES ASSUME TypeOK, SkippedHaveFailed, [Next]_vars PROVE SkippedHaveFailed'
  OBVIOUS
<1>1. ASSUME UNCHANGED <<failed, current>>, Len(last') = Len(last) PROVE SkippedHaveFailed'
  BY <1>1 DEF SkippedHaveFailed
<1>2. ASSUME NEW s, SmallSucceeds(s) \/ SmallFails(s) PROVE SkippedHaveFailed'
  <2>1. CASE \E b \in Blocks : CarveFrom(b, s)
    <3>1. PICK b \in Blocks : CarveFrom(b, s)
      BY <2>1
    <3>2. Len(last') = Len(last)
      BY <3>1 DEF CarveFrom, TypeOK
    <3> QED
      BY <1>1, <3>1, <3>2 DEF CarveFrom
  <2>2. CASE mp_alloc_block(s)
    BY <2>2, FailuresStep
  <2>3. CASE SmallFails(s)
    BY <1>1, <2>3 DEF SmallFails, small
  <2> QED
    BY <1>2, <2>1, <2>2, <2>3 DEF SmallSucceeds
<1>3. ASSUME NEW s \in Sizes, AllocSmall(s) PROVE SkippedHaveFailed'
  BY <1>2, <1>3 DEF AllocSmall
<1>4. ASSUME NEW a \in Addrs, PrependSlot(a) \/ NoSlot(a) PROVE SkippedHaveFailed'
  BY <1>2, <1>4 DEF PrependSlot, NoSlot
<1>5. ASSUME NEW a \in Addrs, AllocLarge(a) PROVE SkippedHaveFailed'
  BY <1>1, <1>4, <1>5 DEF AllocLarge, ReuseSlot, small
<1>6. ASSUME NEW a \in Addrs, mp_memalign(a) \/ mp_free(a) PROVE SkippedHaveFailed'
  BY <1>1, <1>4, <1>6 DEF mp_memalign, mp_free, small
<1>7. CASE mp_reset_pool
  <2>1. last' = [b \in 1 .. Len(last) |-> Emptied(b)] /\ Len(last) \in Nat
    BY <1>7 DEF mp_reset_pool, Blocks, TypeOK
  <2>2. Len(last') = Len(last)
    BY <2>1
  <2> QED
    BY <1>1, <1>7, <2>2 DEF mp_reset_pool
<1>8. CASE mp_destory_pool \/ WildRead
  BY <1>1, <1>8 DEF mp_destory_pool, WildRead, small
<1>9. CASE UNCHANGED vars
  BY <1>1, <1>9 DEF vars, small
<1> QED
  BY <1>3, <1>5, <1>6, <1>7, <1>8, <1>9 DEF Next, Terminated

\* pool->current of mp_alloc_block skips only blocks that have failed six
\* times, and never one that has failed less often than a later one.
THEOREM SkippedBlocksFailed == Spec => []SkippedHaveFailed
<1>1. Init => SkippedHaveFailed
  BY DEF Init, SkippedHaveFailed
<1>2. Safe /\ SkippedHaveFailed /\ [Next]_vars => SkippedHaveFailed'
  BY SkippedStep DEF Safe
<1> QED
  BY <1>1, <1>2, SafeInit, SafeStep, PTL DEF Spec

\* A chunk carved by a small request lies at current or behind it, and
\* current stays or moves forward.
LEMMA CarvedFromCurrent ==
  ASSUME TypeOK, NEW s, SmallSucceeds(s)
  PROVE  /\ current <= current'
         /\ \A c \in chunks' \ chunks : c.block >= current
<1>1. current \in Nat /\ current <= Len(last) /\ Len(last) \in Nat
  BY DEF TypeOK, Blocks
<1>2. CASE \E b \in Blocks : CarveFrom(b, s)
  <2>1. PICK b \in Blocks : CarveFrom(b, s)
    BY <1>2
  <2>2. b >= current
    BY <1>1, <2>1 DEF CarveFrom, Fitting
  <2> QED
    BY <1>1, <2>1, <2>2 DEF CarveFrom, Chunk
<1>3. CASE mp_alloc_block(s)
  <2>1. current <= current'
    BY <1>1, <1>3 DEF mp_alloc_block, MoveCurrent, Visited
  <2>2. \A c \in chunks' \ chunks : c.block = Len(last) + 1
    BY <1>3 DEF mp_alloc_block, Chunk
  <2> QED
    BY <1>1, <2>1, <2>2
<1> QED
  BY <1>2, <1>3 DEF SmallSucceeds

\* Once pool->current has moved past a block, mp_alloc_block and
\* mp_reset_pool keep it out of use for good.
THEOREM SkippedBlocksStaySkipped == Spec => SkippedForGood
<1> DEFINE Forward == /\ current <= current'
                      /\ \A c \in chunks' \ chunks : c.block >= current
<1>1. ASSUME TypeOK, [Next]_vars PROVE Forward
  <2>1. current \in Nat
    BY <1>1 DEF TypeOK, Blocks
  <2>2. CASE UNCHANGED small
    BY <2>1, <2>2 DEF small
  <2>3. ASSUME NEW s \in Sizes, AllocSmall(s) PROVE Forward
    BY <1>1, <2>2, <2>3, CarvedFromCurrent DEF AllocSmall, SmallFails
  <2>4. ASSUME NEW a \in Addrs, AllocLarge(a) \/ mp_memalign(a) \/ mp_free(a)
        PROVE  Forward
    BY <1>1, <2>2, <2>4, CarvedFromCurrent
       DEF AllocLarge, mp_memalign, mp_free, ReuseSlot, PrependSlot, NoSlot, SmallFails
  <2>5. CASE mp_reset_pool
    BY <2>1, <2>5 DEF mp_reset_pool
  <2>6. CASE mp_destory_pool \/ WildRead \/ UNCHANGED vars
    BY <2>2, <2>6 DEF mp_destory_pool, WildRead, vars, small
  <2> QED
    BY <1>1, <2>3, <2>4, <2>5, <2>6 DEF Next, Terminated
<1> HIDE DEF Forward
<1>2. TypeOK /\ [Next]_vars => [Forward]_vars
  BY <1>1
<1>3. Spec => [][Forward]_vars
  BY <1>2, Typing, PTL DEF Spec
<1> QED
  BY <1>3 DEF SkippedForGood, Forward

=============================================================================
