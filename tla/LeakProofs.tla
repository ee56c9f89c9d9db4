------------------------------ MODULE LeakProofs ------------------------------
(***************************************************************************)
(* Proofs about LeakCheck, for any threads, addresses and number of files. *)
(* The inductive invariant says who answers for a block without a file (a  *)
(* hook that has it in hand), for a switch that is off (a thread inside    *)
(* the hook, or a failed unlink) and for an open file (a thread before its *)
(* fclose).                                                                *)
(***************************************************************************)
EXTENDS LeakCheck, FiniteSetTheorems, TLAPS

\* A hook that holds a block between the allocator and its file.
Handles(t) == pc[t] \in {"record", "free"}

\* What the books say as long as no call has found its hook off: files and
\* blocks in hand are allocated, and no block is twice in the books.
Books ==
  ~bypassed =>
    /\ ~corrupted /\ missed = {}
    /\ files \ {NULL} \subseteq heap
    /\ \A t \in Threads : Handles(t) /\ ptr[t] # NULL => ptr[t] \in heap \ files
    /\ \A t, u \in Threads :
         Handles(t) /\ Handles(u) /\ ptr[t] # NULL /\ ptr[t] = ptr[u] => t = u

\* Only dlsym_hook.c has switches, and somebody will set one that is off.
Switches ==
  /\ \A t \in Threads : pc[t] \in {"mset", "fset"} => dlsym
  /\ ~mhook => dlsym /\ \E t \in Threads : pc[t] \in {"malloc", "record", "mend"}
  /\ ~fhook => /\ dlsym
               /\ failed \/ \E t \in Threads : pc[t] \in {"unlink", "free", "fend"}

BeforeClose == {t \in Threads : pc[t] = "mend"}

\* In macro_hook.c each open file belongs to a thread before its fclose.
Streams ==
  /\ ~dlsym => open = Cardinality(BeforeClose)
  /\ MacroNeverCrashes

IInv == TypeOK /\ LeaksAreListed /\ Books /\ Switches /\ Streams

-----------------------------------------------------------------------------
(* Types.                                                                  *)

LEMMA TypedInit == Init => TypeOK
<1> SUFFICES ASSUME Init PROVE TypeOK
  OBVIOUS
<1>1. {dlsym, mhook, fhook, crashed, bypassed, failed, corrupted} \subseteq BOOLEAN
  BY Zenon DEF Init
<1>2. open \in 0 .. MaxOpen
  BY LeakAssumption DEF Init
<1>3. /\ pc \in [Threads -> {"out"} \union InMalloc \union InFree]
      /\ ptr \in [Threads -> Blocks \union {NULL}]
  BY DEF Init
<1> QED
  BY <1>1, <1>2, <1>3 DEF Init, TypeOK

\* Every step keeps the types.  A file is closed only after one was opened.
LEMMA TypedMalloc ==
  ASSUME TypeOK, Streams, NEW t \in Threads, Malloc(t) PROVE TypeOK'
<1>1. CASE CallMalloc(t)
  <2>1. CASE mhook \/ ~dlsym
    BY <1>1, <2>1 DEF CallMalloc, Goto, TypeOK, InMalloc, hooks
  <2>2. CASE dlsym /\ ~mhook
    BY <1>1, <2>2 DEF CallMalloc, Allocate, TypeOK, hooks
  <2> QED
    BY <2>1, <2>2, <1>1 DEF TypeOK
<1>2. CASE MallocOff(t)
  BY <1>2 DEF MallocOff, Goto, TypeOK, InMalloc, system, history
<1>3. CASE RealMalloc(t)
  <2>1. PICK p \in Blocks \union {NULL} : Allocate(p) /\ ptr' = [ptr EXCEPT ![t] = p]
    BY <1>3 DEF RealMalloc
  <2>2. heap \subseteq heap' /\ heap' \subseteq Blocks
    BY <2>1 DEF Allocate, TypeOK
  <2>3. /\ pc' \in [Threads -> {"out"} \union InMalloc \union InFree]
        /\ ptr' \in [Threads -> Blocks \union {NULL}]
    BY <1>3, <2>1 DEF RealMalloc, Goto, TypeOK, InMalloc
  <2>4. UNCHANGED <<dlsym, hooks, files, open, crashed, owned, history>>
    BY <1>3 DEF RealMalloc
  <2>5. missed' \subseteq heap' /\ files' \subseteq Blocks \union {NULL} /\ owned' \subseteq Blocks
    BY <2>2, <2>4 DEF TypeOK, history
  <2>6. open' \in 0 .. MaxOpen
    BY <2>4 DEF TypeOK
  <2>7. ({dlsym, mhook, fhook, crashed, bypassed, failed, corrupted} \subseteq BOOLEAN)'
    <3>1. UNCHANGED <<dlsym, mhook, fhook, crashed, bypassed, failed, corrupted>>
      BY <2>4 DEF hooks, history
    <3>2. {dlsym, mhook, fhook, crashed, bypassed, failed, corrupted} \subseteq BOOLEAN
      BY DEF TypeOK
    <3> QED
      BY <3>1, <3>2
  <2> QED
    BY <2>2, <2>3, <2>5, <2>6, <2>7 DEF TypeOK
<1>4. CASE Record(t)
  <2>1. /\ crashed' \in BOOLEAN /\ files' \subseteq Blocks \union {NULL}
        /\ pc' \in [Threads -> {"out"} \union InMalloc \union InFree]
    BY <1>4 DEF Record, Goto, TypeOK, InMalloc
  <2>2. open' \in 0 .. MaxOpen
    BY <1>4, LeakAssumption DEF Record, TypeOK
  <2> QED
    BY <1>4, <2>1, <2>2 DEF Record, TypeOK, hooks, history
<1>5. CASE MallocReturns(t)
  <2>1. ~dlsym => open >= 1
    <3>1. t \in BeforeClose /\ IsFiniteSet(BeforeClose)
      BY <1>5, LeakAssumption, FS_Subset DEF MallocReturns, At, BeforeClose
    <3>2. Cardinality(BeforeClose) # 0 /\ Cardinality(BeforeClose) \in Nat
      BY <3>1, FS_EmptySet, FS_CardinalityType
    <3> QED
      BY <3>2 DEF Streams, TypeOK
  <2>2. open' \in 0 .. MaxOpen
    BY <1>5, <2>1, LeakAssumption DEF MallocReturns, Closed, TypeOK
  <2> QED
    BY <1>5, <2>2 DEF MallocReturns, MallocOn, Goto, TypeOK, history
<1> QED
  BY <1>1, <1>2, <1>3, <1>4, <1>5 DEF Malloc

LEMMA TypedFree ==
  ASSUME TypeOK, NEW t \in Threads, Free(t) PROVE TypeOK'
<1>1. ASSUME NEW p \in Blocks \union {NULL}, CallFree(t, p) PROVE TypeOK'
  <2>1. CASE fhook \/ ~dlsym
    BY <1>1, <2>1 DEF CallFree, Goto, TypeOK, InFree, hooks
  <2>2. CASE dlsym /\ ~fhook
    BY <1>1, <2>2 DEF CallFree, Release, TypeOK, hooks
  <2> QED
    BY <2>1, <2>2, <1>1 DEF TypeOK
<1>2. CASE FreeOff(t)
  BY <1>2 DEF FreeOff, Goto, TypeOK, InFree, system, history
<1>3. CASE Unlink(t)
  BY <1>3 DEF Unlink, Removed, ToFree, AfterFailure, Goto, TypeOK, InFree, hooks
<1>4. CASE RealFree(t)
  BY <1>4 DEF RealFree, Release, Goto, TypeOK, InFree, hooks
<1>5. CASE FreeReturns(t)
  BY <1>5 DEF FreeReturns, Goto, TypeOK, system, history
<1> QED
  BY <1>1, <1>2, <1>3, <1>4, <1>5 DEF Free

LEMMA TypedStep == TypeOK /\ Streams /\ [Next]_vars => TypeOK'
<1>1. ASSUME TypeOK, UNCHANGED vars PROVE TypeOK'
  BY <1>1 DEF vars, hooks, system, history, TypeOK
<1> QED
  BY <1>1, TypedMalloc, TypedFree DEF Next

-----------------------------------------------------------------------------
(* A block without a file.                                                 *)

\* A step of one thread leaves the others where they are.
LEMMA Others ==
  ASSUME TypeOK, NEW t \in Threads, Malloc(t) \/ Free(t)
  PROVE  \A u \in Threads \ {t} : pc'[u] = pc[u] /\ ptr'[u] = ptr[u]
<1>1. \/ pc' = pc
      \/ \E l : pc' = [pc EXCEPT ![t] = l]
  BY DEF Malloc, Free, CallMalloc, MallocOff, RealMalloc, Record, MallocReturns,
         CallFree, FreeOff, Unlink, RealFree, FreeReturns, Goto
<1>2. \/ ptr' = ptr
      \/ \E p : ptr' = [ptr EXCEPT ![t] = p]
  BY DEF Malloc, Free, CallMalloc, MallocOff, RealMalloc, Record, MallocReturns,
         CallFree, FreeOff, Unlink, RealFree, FreeReturns
<1>3. \A u \in Threads \ {t} : pc'[u] = pc[u]
  BY <1>1 DEF TypeOK
<1>4. \A u \in Threads \ {t} : ptr'[u] = ptr[u]
  BY <1>2 DEF TypeOK
<1> QED
  BY <1>3, <1>4

-----------------------------------------------------------------------------
(* What a step does to the books: heap, files, missed, and two histories.  *)

books == <<heap, files, missed, bypassed, corrupted>>

Elsewhere(t) == UNCHANGED books /\ ~Handles(t) /\ ~Handles(t)'
Stands(t)    == UNCHANGED books /\ UNCHANGED <<pc, ptr>>
Bypass(t) ==
  /\ ~Handles(t) /\ ~Handles(t)' /\ bypassed' = TRUE /\ files' = files
  /\ \A b \in heap' : b \in missed' \/ (b \in heap /\ b \notin missed)
Takes(t) ==
  /\ ~Handles(t) /\ Handles(t)'
  /\ ptr'[t] \in Blocks \union {NULL} /\ Allocate(ptr'[t])
  /\ UNCHANGED <<files, missed, bypassed, corrupted>>
Puts(t) ==
  /\ Handles(t) /\ ~Handles(t)'
  /\ files' = files \union {ptr[t]}
  /\ UNCHANGED <<heap, missed, bypassed, corrupted>>
Picks(t) ==
  /\ ~Handles(t) /\ Handles(t)'
  /\ ptr'[t] = ptr[t] /\ ptr[t] \in files /\ files' = files \ {ptr[t]}
  /\ UNCHANGED <<heap, missed, bypassed, corrupted>>
Drops(t) ==
  /\ Handles(t) /\ ~Handles(t)'
  /\ Release(ptr[t]) /\ UNCHANGED <<files, bypassed>>

LEMMA MallocEffect ==
  ASSUME TypeOK, NEW t \in Threads, Malloc(t)
  PROVE  Elsewhere(t) \/ Stands(t) \/ Bypass(t) \/ Takes(t) \/ Puts(t)
<1>0. pc \in [Threads -> {"out"} \union InMalloc \union InFree]
      /\ ptr \in [Threads -> Blocks \union {NULL}]
  BY DEF TypeOK
<1>1. CASE CallMalloc(t)
  <2>1. CASE mhook \/ ~dlsym
    <3>1. pc[t] = "out" /\ pc'[t] \in {"mset", "malloc"}
      BY <1>0, <1>1, <2>1 DEF CallMalloc, At, Goto
    <3> QED
      BY <1>1, <2>1, <3>1 DEF CallMalloc, Elsewhere, Handles, books
  <2>2. CASE dlsym /\ ~mhook
    <3>1. pc[t] = "out" /\ pc' = pc
      BY <1>1, <2>2 DEF CallMalloc, At
    <3> QED
      BY <1>1, <2>2, <3>1 DEF CallMalloc, Bypass, Handles, Allocate
  <2> QED
    BY <1>1, <2>1, <2>2 DEF CallMalloc
<1>2. CASE MallocOff(t)
  <2>1. pc[t] = "mset" /\ pc'[t] = "malloc"
    BY <1>0, <1>2 DEF MallocOff, At, Goto
  <2> QED
    BY <1>2, <2>1 DEF MallocOff, Elsewhere, Handles, books, system, history
<1>3. CASE RealMalloc(t)
  <2>1. pc[t] = "malloc" /\ pc'[t] = "record"
    BY <1>0, <1>3 DEF RealMalloc, At, Goto
  <2>2. ptr'[t] \in Blocks \union {NULL} /\ Allocate(ptr'[t])
    BY <1>0, <1>3 DEF RealMalloc
  <2> QED
    BY <1>3, <2>1, <2>2 DEF RealMalloc, Takes, Handles, history
<1>4. CASE Record(t)
  <2>1. CASE open = MaxOpen
    BY <1>4, <2>1 DEF Record, Stands, books, history
  <2>2. CASE open # MaxOpen
    <3>1. pc[t] = "record" /\ pc'[t] = "mend"
      BY <1>0, <1>4, <2>2 DEF Record, At, Goto
    <3> QED
      BY <1>4, <2>2, <3>1 DEF Record, Puts, Handles, history
  <2> QED
    BY <2>1, <2>2
<1>5. CASE MallocReturns(t)
  <2>1. pc[t] = "mend" /\ pc'[t] = "out"
    BY <1>0, <1>5 DEF MallocReturns, At, Goto
  <2> QED
    BY <1>5, <2>1 DEF MallocReturns, Elsewhere, Handles, books, history
<1> QED
  BY <1>1, <1>2, <1>3, <1>4, <1>5 DEF Malloc

LEMMA FreeEffect ==
  ASSUME TypeOK, NEW t \in Threads, Free(t)
  PROVE  Elsewhere(t) \/ Bypass(t) \/ Picks(t) \/ Drops(t)
<1>0. pc \in [Threads -> {"out"} \union InMalloc \union InFree]
  BY DEF TypeOK
<1>1. ASSUME NEW p \in Blocks \union {NULL}, CallFree(t, p)
      PROVE  Elsewhere(t) \/ Bypass(t)
  <2>1. CASE fhook \/ ~dlsym
    <3>1. pc[t] = "out" /\ pc'[t] \in {"fset", "unlink"}
      BY <1>0, <1>1, <2>1 DEF CallFree, At, Goto
    <3> QED
      BY <1>1, <2>1, <3>1 DEF CallFree, Elsewhere, Handles, books
  <2>2. CASE dlsym /\ ~fhook
    <3>1. pc[t] = "out" /\ pc' = pc
      BY <1>1, <2>2 DEF CallFree, At
    <3> QED
      BY <1>1, <2>2, <3>1 DEF CallFree, Bypass, Handles, Release
  <2> QED
    BY <1>1, <2>1, <2>2 DEF CallFree
<1>2. CASE FreeOff(t)
  <2>1. pc[t] = "fset" /\ pc'[t] = "unlink"
    BY <1>0, <1>2 DEF FreeOff, At, Goto
  <2> QED
    BY <1>2, <2>1 DEF FreeOff, Elsewhere, Handles, books, system, history
<1>3. CASE Unlink(t)
  <2>1. pc[t] = "unlink" /\ pc'[t] = IF ptr[t] \in files THEN "free" ELSE "out"
    BY <1>0, <1>3 DEF Unlink, At, Goto, ToFree, AfterFailure
  <2> QED
    BY <1>3, <2>1 DEF Unlink, Elsewhere, Picks, Removed, Handles, books
<1>4. CASE RealFree(t)
  <2>1. pc[t] = "free" /\ pc'[t] \in {"fend", "out"}
    BY <1>0, <1>4 DEF RealFree, At, Goto
  <2> QED
    BY <1>4, <2>1 DEF RealFree, Drops, Handles
<1>5. CASE FreeReturns(t)
  <2>1. pc[t] = "fend" /\ pc'[t] = "out"
    BY <1>0, <1>5 DEF FreeReturns, At, Goto
  <2> QED
    BY <1>5, <2>1 DEF FreeReturns, Elsewhere, Handles, books, system, history
<1> QED
  BY <1>1, <1>2, <1>3, <1>4, <1>5 DEF Free

-----------------------------------------------------------------------------
(* The steps of the invariant.                                             *)

\* A hook lays a block down only in a file or in the allocator.
LEMMA ListedStep ==
  ASSUME TypeOK, LeaksAreListed, NEW t \in Threads, Malloc(t) \/ Free(t)
  PROVE  LeaksAreListed'
<1>0. \A b : b \in InHand <=> \E u \in Threads : Handles(u) /\ ptr[u] = b
  BY DEF InHand, Handles
<1>1. \A b : b \in InHand' <=> \E u \in Threads : Handles(u)' /\ ptr'[u] = b
  BY DEF InHand, Handles
<1>2. \A u \in Threads \ {t} : Handles(u)' = Handles(u) /\ ptr'[u] = ptr[u]
  BY Others DEF Handles
<1>3. ASSUME NEW b \in heap' PROVE b \in files' \/ b \in missed' \/ b \in InHand'
  <2>0. b \in heap => b \in files \/ b \in missed \/ b \in InHand
    BY DEF LeaksAreListed
  <2>1. CASE Elsewhere(t)
    BY <1>0, <1>1, <1>2, <1>3, <2>0, <2>1 DEF Elsewhere, books
  <2>2. CASE Stands(t)
    BY <1>0, <1>1, <1>3, <2>0, <2>2 DEF Stands, books, Handles
  <2>3. CASE Bypass(t)
    BY <1>0, <1>1, <1>2, <1>3, <2>0, <2>3 DEF Bypass
  <2>4. CASE Takes(t)
    BY <1>0, <1>1, <1>2, <1>3, <2>0, <2>4 DEF Takes, Allocate
  <2>5. CASE Puts(t)
    BY <1>0, <1>1, <1>2, <1>3, <2>0, <2>5 DEF Puts
  <2>6. CASE Picks(t)
    BY <1>0, <1>1, <1>2, <1>3, <2>0, <2>6 DEF Picks
  <2>7. CASE Drops(t)
    BY <1>0, <1>1, <1>2, <1>3, <2>0, <2>7 DEF Drops, Release
  <2> QED
    BY <2>1, <2>2, <2>3, <2>4, <2>5, <2>6, <2>7, MallocEffect, FreeEffect
<1> QED
  BY <1>3 DEF LeaksAreListed

\* Until a call is bypassed the books stay in order.
LEMMA BooksStep ==
  ASSUME TypeOK, Books, NEW t \in Threads, Malloc(t) \/ Free(t)
  PROVE  Books'
<1>1. \A u \in Threads \ {t} : Handles(u)' = Handles(u) /\ ptr'[u] = ptr[u]
  BY Others DEF Handles
<1>2. CASE Elsewhere(t)
  BY <1>1, <1>2 DEF Elsewhere, books, Books
<1>3. CASE Stands(t)
  BY <1>3 DEF Stands, books, Books, Handles
<1>4. CASE Bypass(t)
  BY <1>4 DEF Bypass, Books
<1>5. CASE Takes(t)
  <2>1. ptr'[t] # NULL => ptr'[t] \in heap' /\ ptr'[t] \notin heap
    BY <1>5 DEF Takes, Allocate
  <2>2. heap \subseteq heap'
    BY <1>5 DEF Takes, Allocate
  <2> QED
    BY <1>1, <1>5, <2>1, <2>2 DEF Takes, Books
<1>6. CASE Puts(t)
  BY <1>1, <1>6 DEF Puts, Books
<1>7. CASE Picks(t)
  BY <1>1, <1>7 DEF Picks, Books
<1>8. CASE Drops(t)
  BY <1>1, <1>8 DEF Drops, Release, Books
<1> QED
  BY <1>2, <1>3, <1>4, <1>5, <1>6, <1>7, <1>8, MallocEffect, FreeEffect

\* A switch that is off is set again by a thread that has passed the test.
LEMMA SwitchesStep ==
  ASSUME TypeOK, Switches, NEW t \in Threads, Malloc(t) \/ Free(t)
  PROVE  Switches'
<1> DEFINE Busy(u) == pc[u] \in {"malloc", "record", "mend"}
           Freeing(u) == pc[u] \in {"unlink", "free", "fend"}
<1>0. pc \in [Threads -> {"out"} \union InMalloc \union InFree]
  BY DEF TypeOK
<1>1. \A u \in Threads \ {t} : (Busy(u) => Busy(u)') /\ (Freeing(u) => Freeing(u)')
  BY Others
<1>2. dlsym' = dlsym
  BY DEF Malloc, Free, CallMalloc, MallocOff, RealMalloc, Record, MallocReturns,
         CallFree, FreeOff, Unlink, RealFree, FreeReturns
<1>3. /\ \A u \in Threads : pc[u] \in {"mset", "fset"} => dlsym
      /\ ~mhook => dlsym /\ \E u \in Threads : Busy(u)
      /\ ~fhook => dlsym /\ (failed \/ \E u \in Threads : Freeing(u))
  BY DEF Switches
<1>4. \/ mhook' = mhook /\ (Busy(t) => Busy(t)')
      \/ dlsym /\ Busy(t)'
      \/ mhook' = TRUE
      \/ mhook' = mhook /\ ~dlsym
  <2>1. CASE MallocReturns(t)
    BY <2>1 DEF MallocReturns, MallocOn
  <2>2. CASE MallocOff(t)
    BY <1>0, <1>3, <2>2 DEF MallocOff, At, Goto
  <2>3. CASE RealMalloc(t)
    BY <1>0, <2>3 DEF RealMalloc, Goto, hooks
  <2>4. CASE Record(t)
    BY <1>0, <2>4 DEF Record, Goto, hooks
  <2>5. CASE CallMalloc(t) \/ Free(t)
    <3>1. mhook' = mhook /\ ~Busy(t)
      BY <2>5 DEF CallMalloc, Free, CallFree, FreeOff, Unlink, RealFree, FreeReturns, At, hooks
    <3> QED
      BY <3>1
  <2> QED
    BY <2>1, <2>2, <2>3, <2>4, <2>5 DEF Malloc
<1>5. \/ fhook' = fhook /\ failed' = failed /\ (Freeing(t) => Freeing(t)')
      \/ dlsym /\ Freeing(t)'
      \/ fhook' = TRUE
      \/ fhook' = fhook /\ (failed' \/ ~dlsym \/ Freeing(t)')
  <2>1. CASE FreeReturns(t)
    BY <2>1 DEF FreeReturns
  <2>2. CASE FreeOff(t)
    BY <1>0, <1>3, <2>2 DEF FreeOff, At, Goto
  <2>3. CASE Unlink(t)
    <3>1. fhook' = fhook /\ (failed' = TRUE \/ pc'[t] = "free")
      BY <1>0, <2>3 DEF Unlink, Goto, ToFree, hooks
    <3> QED
      BY <3>1
  <2>4. CASE RealFree(t)
    <3>1. fhook' = fhook /\ (dlsym => pc'[t] = "fend")
      BY <1>0, <2>4 DEF RealFree, Goto, hooks
    <3> QED
      BY <3>1
  <2>5. CASE Malloc(t) \/ \E p \in Blocks \union {NULL} : CallFree(t, p)
    <3>1. fhook' = fhook /\ failed' = failed /\ ~Freeing(t)
      BY <2>5 DEF Malloc, CallMalloc, MallocOff, RealMalloc, Record, MallocReturns,
                  CallFree, At, hooks, history
    <3> QED
      BY <3>1
  <2> QED
    BY <2>1, <2>2, <2>3, <2>4, <2>5 DEF Free
<1>6. pc'[t] \in {"mset", "fset"} => dlsym
  <2>1. CASE CallMalloc(t) \/ \E p \in Blocks \union {NULL} : CallFree(t, p)
    BY <1>0, <2>1 DEF CallMalloc, CallFree, At, Goto
  <2>2. CASE ~CallMalloc(t) /\ ~\E p \in Blocks \union {NULL} : CallFree(t, p)
    <3>1. pc' = pc \/ \E l \in {"malloc", "record", "mend", "unlink", "free", "fend", "out"} :
                        pc' = [pc EXCEPT ![t] = l]
      BY <2>2 DEF Malloc, Free, MallocOff, RealMalloc, Record, MallocReturns, FreeOff, Unlink,
                  RealFree, FreeReturns, Goto, ToFree, AfterFailure
    <3> QED
      BY <1>0, <1>3, <3>1
  <2> QED
    BY <2>1, <2>2
<1> HIDE DEF Busy, Freeing
<1>7. ~mhook' => dlsym' /\ \E u \in Threads : Busy(u)'
  BY <1>1, <1>2, <1>3, <1>4
<1>8. ~fhook' => dlsym' /\ (failed' \/ \E u \in Threads : Freeing(u)')
  BY <1>1, <1>2, <1>3, <1>5
<1>9. \A u \in Threads : pc'[u] \in {"mset", "fset"} => dlsym'
  BY <1>2, <1>3, <1>6, Others
<1> QED
  BY <1>7, <1>8, <1>9 DEF Switches, Busy, Freeing

\* In macro_hook.c a thread opens one file and closes it.
LEMMA StreamsStep ==
  ASSUME TypeOK, Streams, NEW t \in Threads, Malloc(t) \/ Free(t)
  PROVE  Streams'
<1> DEFINE B == BeforeClose
<1>0. /\ pc \in [Threads -> {"out"} \union InMalloc \union InFree]
      /\ IsFiniteSet(B) /\ B \subseteq Threads
  BY LeakAssumption, FS_Subset DEF TypeOK, BeforeClose
<1>1. \A u \in Threads \ {t} : u \in B' <=> u \in B
  BY Others DEF BeforeClose
<1>2. CASE Record(t) /\ open = MaxOpen
  <2>1. /\ dlsym' = dlsym /\ open' = open /\ B' = B /\ t \notin B
    BY <1>2 DEF Record, At, BeforeClose
  <2>2. ~dlsym => MaxOpen < Cardinality(Threads)
    <3>1. Cardinality(B) <= Cardinality(Threads) /\ (Cardinality(B) = Cardinality(Threads) => B = Threads)
      BY <1>0, LeakAssumption, FS_Subset
    <3>2. Cardinality(B) \in Nat /\ Cardinality(Threads) \in Nat
      BY <1>0, LeakAssumption, FS_CardinalityType
    <3> QED
      BY <1>2, <2>1, <3>1, <3>2 DEF Streams
  <2> QED
    BY <2>1, <2>2 DEF Streams, MacroNeverCrashes
<1>3. CASE Record(t) /\ open # MaxOpen
  <2>1. /\ dlsym' = dlsym /\ open' = open + 1 /\ crashed' = crashed /\ t \notin B /\ pc'[t] = "mend"
    BY <1>0, <1>3 DEF Record, At, BeforeClose, Goto
  <2>2. B' = B \union {t}
    BY <1>1, <2>1 DEF BeforeClose
  <2>3. Cardinality(B') = Cardinality(B) + 1
    BY <1>0, <2>1, <2>2, FS_AddElement
  <2> QED
    BY <2>1, <2>3 DEF Streams, MacroNeverCrashes
<1>4. CASE MallocReturns(t)
  <2>1. /\ dlsym' = dlsym /\ open' = Closed /\ crashed' = crashed /\ t \in B /\ pc'[t] = "out"
    BY <1>0, <1>4 DEF MallocReturns, At, BeforeClose, Goto
  <2>2. B' = B \ {t}
    BY <1>1, <2>1 DEF BeforeClose
  <2>3. Cardinality(B') = Cardinality(B) - 1
    BY <1>0, <2>1, <2>2, FS_RemoveElement
  <2> QED
    BY <2>1, <2>3 DEF Streams, MacroNeverCrashes, Closed
<1>5. CASE ~Record(t) /\ ~MallocReturns(t)
  <2>1. /\ UNCHANGED <<dlsym, open, crashed>>
        /\ pc[t] # "mend" /\ pc'[t] # "mend"
    <3>1. UNCHANGED <<dlsym, open, crashed>> /\ pc[t] # "mend"
      BY <1>5 DEF Malloc, Free, CallMalloc, MallocOff, RealMalloc, CallFree, FreeOff, Unlink,
                  RealFree, FreeReturns, At, system
    <3>2. pc' = pc \/ \E l \in {"mset", "malloc", "record", "fset", "unlink", "free", "fend", "out"} :
                        pc' = [pc EXCEPT ![t] = l]
      BY <1>5 DEF Malloc, Free, CallMalloc, MallocOff, RealMalloc, CallFree, FreeOff, Unlink,
                  RealFree, FreeReturns, Goto, ToFree, AfterFailure
    <3> QED
      BY <1>0, <3>1, <3>2
  <2>2. B' = B
    BY <1>1, <2>1 DEF BeforeClose
  <2> QED
    BY <2>1, <2>2 DEF Streams, MacroNeverCrashes
<1> QED
  BY <1>2, <1>3, <1>4, <1>5

-----------------------------------------------------------------------------
(* The theorems.                                                           *)

LEMMA IInvInit == Init => IInv
<1> SUFFICES ASSUME Init PROVE IInv
  OBVIOUS
<1>1. LeaksAreListed /\ Books /\ Switches
  BY DEF Init, LeaksAreListed, Books, Switches, Handles
<1>2. Streams
  <2>1. BeforeClose = {}
    BY DEF Init, BeforeClose
  <2> QED
    BY <2>1, FS_EmptySet DEF Init, Streams, MacroNeverCrashes
<1> QED
  BY <1>1, <1>2, TypedInit DEF IInv

LEMMA IInvStutters == IInv /\ UNCHANGED vars => IInv'
<1> SUFFICES ASSUME IInv, UNCHANGED vars PROVE IInv'
  OBVIOUS
<1>1. UNCHANGED <<dlsym, mhook, fhook, heap, files, open, crashed, pc, ptr>>
      /\ UNCHANGED <<bypassed, missed, failed, corrupted>>
  BY DEF vars, hooks, system, history
<1>2. TypeOK'
  BY TypedStep DEF IInv
<1>3. LeaksAreListed' /\ Books'
  BY <1>1 DEF IInv, LeaksAreListed, InHand, Books, Handles
<1>4. Switches' /\ Streams'
  BY <1>1 DEF IInv, Switches, Streams, MacroNeverCrashes, BeforeClose
<1> QED
  BY <1>2, <1>3, <1>4 DEF IInv

\* The invariant holds in every reachable state.
THEOREM Invariance == Spec => []IInv
<1>1. IInv /\ [Next]_vars => IInv'
  BY IInvStutters, TypedStep, ListedStep, BooksStep, SwitchesStep, StreamsStep DEF Next, IInv
<1> QED
  BY <1>1, IInvInit, PTL DEF Spec

\* Every variable keeps its type: no file is closed twice.
THEOREM Typing == Spec => []TypeOK
<1>1. IInv => TypeOK
  BY DEF IInv
<1> QED
  BY <1>1, Invariance, PTL

\* Whatever threads and calls, double frees and bypassed hooks included: a
\* leaked block has its file, unless its malloc found the hook off.
THEOREM NoLeakEscapes == Spec => []LeaksAreListed
<1>1. IInv => LeaksAreListed
  BY DEF IInv
<1> QED
  BY <1>1, Invariance, PTL

\* As long as no call found its hook off, the files are the leaks.
THEOREM DirectoryIsTheLeaks == Spec => []FilesAreLeaks
<1>1. IInv => FilesAreLeaks
  <2> SUFFICES ASSUME IInv, Quiet, ~bypassed PROVE files \ {NULL} = heap
    BY DEF FilesAreLeaks
  <2>1. InHand = {}
    BY DEF Quiet, InHand
  <2>2. heap \subseteq files /\ NULL \notin heap
    BY <2>1, LeakAssumption DEF IInv, LeaksAreListed, Books, TypeOK
  <2> QED
    BY <2>2 DEF IInv, Books
<1> QED
  BY <1>1, Invariance, PTL

\* And no block reaches the real free twice.
THEOREM FreedAtMostOnce == Spec => []FreedOnce
<1>1. IInv => FreedOnce
  BY DEF IInv, Books, FreedOnce
<1> QED
  BY <1>1, Invariance, PTL

\* When no thread is inside a hook the switches are on again, but for that of
\* free after an unlink that failed.
THEOREM SwitchesAreRestored == Spec => []SwitchesRestored
<1>1. IInv => SwitchesRestored
  BY DEF IInv, Switches, SwitchesRestored, Quiet
<1> QED
  BY <1>1, Invariance, PTL

\* One descriptor per thread is enough for macro_hook.c.
THEOREM MacroHookKeepsRunning == Spec => []MacroNeverCrashes
<1>1. IInv => MacroNeverCrashes
  BY DEF IInv, Streams
<1> QED
  BY <1>1, Invariance, PTL

=============================================================================
