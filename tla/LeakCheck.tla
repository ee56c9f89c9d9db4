------------------------------ MODULE LeakCheck ------------------------------
(***************************************************************************)
(* The leak detectors of memoryleak_check, which keep a file ./mem/p.mem   *)
(* for each block p that malloc has returned and free has not taken back.  *)
(* macro_hook.c replaces the calls of one source file by malloc_hook and   *)
(* free_hook; dlsym_hook.c defines malloc and free themselves, so that its *)
(* hooks have to be switched off while they call functions that allocate:  *)
(* by two plain integers that all threads share.                           *)
(*                                                                         *)
(* One step is one access to a switch, to the directory, or to the real    *)
(* allocator (malloc_f, free_f).  Left out: what the files say, and the    *)
(* blocks that fopen and printf allocate for themselves.  Init is the state*)
(* after init_hook.  The switches are read and written without a lock; each*)
(* access is taken to be atomic, as the build for x86 makes it.            *)
(***************************************************************************)
EXTENDS Naturals, FiniteSets

CONSTANTS
  Threads,  \* the threads of the program
  Blocks,   \* the addresses the allocator has to give
  NULL,     \* what it returns when it has none left
  MaxOpen   \* how many files the process may have open

ASSUME LeakAssumption ==
  /\ IsFiniteSet(Threads) /\ NULL \notin Blocks /\ MaxOpen \in Nat

VARIABLES
  dlsym,    \* which of the two programs this is
  mhook, fhook,  \* enable_malloc_hook, enable_free_hook
  heap,     \* the blocks allocated, as the real allocator sees it
  files,    \* the addresses whose file exists
  open,     \* the number of open files
  crashed,  \* a NULL stream has been written to
  pc, ptr,  \* per thread: where it is in a hook, and its p or ptr
  owned,    \* the blocks the program has got and not freed
  bypassed, \* history: a call of malloc or free found its hook off
  missed,   \* history: the blocks that malloc returned without recording them
  failed,   \* history: an unlink has failed
  corrupted \* history: the real free was given a block that is not allocated

hooks   == <<mhook, fhook>>
system  == <<heap, files, open, crashed>>
history == <<bypassed, missed, failed, corrupted>>
vars    == <<dlsym, hooks, system, pc, ptr, owned, history>>

InMalloc == {"mset", "malloc", "record", "mend"}
InFree   == {"fset", "unlink", "free", "fend"}

TypeOK ==
  /\ {dlsym, mhook, fhook, crashed, bypassed, failed, corrupted} \subseteq BOOLEAN
  /\ heap \subseteq Blocks /\ missed \subseteq heap
  /\ files \subseteq Blocks \union {NULL}
  /\ open \in 0 .. MaxOpen
  /\ pc \in [Threads -> {"out"} \union InMalloc \union InFree]
  /\ ptr \in [Threads -> Blocks \union {NULL}]
  /\ owned \subseteq Blocks

Init ==
  /\ dlsym \in BOOLEAN
  /\ mhook = TRUE /\ fhook = TRUE
  /\ heap = {} /\ files = {} /\ open = 0 /\ crashed = FALSE
  /\ pc = [t \in Threads |-> "out"]
  /\ ptr = [t \in Threads |-> NULL]
  /\ owned = {}
  /\ bypassed = FALSE /\ missed = {} /\ failed = FALSE /\ corrupted = FALSE

At(t, l) == ~crashed /\ pc[t] = l
Goto(t, l) == pc' = [pc EXCEPT ![t] = l]

\* The real malloc: any address that is not allocated.
Allocate(p) ==
  /\ IF Blocks \subseteq heap THEN p = NULL ELSE p \in Blocks \ heap
  /\ heap' = heap \union ({p} \ {NULL})

\* The real free.
Release(p) ==
  /\ heap' = heap \ {p}
  /\ missed' = missed \ {p}
  /\ corrupted' = (corrupted \/ p \notin heap \union {NULL})

-----------------------------------------------------------------------------
(* malloc, malloc_hook.                                                    *)

\* The call, up to the test of the switch.  With the switch off the block
\* comes straight from malloc_f.
CallMalloc(t) ==
  /\ At(t, "out")
  /\ UNCHANGED <<dlsym, hooks, files, open, crashed, failed, corrupted>>
  /\ \/ /\ mhook \/ ~dlsym
        /\ Goto(t, IF dlsym THEN "mset" ELSE "malloc")
        /\ UNCHANGED <<heap, ptr, owned, bypassed, missed>>
     \/ /\ dlsym /\ ~mhook
        /\ \E p \in Blocks \union {NULL} :
             /\ Allocate(p)
             /\ ptr' = [ptr EXCEPT ![t] = p]
             /\ owned' = owned \union ({p} \ {NULL})
             /\ missed' = missed \union ({p} \ {NULL})
        /\ bypassed' = TRUE
        /\ UNCHANGED pc

MallocOff(t) ==
  /\ At(t, "mset")
  /\ mhook' = FALSE
  /\ Goto(t, "malloc")
  /\ UNCHANGED <<dlsym, fhook, system, ptr, owned, history>>

RealMalloc(t) ==
  /\ At(t, "malloc")
  /\ \E p \in Blocks \union {NULL} :
       Allocate(p) /\ ptr' = [ptr EXCEPT ![t] = p]
  /\ Goto(t, "record")
  /\ UNCHANGED <<dlsym, hooks, files, open, crashed, owned, history>>

\* fopen for writing, and the fprintf, for which fopen must not have failed.
Record(t) ==
  /\ At(t, "record")
  /\ IF open = MaxOpen
     THEN crashed' = TRUE /\ UNCHANGED <<files, open, pc>>
     ELSE /\ files' = files \union {ptr[t]}
          /\ open' = open + 1
          /\ Goto(t, "mend")
          /\ UNCHANGED crashed
  /\ UNCHANGED <<dlsym, hooks, heap, ptr, owned, history>>

\* Mutated forms: the hook stays off; a file is closed twice.
StaysOff == FALSE
ClosedTwice == open - 2

MallocOn == TRUE
\* fclose is in macro_hook.c only.
Closed == IF dlsym THEN open ELSE open - 1

MallocReturns(t) ==
  /\ At(t, "mend")
  /\ mhook' = IF dlsym THEN MallocOn ELSE mhook
  /\ open' = Closed
  /\ owned' = owned \union ({ptr[t]} \ {NULL})
  /\ Goto(t, "out")
  /\ UNCHANGED <<dlsym, fhook, heap, files, crashed, ptr, history>>

-----------------------------------------------------------------------------
(* free, free_hook.                                                        *)

\* Any pointer may be freed: one the program owns, NULL, or, in a program
\* with a double free, one that it freed before.  With the switch off the
\* pointer goes straight to free_f.
CallFree(t, p) ==
  /\ At(t, "out")
  /\ owned' = owned \ {p}
  /\ ptr' = [ptr EXCEPT ![t] = p]
  /\ UNCHANGED <<dlsym, hooks, files, open, crashed, failed>>
  /\ \/ /\ fhook \/ ~dlsym
        /\ Goto(t, IF dlsym THEN "fset" ELSE "unlink")
        /\ UNCHANGED <<heap, bypassed, missed, corrupted>>
     \/ /\ dlsym /\ ~fhook
        /\ Release(p)
        /\ bypassed' = TRUE
        /\ UNCHANGED pc

FreeOff(t) ==
  /\ At(t, "fset")
  /\ fhook' = FALSE
  /\ Goto(t, "unlink")
  /\ UNCHANGED <<dlsym, mhook, system, ptr, owned, history>>

\* Mutated forms: the result of unlink is not looked at; the file stays; the
\* block is not freed.
Unchecked == "free"
NotRemoved(p) == files
NotFreed == "out"

\* "double free": the call returns, and in dlsym_hook.c the hook stays off.
AfterFailure == "out"
Removed(p) == files \ {p}
ToFree == "free"

Unlink(t) ==
  /\ At(t, "unlink")
  /\ IF ptr[t] \in files
     THEN /\ files' = Removed(ptr[t])
          /\ Goto(t, ToFree)
          /\ UNCHANGED failed
     ELSE /\ failed' = TRUE
          /\ Goto(t, AfterFailure)
          /\ UNCHANGED files
  /\ UNCHANGED <<dlsym, hooks, heap, open, crashed, ptr, owned, bypassed, missed, corrupted>>

RealFree(t) ==
  /\ At(t, "free")
  /\ Release(ptr[t])
  /\ Goto(t, IF dlsym THEN "fend" ELSE "out")
  /\ UNCHANGED <<dlsym, hooks, files, open, crashed, ptr, owned, bypassed, failed>>

FreeReturns(t) ==
  /\ At(t, "fend")
  /\ fhook' = TRUE
  /\ Goto(t, "out")
  /\ UNCHANGED <<dlsym, mhook, system, ptr, owned, history>>

-----------------------------------------------------------------------------
Malloc(t) == CallMalloc(t) \/ MallocOff(t) \/ RealMalloc(t) \/ Record(t) \/ MallocReturns(t)
Free(t) ==
  \/ \E p \in Blocks \union {NULL} : CallFree(t, p)
  \/ FreeOff(t) \/ Unlink(t) \/ RealFree(t) \/ FreeReturns(t)

Next == \E t \in Threads : Malloc(t) \/ Free(t)

Spec == Init /\ [][Next]_vars

-----------------------------------------------------------------------------
Quiet == \A t \in Threads : pc[t] = "out"

\* "最终看是否有文件的存在即可判断是否存在内存泄露": while no call finds its
\* hook off, the files are those of the allocated blocks, whichever threads
\* allocate and free, double frees included.
FilesAreLeaks == Quiet /\ ~bypassed => files \ {NULL} = heap

\* Whatever the program does and finds switched off, no leak escapes but
\* those of blocks allocated with the hook off: a block without a file is in
\* the hands of a hook.
InHand == {ptr[t] : t \in {u \in Threads : pc[u] \in {"record", "free"}}}
LeaksAreListed == heap \subseteq files \union missed \union InHand

\* And the real free is given no block twice.
FreedOnce == corrupted => bypassed

\* A hook is off for good only after an unlink has failed.
SwitchesRestored == Quiet => mhook /\ (fhook \/ failed)

\* With fclose, there is a file open for each thread at most.
MacroNeverCrashes == crashed => dlsym \/ MaxOpen < Cardinality(Threads)

=============================================================================
