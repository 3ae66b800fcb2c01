--------------------------- MODULE ObjectAllocator ---------------------------
(***************************************************************************)
(* What the memory pool promises to the code that uses it (the class       *)
(* comment of mem/MemoryPool.h): objects are shared by several threads, and *)
(* an object that one thread has obtained is nobody else's until that      *)
(* thread gives it back or passes it on.  Where the idle objects are kept,  *)
(* and when new ones are created, is not visible here.                     *)
(***************************************************************************)
CONSTANTS Threads,   \* the threads of the process
          Objects    \* every object the pool can ever create

VARIABLE held        \* held[th]: the objects thread th has obtained

TypeOK == held \in [Threads -> SUBSET Objects]

Init == held = [th \in Threads |-> {}]

InUse == UNION {held[th] : th \in Threads}

Acquire(th, o) ==
    /\ o \notin InUse
    /\ held' = [held EXCEPT ![th] = @ \cup {o}]

GiveBack(th, o) ==
    /\ o \in held[th]
    /\ held' = [held EXCEPT ![th] = @ \ {o}]

PassOn(th, to, o) ==
    /\ o \in held[th]
    /\ held' = [held EXCEPT ![th] = @ \ {o}, ![to] = @ \cup {o}]

Next ==
    \E th \in Threads, o \in Objects :
        \/ Acquire(th, o)
        \/ GiveBack(th, o)
        \/ \E to \in Threads \ {th} : PassOn(th, to, o)

Spec == Init /\ [][Next]_held
=============================================================================
