----------------------------- MODULE MemoryPool -----------------------------
(***************************************************************************)
(* mem/MemoryPool.cc and the part of mem/MemPoolObject.cc it works with:   *)
(* one deque of idle objects per object type, each guarded by a mutex of   *)
(* its own, grown in blocks when it runs dry.  Every thread of ScaleBox     *)
(* takes packets, signatures, addresses and timer events from it.          *)
(*                                                                         *)
(* A step is what a thread does between two points at which another thread *)
(* can see the difference: taking the mutex, testing the deque, popping,   *)
(* one iteration of the growth loop, releasing the mutex, and the updates   *)
(* of an object's m_bInPool flag that are made outside the mutex.          *)
(***************************************************************************)
EXTENDS Naturals, SequencesExt

CONSTANTS
    Threads,     \* the threads that use the pool
    Types,       \* the object types whose class has an allocator
    Growth,      \* m_nPoolGrowth: objects created when a pool runs dry
    DefaultMax,  \* m_nMaxPoolSize as the constructor sets it
    NewMaxes,    \* the values changeMaxPoolSize is called with
    Limit,       \* the largest of these limits: an int
    NoThread,    \* "the mutex is free"
    NoObject     \* a null object pointer

ASSUME GrowthAssumption == Growth \in Nat \ {0}
ASSUME MaxAssumption ==
    Limit \in Nat /\ DefaultMax \in 0..Limit /\ NewMaxes \subseteq 1..Limit
ASSUME NullAssumption ==
    NoThread \notin Threads /\ NoObject \notin Types \X (1..Limit)

Objects == Types \X (1..Limit)
Kind(o) == o[1]

VARIABLES
    pool,       \* m_PoolArray: the idle objects of each type, oldest first
    allocated,  \* m_nAllocated: how many objects of a type were ever created
    maxSize,    \* m_nMaxPoolSize
    mutex,      \* m_PoolMutexes: the thread that holds it, or NoThread
    inPool,     \* the objects whose m_bInPool is true
    pc,         \* where each thread is inside a call
    type,       \* the type a thread's current call is about
    obj,        \* the object a thread's current call has in its hands
    grown,      \* j of increasePool's loop
    held        \* the objects each thread has obtained and not given back

vars == <<pool, allocated, maxSize, mutex, inPool, pc, type, obj, grown, held>>

InCall == {"getLock", "getTest", "getPop", "grow", "getUnlock", "mark",
           "relMark", "relLock", "relPush", "relUnlock"}
InMutex == {"getTest", "getPop", "grow", "getUnlock", "relPush", "relUnlock"}

TypeOK ==
    /\ pool \in [Types -> Seq(Objects)]
    /\ allocated \in [Types -> 0..Limit]
    /\ maxSize \in [Types -> 0..Limit]
    /\ mutex \in [Types -> Threads \cup {NoThread}]
    /\ inPool \subseteq Objects
    /\ pc \in [Threads -> InCall \cup {"idle"}]
    /\ type \in [Threads -> Types]
    /\ obj \in [Threads -> Objects \cup {NoObject}]
    /\ grown \in [Threads -> 0..Growth]
    /\ held \in [Threads -> SUBSET Objects]

Init ==
    /\ pool = [ty \in Types |-> <<>>]
    /\ allocated = [ty \in Types |-> 0]
    /\ maxSize = [ty \in Types |-> DefaultMax]
    /\ mutex = [ty \in Types |-> NoThread]
    /\ inPool = {}
    /\ pc = [th \in Threads |-> "idle"]
    /\ type \in [Threads -> Types]
    /\ obj = [th \in Threads |-> NoObject]
    /\ grown = [th \in Threads |-> 0]
    /\ held = [th \in Threads |-> {}]

-----------------------------------------------------------------------------
(* Steps shared by the calls.                                              *)

Goto(th, from, to) ==
    /\ pc[th] = from
    /\ pc' = [pc EXCEPT ![th] = to]

\* Slip: the mutex not taken.
NoLock(th) == mutex' = [mutex EXCEPT ![type[th]] = th]

Lock(th) ==
    /\ mutex[type[th]] = NoThread
    /\ mutex' = [mutex EXCEPT ![type[th]] = th]

\* Slip: a return without unlocking, as GrowFail's.
StayLocked(th) == UNCHANGED mutex

Unlock(th) == mutex' = [mutex EXCEPT ![type[th]] = NoThread]

\* Slip: front() taken, pop_front() forgotten.
PeekFront(ty) == UNCHANGED pool

\* Slip: front() taken, pop_back() called.
PopBack(ty) == pool' = [pool EXCEPT ![ty] = SubSeq(@, 1, Len(@) - 1)]

PopFront(ty) == pool' = [pool EXCEPT ![ty] = Tail(@)]

\* Slip: an object beyond a lowered limit is dropped, and still counted.
PushWithinMax(ty, o) ==
    pool' = IF allocated[ty] > maxSize[ty] THEN pool ELSE [pool EXCEPT ![ty] = Append(@, o)]

PushBack(ty, o) == pool' = [pool EXCEPT ![ty] = Append(@, o)]

\* Slip: > for >=.
FullLate(ty) == allocated[ty] > maxSize[ty]

Full(ty) == allocated[ty] >= maxSize[ty]

\* Slip: the flag left as the last release set it.
MarkNothing(o) == UNCHANGED inPool

MarkAllocated(o) == inPool' = inPool \ {o}

MarkInPool(o) == inPool' = inPool \cup {o}

-----------------------------------------------------------------------------
(* getObject                                                               *)

GetCall(th, ty) ==
    /\ Goto(th, "idle", "getLock")
    /\ type' = [type EXCEPT ![th] = ty]
    /\ UNCHANGED <<pool, allocated, maxSize, mutex, inPool, obj, grown, held>>

GetLock(th) ==
    /\ Goto(th, "getLock", "getTest")
    /\ Lock(th)
    /\ UNCHANGED <<pool, allocated, maxSize, inPool, type, obj, grown, held>>

GetTest(th) ==
    /\ \/ pool[type[th]] # <<>> /\ Goto(th, "getTest", "getPop") /\ UNCHANGED grown
       \/ /\ pool[type[th]] = <<>>
          /\ Goto(th, "getTest", "grow")
          /\ grown' = [grown EXCEPT ![th] = 0]
    /\ UNCHANGED <<pool, allocated, maxSize, mutex, inPool, type, obj, held>>

\* One turn of increasePool's loop.  The constructor MemPoolObject(int), which
\* every pooled class uses, leaves m_bInPool unset: either value.
Fresh(ty) == <<ty, allocated[ty] + 1>>

Grow(th) ==
    LET ty == type[th] IN
    /\ pc[th] = "grow"
    /\ grown[th] < Growth
    /\ ~Full(ty)
    /\ PushBack(ty, Fresh(ty))
    /\ allocated' = [allocated EXCEPT ![ty] = @ + 1]
    /\ grown' = [grown EXCEPT ![th] = @ + 1]
    /\ inPool' \in {inPool, inPool \cup {Fresh(ty)}}
    /\ UNCHANGED <<maxSize, mutex, pc, type, obj, held>>

GrowDone(th) ==
    /\ grown[th] = Growth
    /\ Goto(th, "grow", "getPop")
    /\ UNCHANGED <<pool, allocated, maxSize, mutex, inPool, type, obj, grown, held>>

\* increasePool reports failure and getObject returns NULL.  This return is the
\* one that does not release the mutex; objects that earlier turns of the loop
\* created stay in the deque.
GrowFail(th) ==
    /\ grown[th] < Growth
    /\ Full(type[th])
    /\ Goto(th, "grow", "idle")
    /\ UNCHANGED <<pool, allocated, maxSize, mutex, inPool, type, obj, grown, held>>

GetPop(th) ==
    /\ Goto(th, "getPop", "getUnlock")
    /\ pool[type[th]] # <<>>
    /\ obj' = [obj EXCEPT ![th] = Head(pool[type[th]])]
    /\ PopFront(type[th])
    /\ UNCHANGED <<allocated, maxSize, mutex, inPool, type, grown, held>>

GetUnlock(th) ==
    /\ Goto(th, "getUnlock", "mark")
    /\ Unlock(th)
    /\ UNCHANGED <<pool, allocated, maxSize, inPool, type, obj, grown, held>>

\* markAllocated, after the mutex is free again, and the return to the caller.
GetMark(th) ==
    /\ Goto(th, "mark", "idle")
    /\ MarkAllocated(obj[th])
    /\ held' = [held EXCEPT ![th] = @ \cup {obj[th]}]
    /\ obj' = [obj EXCEPT ![th] = NoObject]
    /\ UNCHANGED <<pool, allocated, maxSize, mutex, type, grown>>

-----------------------------------------------------------------------------
(* releaseObject, called directly or through MemPoolObject::release        *)

ReleaseObjectCall(th, o) ==
    /\ o \in held[th]
    /\ Goto(th, "idle", "relMark")
    /\ held' = [held EXCEPT ![th] = @ \ {o}]
    /\ obj' = [obj EXCEPT ![th] = o]
    /\ type' = [type EXCEPT ![th] = Kind(o)]
    /\ UNCHANGED <<pool, allocated, maxSize, mutex, inPool, grown>>

\* release() looks at m_bInPool first and refuses an object that has it set;
\* otherwise it goes on as releaseObject does.
ReleaseRefuses(o) == o \in inPool

ReleaseCall(th, o) == ~ReleaseRefuses(o) /\ ReleaseObjectCall(th, o)

\* markInPool, setOwner, cleanBase and clean: all before the mutex is taken.
RelMark(th) ==
    /\ Goto(th, "relMark", "relLock")
    /\ MarkInPool(obj[th])
    /\ UNCHANGED <<pool, allocated, maxSize, mutex, type, obj, grown, held>>

RelLock(th) ==
    /\ Goto(th, "relLock", "relPush")
    /\ Lock(th)
    /\ UNCHANGED <<pool, allocated, maxSize, inPool, type, obj, grown, held>>

RelPush(th) ==
    /\ Goto(th, "relPush", "relUnlock")
    /\ PushBack(type[th], obj[th])
    /\ obj' = [obj EXCEPT ![th] = NoObject]
    /\ UNCHANGED <<allocated, maxSize, mutex, inPool, type, grown, held>>

RelUnlock(th) ==
    /\ Goto(th, "relUnlock", "idle")
    /\ Unlock(th)
    /\ UNCHANGED <<pool, allocated, maxSize, inPool, type, obj, grown, held>>

-----------------------------------------------------------------------------
(* changeMaxPoolSize is lock, assignment, unlock: one step that needs the   *)
(* mutex free.  The new limit may be below what is already allocated.      *)

ChangeMaxPoolSize(ty, n) ==
    /\ mutex[ty] = NoThread
    /\ maxSize' = [maxSize EXCEPT ![ty] = n]
    /\ UNCHANGED <<pool, allocated, mutex, inPool, pc, type, obj, grown, held>>

\* The pool's users: a packet obtained by the capture thread is queued, and is
\* released by the processing or the output thread.
HandOff(th, to, o) ==
    /\ pc[th] = "idle"
    /\ o \in held[th]
    /\ held' = [held EXCEPT ![th] = @ \ {o}, ![to] = @ \cup {o}]
    /\ UNCHANGED <<pool, allocated, maxSize, mutex, inPool, pc, type, obj, grown>>

-----------------------------------------------------------------------------
Get(th) ==
    \/ \E ty \in Types : GetCall(th, ty)
    \/ GetLock(th)
    \/ GetTest(th)
    \/ Grow(th)
    \/ GrowDone(th)
    \/ GrowFail(th)
    \/ GetPop(th)
    \/ GetUnlock(th)
    \/ GetMark(th)

Release(th) ==
    \/ \E o \in held[th] : ReleaseObjectCall(th, o)
    \/ \E o \in held[th] : ReleaseCall(th, o)
    \/ RelMark(th)
    \/ RelLock(th)
    \/ RelPush(th)
    \/ RelUnlock(th)

Next ==
    \/ \E th \in Threads : Get(th) \/ Release(th)
    \/ \E ty \in Types, n \in NewMaxes : ChangeMaxPoolSize(ty, n)
    \/ \E th \in Threads : \E to \in Threads \ {th}, o \in held[th] : HandOff(th, to, o)

Spec == Init /\ [][Next]_vars

\* A thread that is inside a call is scheduled, so it goes on whenever it can;
\* nothing obliges a thread to start a call, and a mutex is not handed out in
\* any order.
Continue(th) ==
    \/ GetLock(th) \/ GetTest(th) \/ Grow(th) \/ GrowDone(th) \/ GrowFail(th)
    \/ GetPop(th) \/ GetUnlock(th) \/ GetMark(th)
    \/ RelMark(th) \/ RelLock(th) \/ RelPush(th) \/ RelUnlock(th)

FairSpec == Spec /\ \A th \in Threads : WF_vars(Continue(th))

-----------------------------------------------------------------------------
(* Properties                                                              *)

Idle(ty) == ToSet(pool[ty])
Created(ty) == {<<ty, n>> : n \in 1..allocated[ty]}
InHand(th) == held[th] \cup ({obj[th]} \ {NoObject})

\* An object is in one place at a time: once in one deque, or in the hands of
\* one thread.  A race between two getObject or releaseObject calls, or an
\* object pushed twice, would give one packet to two threads.
ExclusiveOwnership ==
    /\ \A ty \in Types : IsInjective(pool[ty])
    /\ \A ty \in Types, th \in Threads : Idle(ty) \cap InHand(th) = {}
    /\ \A t1, t2 \in Threads : t1 # t2 => InHand(t1) \cap InHand(t2) = {}

\* m_nAllocated tells the objects "out in the wild" (MemoryPool.h): those
\* created and not idle are exactly those in some thread's hands, whatever
\* getObject calls failed on the way.
NothingLost ==
    \A ty \in Types :
        Created(ty) = Idle(ty) \cup
            {o \in UNION {InHand(th) : th \in Threads} : Kind(o) = ty}

\* getObject takes front() of the deque without looking again after the test
\* or the growth: it must not have been emptied by another thread meanwhile.
PopFindsObject ==
    \A th \in Threads : pc[th] = "getPop" => pool[type[th]] # <<>>

\* release() by the thread that holds an object is never refused: the flag left
\* by the previous release is cleared before the object reaches the next holder,
\* although markAllocated and markInPool run outside the mutex.
HolderMayRelease ==
    \A th \in Threads : \A o \in held[th] : ~ReleaseRefuses(o)

\* Nobody inside a call has the mutex, and yet it is taken.
Leaked(ty) ==
    /\ mutex[ty] # NoThread
    /\ LET th == mutex[ty] IN ~(pc[th] \in InMutex /\ type[th] = ty)

\* A mutex that was taken is released again, unless the pool has run into its
\* limit (GrowFail): every other path through every call unlocks.
MutexComesFree ==
    \A ty \in Types :
        mutex[ty] # NoThread ~>
            (mutex[ty] = NoThread \/ (Leaked(ty) /\ Full(ty)))

\* No object is handed to two threads: the pool is an ObjectAllocator.
Allocator == INSTANCE ObjectAllocator
ImplementsAllocator == Allocator!Spec
=============================================================================
