-------------------------- MODULE MemoryPoolProofs --------------------------
(***************************************************************************)
(* Theorems about MemoryPool, for any threads, types, growth and limits.   *)
(***************************************************************************)
EXTENDS MemoryPool, Integers, SequenceTheorems, TLAPS

-----------------------------------------------------------------------------
(* Sequences.                                                               *)

\* Popping takes out exactly the first element, if none is in there twice.
LEMMA PopProperties ==
    ASSUME NEW S, NEW s \in Seq(S), s # <<>>
    PROVE  /\ Head(s) \in S
           /\ Head(s) \in ToSet(s)
           /\ Tail(s) \in Seq(S)
           /\ IsInjective(s) => /\ IsInjective(Tail(s))
                               /\ ToSet(Tail(s)) = ToSet(s) \ {Head(s)}
<1>1. /\ Head(s) \in S /\ Head(s) = s[1]
      /\ Tail(s) \in Seq(S)
      /\ Len(s) \in Nat \ {0}
      /\ Len(Tail(s)) = Len(s) - 1
      /\ \A i \in 1..Len(Tail(s)) : Tail(s)[i] = s[i + 1]
  BY HeadTailProperties, EmptySeq
<1>2. DOMAIN s = 1..Len(s) /\ DOMAIN Tail(s) = 1..Len(s) - 1
  BY <1>1, LenProperties
<1>3. Head(s) \in ToSet(s)
  BY <1>1, <1>2 DEF ToSet
<1>4. ASSUME IsInjective(s) PROVE IsInjective(Tail(s))
  BY <1>1, <1>2, <1>4 DEF IsInjective
<1>5. ASSUME IsInjective(s) PROVE ToSet(Tail(s)) = ToSet(s) \ {Head(s)}
  <2>1. ASSUME NEW x \in ToSet(Tail(s)) PROVE x \in ToSet(s) \ {Head(s)}
    <3>1. PICK i \in 1..Len(s) - 1 : x = s[i + 1]
      BY <1>1, <1>2 DEF ToSet
    <3>. QED
      BY <3>1, <1>1, <1>2, <1>5 DEF ToSet, IsInjective
  <2>2. ASSUME NEW x \in ToSet(s), x # Head(s) PROVE x \in ToSet(Tail(s))
    <3>1. PICK i \in 1..Len(s) : x = s[i]
      BY <1>2 DEF ToSet
    <3>2. i - 1 \in 1..Len(s) - 1 /\ (i - 1) + 1 = i
      BY <3>1, <2>2, <1>1
    <3>3. Tail(s)[i - 1] = x
      BY <3>1, <3>2, <1>1
    <3>. QED
      BY <3>2, <3>3, <1>2 DEF ToSet
  <2>. QED
    BY <2>1, <2>2
<1>. QED
  BY <1>1, <1>3, <1>4, <1>5

\* Pushing adds exactly that element, and keeps the elements distinct if it is new.
LEMMA PushProperties ==
    ASSUME NEW S, NEW s \in Seq(S), NEW o \in S
    PROVE  /\ Append(s, o) \in Seq(S)
           /\ Append(s, o) # <<>>
           /\ ToSet(Append(s, o)) = ToSet(s) \cup {o}
           /\ IsInjective(s) /\ o \notin ToSet(s) => IsInjective(Append(s, o))
<1>1. /\ Append(s, o) \in Seq(S)
      /\ Append(s, o) # <<>>
      /\ Len(s) \in Nat
      /\ Len(Append(s, o)) = Len(s) + 1
      /\ \A i \in 1..Len(s) : Append(s, o)[i] = s[i]
      /\ Append(s, o)[Len(s) + 1] = o
  BY AppendProperties, LenProperties
<1>2. DOMAIN s = 1..Len(s) /\ DOMAIN Append(s, o) = 1..Len(s) + 1
  BY <1>1, LenProperties
<1>3. ToSet(Append(s, o)) = ToSet(s) \cup {o}
  <2>1. \A i \in 1..Len(s) + 1 : i \in 1..Len(s) \/ i = Len(s) + 1
    BY <1>1
  <2>. QED
    BY <1>1, <1>2, <2>1 DEF ToSet
<1>4. ASSUME IsInjective(s), o \notin ToSet(s) PROVE IsInjective(Append(s, o))
  BY <1>1, <1>2, <1>4 DEF IsInjective, ToSet
<1>. QED
  BY <1>1, <1>3, <1>4

-----------------------------------------------------------------------------

\* The steps of a call at which it has an object in its hands.
Carrying == {"getUnlock", "mark", "relMark", "relLock", "relPush"}

\* The thread between its lock and its unlock owns the mutex of its type.
MutexInv ==
    \A th \in Threads : pc[th] \in InMutex => mutex[type[th]] = th

\* A call has an object in its hands exactly at the Carrying steps, and it is of
\* the type the call is about.
CarryInv ==
    \A th \in Threads :
        /\ pc[th] \in Carrying => obj[th] # NoObject /\ Kind(obj[th]) = type[th]
        /\ pc[th] \notin Carrying => obj[th] = NoObject

\* Every idle object is of its pool's type.
KindInv == \A ty \in Types : \A o \in Idle(ty) : Kind(o) = ty

\* Every object there is has been counted: the next one created is new.
Counted(o) == o[2] \in 1..allocated[Kind(o)]

CountInv ==
    /\ \A ty \in Types : \A o \in Idle(ty) : Counted(o)
    /\ \A th \in Threads : \A o \in InHand(th) : Counted(o)

\* The object a call has in its hands is not one its caller still holds.
HandInv == \A th \in Threads : obj[th] \notin held[th]

\* A growth that has created something has left it in the deque, and a call
\* about to pop has found something there.
DequeInv ==
    \A th \in Threads :
        /\ pc[th] = "getPop" => pool[type[th]] # <<>>
        /\ pc[th] = "grow" /\ grown[th] > 0 => pool[type[th]] # <<>>

IInv ==
    /\ TypeOK
    /\ MutexInv
    /\ CarryInv
    /\ KindInv
    /\ CountInv
    /\ HandInv
    /\ DequeInv
    /\ ExclusiveOwnership

-----------------------------------------------------------------------------
(* Type correctness                                                        *)

LEMMA InitType == Init => TypeOK
  BY GrowthAssumption, MaxAssumption, EmptySeq DEF Init, TypeOK

LEMMA GrowType == ASSUME TypeOK, NEW th \in Threads, Grow(th) PROVE TypeOK'
<1>1. Fresh(type[th]) \in Objects
  BY MaxAssumption DEF TypeOK, Grow, Fresh, Objects, Full
<1>2. pool' \in [Types -> Seq(Objects)]
  BY <1>1, PushProperties DEF TypeOK, Grow, PushBack
<1>3. allocated' \in [Types -> 0..Limit] /\ grown' \in [Threads -> 0..Growth]
  BY MaxAssumption, GrowthAssumption DEF TypeOK, Grow, Full
<1>4. inPool' \subseteq Objects
  BY <1>1 DEF TypeOK, Grow
<1>. QED
  BY <1>2, <1>3, <1>4 DEF TypeOK, Grow

LEMMA NextType == TypeOK /\ CarryInv /\ [Next]_vars => TypeOK'
<1> SUFFICES ASSUME TypeOK, CarryInv, [Next]_vars PROVE TypeOK'
  OBVIOUS
<1> USE DEF TypeOK
<1>1. ASSUME NEW th \in Threads, Get(th) PROVE TypeOK'
  <2>1. ASSUME NEW ty \in Types, GetCall(th, ty) PROVE TypeOK'
    BY <2>1 DEF GetCall, Goto, InCall
  <2>2. CASE GetLock(th)
    BY <2>2 DEF GetLock, Goto, Lock, InCall
  <2>3. CASE GetTest(th)
    <3>0. 0 \in 0..Growth
      BY GrowthAssumption
    <3>1. grown' \in [Threads -> 0..Growth]
      BY <2>3, <3>0 DEF GetTest, Goto
    <3>2. pc' \in [Threads -> InCall \cup {"idle"}]
      BY <2>3 DEF GetTest, Goto, InCall
    <3>. QED
      BY <2>3, <3>1, <3>2 DEF GetTest
  <2>4. CASE Grow(th)
    BY <2>4, GrowType
  <2>5. CASE GrowDone(th)
    BY <2>5 DEF GrowDone, Goto, InCall
  <2>6. CASE GrowFail(th)
    BY <2>6 DEF GrowFail, Goto, InCall
  <2>7. CASE GetPop(th)
    BY <2>7, PopProperties DEF GetPop, Goto, InCall, PopFront
  <2>8. CASE GetUnlock(th)
    BY <2>8 DEF GetUnlock, Goto, Unlock, InCall
  <2>9. CASE GetMark(th)
    <3>1. obj[th] \in Objects
      BY <2>9 DEF CarryInv, Carrying, GetMark, Goto
    <3>. QED
      BY <2>9, <3>1 DEF GetMark, Goto, MarkAllocated, InCall
  <2>. QED
    BY <1>1, <2>1, <2>2, <2>3, <2>4, <2>5, <2>6, <2>7, <2>8, <2>9 DEF Get
<1>2. ASSUME NEW th \in Threads, Release(th) PROVE TypeOK'
  <2>1. ASSUME NEW o \in held[th], ReleaseObjectCall(th, o) PROVE TypeOK'
    <3>1. o \in Objects /\ Kind(o) \in Types
      BY DEF Objects, Kind
    <3>. QED
      BY <2>1, <3>1 DEF ReleaseObjectCall, Goto, InCall
  <2>2. CASE RelMark(th)
    <3>1. obj[th] \in Objects
      BY <2>2 DEF CarryInv, Carrying, RelMark, Goto
    <3>. QED
      BY <2>2, <3>1 DEF RelMark, Goto, MarkInPool, InCall
  <2>3. CASE RelLock(th)
    BY <2>3 DEF RelLock, Goto, Lock, InCall
  <2>4. CASE RelPush(th)
    <3>1. obj[th] \in Objects
      BY <2>4 DEF CarryInv, Carrying, RelPush, Goto
    <3>2. Append(pool[type[th]], obj[th]) \in Seq(Objects)
      BY <3>1, PushProperties
    <3>. QED
      BY <2>4, <3>2 DEF RelPush, Goto, PushBack, InCall
  <2>5. CASE RelUnlock(th)
    BY <2>5 DEF RelUnlock, Goto, Unlock, InCall
  <2>. QED
    BY <1>2, <2>1, <2>2, <2>3, <2>4, <2>5 DEF Release, ReleaseCall
<1>3. ASSUME NEW ty \in Types, NEW n \in NewMaxes, ChangeMaxPoolSize(ty, n) PROVE TypeOK'
  BY <1>3, MaxAssumption DEF ChangeMaxPoolSize
<1>4. ASSUME NEW th \in Threads, NEW to \in Threads \ {th}, NEW o \in held[th],
             HandOff(th, to, o)
      PROVE  TypeOK'
  BY <1>4 DEF HandOff
<1>5. CASE UNCHANGED vars
  BY <1>5 DEF vars
<1>. QED
  BY <1>1, <1>2, <1>3, <1>4, <1>5 DEF Next

-----------------------------------------------------------------------------
(* The mutexes, and what a call carries                                    *)

LEMMA NextMutex ==
    ASSUME TypeOK, MutexInv, [Next]_vars PROVE MutexInv'
<1> USE DEF TypeOK, MutexInv, InMutex, Goto
<1>1. ASSUME NEW th \in Threads, Get(th) PROVE MutexInv'
  <2>1. ASSUME NEW ty \in Types, GetCall(th, ty) PROVE MutexInv'
    BY <2>1 DEF GetCall
  <2>2. CASE GetLock(th)
    BY <2>2, NullAssumption DEF GetLock, Lock
  <2>3. CASE GetTest(th)
    BY <2>3 DEF GetTest
  <2>4. CASE Grow(th)
    BY <2>4 DEF Grow
  <2>5. CASE GrowDone(th) \/ GrowFail(th) \/ GetPop(th) \/ GetMark(th)
    BY <2>5 DEF GrowDone, GrowFail, GetPop, GetMark
  <2>6. CASE GetUnlock(th)
    BY <2>6 DEF GetUnlock, Unlock
  <2>. QED
    BY <1>1, <2>1, <2>2, <2>3, <2>4, <2>5, <2>6 DEF Get
<1>2. ASSUME NEW th \in Threads, Release(th) PROVE MutexInv'
  <2>1. ASSUME NEW o \in held[th], ReleaseObjectCall(th, o) PROVE MutexInv'
    BY <2>1 DEF ReleaseObjectCall
  <2>2. CASE RelMark(th) \/ RelPush(th)
    BY <2>2 DEF RelMark, RelPush
  <2>3. CASE RelLock(th)
    BY <2>3, NullAssumption DEF RelLock, Lock
  <2>4. CASE RelUnlock(th)
    BY <2>4 DEF RelUnlock, Unlock
  <2>. QED
    BY <1>2, <2>1, <2>2, <2>3, <2>4 DEF Release, ReleaseCall
<1>3. ASSUME NEW ty \in Types, NEW n \in NewMaxes, ChangeMaxPoolSize(ty, n) PROVE MutexInv'
  BY <1>3 DEF ChangeMaxPoolSize
<1>4. ASSUME NEW th \in Threads, NEW to \in Threads \ {th}, NEW o \in held[th],
             HandOff(th, to, o)
      PROVE  MutexInv'
  BY <1>4 DEF HandOff
<1>5. CASE UNCHANGED vars
  BY <1>5 DEF vars
<1>. QED
  BY <1>1, <1>2, <1>3, <1>4, <1>5 DEF Next

LEMMA NextCarry ==
    ASSUME TypeOK, CarryInv, KindInv, [Next]_vars PROVE CarryInv'
<1> USE DEF TypeOK, CarryInv, Carrying, Goto
<1>1. ASSUME NEW th \in Threads, Get(th) PROVE CarryInv'
  <2>1. ASSUME NEW ty \in Types, GetCall(th, ty) PROVE CarryInv'
    BY <2>1 DEF GetCall
  <2>2. CASE GetLock(th) \/ GetTest(th) \/ Grow(th) \/ GrowDone(th) \/ GrowFail(th)
    BY <2>2 DEF GetLock, GetTest, Grow, GrowDone, GrowFail
  <2>3. CASE GetPop(th)
    <3>1. Head(pool[type[th]]) # NoObject
      BY <2>3, PopProperties, NullAssumption DEF GetPop, Objects
    <3>2. Kind(Head(pool[type[th]])) = type[th]
      BY <2>3, PopProperties DEF GetPop, KindInv, Idle
    <3>. QED
      BY <2>3, <3>1, <3>2 DEF GetPop
  <2>4. CASE GetUnlock(th) \/ GetMark(th)
    BY <2>4 DEF GetUnlock, GetMark
  <2>. QED
    BY <1>1, <2>1, <2>2, <2>3, <2>4 DEF Get
<1>2. ASSUME NEW th \in Threads, Release(th) PROVE CarryInv'
  <2>1. ASSUME NEW o \in held[th], ReleaseObjectCall(th, o) PROVE CarryInv'
    <3>1. o # NoObject
      BY NullAssumption DEF Objects
    <3>. QED
      BY <2>1, <3>1 DEF ReleaseObjectCall
  <2>2. CASE RelMark(th) \/ RelLock(th) \/ RelPush(th) \/ RelUnlock(th)
    BY <2>2 DEF RelMark, RelLock, RelPush, RelUnlock
  <2>. QED
    BY <1>2, <2>1, <2>2 DEF Release, ReleaseCall
<1>3. ASSUME NEW ty \in Types, NEW n \in NewMaxes, ChangeMaxPoolSize(ty, n) PROVE CarryInv'
  BY <1>3 DEF ChangeMaxPoolSize
<1>4. ASSUME NEW th \in Threads, NEW to \in Threads \ {th}, NEW o \in held[th],
             HandOff(th, to, o)
      PROVE  CarryInv'
  BY <1>4 DEF HandOff
<1>5. CASE UNCHANGED vars
  BY <1>5 DEF vars
<1>. QED
  BY <1>1, <1>2, <1>3, <1>4, <1>5 DEF Next

-----------------------------------------------------------------------------
(* Where the objects are.  Six actions move one; the rest leave pool,      *)
(* allocated, obj and held alone.                                          *)

Places == KindInv /\ CountInv /\ HandInv /\ ExclusiveOwnership

LEMMA QuietPlaces ==
    ASSUME Places, UNCHANGED <<pool, allocated, obj, held>> PROVE Places'
  BY DEF Places, KindInv, CountInv, Counted, HandInv, ExclusiveOwnership, Idle, InHand

\* A newly created object goes to the end of its pool; none had its number.
LEMMA GrowPlaces ==
    ASSUME TypeOK, Places, NEW th \in Threads, Grow(th) PROVE Places'
<1>1. PICK ty \in Types, new \in Objects :
        /\ ty = type[th] /\ new = Fresh(ty) /\ allocated[ty] \in Nat
        /\ Kind(new) = ty /\ new[2] = allocated[ty] + 1
  <2>1. type[th] \in Types /\ allocated[type[th]] \in Nat
    BY MaxAssumption DEF TypeOK
  <2>2. Fresh(type[th]) \in Objects
    BY <2>1, MaxAssumption DEF TypeOK, Grow, Fresh, Objects, Full
  <2>. QED
    BY <2>1, <2>2 DEF Fresh, Kind
<1>2. /\ pool'[ty] = Append(pool[ty], new)
      /\ \A t \in Types \ {ty} : pool'[t] = pool[t]
      /\ allocated'[ty] = allocated[ty] + 1
      /\ \A t \in Types \ {ty} : allocated'[t] = allocated[t]
      /\ obj' = obj /\ held' = held
  BY <1>1 DEF TypeOK, Grow, PushBack
<1>3. ~Counted(new) /\ Counted(new)'
  BY <1>1, <1>2 DEF Counted
<1>4. \A o : Kind(o) \in Types /\ Counted(o) => Counted(o)'
  <2> SUFFICES ASSUME NEW o, Kind(o) \in Types, Counted(o) PROVE Counted(o)'
    OBVIOUS
  <2>1. CASE Kind(o) = ty
    BY <2>1, <1>1, <1>2 DEF Counted
  <2>2. CASE Kind(o) # ty
    BY <2>2, <1>2 DEF Counted
  <2>. QED
    BY <2>1, <2>2
<1>5. new \notin Idle(ty) /\ \A t \in Threads : new \notin InHand(t)
  BY <1>1, <1>3 DEF Places, CountInv
<1>6. /\ Idle(ty)' = Idle(ty) \cup {new}
      /\ IsInjective(pool'[ty])
      /\ \A t \in Types \ {ty} : Idle(t)' = Idle(t)
  <2>1. pool[ty] \in Seq(Objects) /\ IsInjective(pool[ty])
    BY <1>1 DEF TypeOK, Places, ExclusiveOwnership
  <2>. QED
    BY <1>1, <1>2, <1>5, <2>1, PushProperties DEF Idle
<1>7. \A t \in Threads : InHand(t)' = InHand(t) /\ InHand(t) \subseteq Objects
  BY <1>2 DEF InHand, TypeOK
<1>8. KindInv'
  BY <1>1, <1>6 DEF Places, KindInv
<1>9. CountInv'
  <2>1. \A t \in Types : \A o \in Idle(t)' : Counted(o)'
    BY <1>3, <1>4, <1>6 DEF Places, CountInv, KindInv
  <2>2. \A t \in Threads : \A o \in InHand(t)' : Counted(o)'
    BY <1>4, <1>7 DEF Places, CountInv, Objects, Kind
  <2>. QED
    BY <2>1, <2>2 DEF CountInv
<1>10. HandInv'
  BY <1>2 DEF Places, HandInv
<1>11. ExclusiveOwnership'
  <2>1. \A t \in Types : IsInjective(pool'[t])
    BY <1>2, <1>6 DEF Places, ExclusiveOwnership
  <2>2. \A t \in Types, t1 \in Threads : Idle(t)' \cap InHand(t1)' = {}
    BY <1>5, <1>6, <1>7 DEF Places, ExclusiveOwnership
  <2>3. \A t1, t2 \in Threads : t1 # t2 => InHand(t1)' \cap InHand(t2)' = {}
    BY <1>7 DEF Places, ExclusiveOwnership
  <2>. QED
    BY <2>1, <2>2, <2>3 DEF ExclusiveOwnership
<1>. QED
  BY <1>8, <1>9, <1>10, <1>11 DEF Places

\* The popped object leaves the deque for the call's hands.
LEMMA PopPlaces ==
    ASSUME TypeOK, CarryInv, Places, NEW th \in Threads, GetPop(th) PROVE Places'
<1>1. PICK ty \in Types, o \in Objects :
        /\ ty = type[th] /\ o = Head(pool[ty]) /\ pool[ty] # <<>>
        /\ pool[ty] \in Seq(Objects) /\ o \in Idle(ty) /\ Kind(o) = ty
  <2>1. type[th] \in Types /\ pool[type[th]] \in Seq(Objects) /\ pool[type[th]] # <<>>
    BY DEF TypeOK, GetPop
  <2>2. Head(pool[type[th]]) \in Objects /\ Head(pool[type[th]]) \in Idle(type[th])
    BY <2>1, PopProperties DEF Idle
  <2>. QED
    BY <2>1, <2>2 DEF Places, KindInv
<1>2. /\ pool'[ty] = Tail(pool[ty])
      /\ \A t \in Types \ {ty} : pool'[t] = pool[t]
      /\ obj'[th] = o /\ obj[th] = NoObject /\ o # NoObject
      /\ \A t \in Threads \ {th} : obj'[t] = obj[t]
      /\ held' = held /\ allocated' = allocated
  BY <1>1, NullAssumption DEF TypeOK, CarryInv, Carrying, GetPop, Goto, PopFront, Objects
<1>3. /\ Idle(ty)' = Idle(ty) \ {o}
      /\ IsInjective(pool'[ty])
      /\ \A t \in Types \ {ty} : Idle(t)' = Idle(t)
  BY <1>1, <1>2, PopProperties DEF Places, ExclusiveOwnership, Idle
<1>4. /\ InHand(th)' = InHand(th) \cup {o}
      /\ \A t \in Threads \ {th} : InHand(t)' = InHand(t)
  BY <1>2 DEF InHand
<1>5. \A x : Counted(x)' <=> Counted(x)
  BY <1>2 DEF Counted
<1>6. KindInv' /\ CountInv'
  BY <1>1, <1>3, <1>4, <1>5 DEF Places, KindInv, CountInv
<1>7. \A t \in Threads : o \notin InHand(t)
  BY <1>1 DEF Places, ExclusiveOwnership
<1>8. HandInv'
  BY <1>2, <1>7 DEF Places, HandInv, InHand
<1>9. ExclusiveOwnership'
  <2>1. \A t \in Types : IsInjective(pool'[t])
    BY <1>2, <1>3 DEF Places, ExclusiveOwnership
  <2>2. \A t \in Types : o \notin Idle(t)'
    BY <1>1, <1>3 DEF Places, KindInv
  <2>3. \A t \in Types, t1 \in Threads : Idle(t)' \cap InHand(t1)' = {}
    BY <1>3, <1>4, <2>2 DEF Places, ExclusiveOwnership
  <2>4. \A t1, t2 \in Threads : t1 # t2 => InHand(t1)' \cap InHand(t2)' = {}
    BY <1>4, <1>7 DEF Places, ExclusiveOwnership
  <2>. QED
    BY <2>1, <2>3, <2>4 DEF ExclusiveOwnership
<1>. QED
  BY <1>6, <1>8, <1>9 DEF Places

\* A released object goes from the call's hands to the end of its pool.
LEMMA PushPlaces ==
    ASSUME TypeOK, CarryInv, Places, NEW th \in Threads, RelPush(th) PROVE Places'
<1>1. PICK ty \in Types, o \in Objects :
        /\ ty = type[th] /\ o = obj[th] /\ Kind(o) = ty
        /\ pool[ty] \in Seq(Objects) /\ o # NoObject
  BY DEF TypeOK, CarryInv, Carrying, RelPush, Goto
<1>2. /\ pool'[ty] = Append(pool[ty], o)
      /\ \A t \in Types \ {ty} : pool'[t] = pool[t]
      /\ obj'[th] = NoObject
      /\ \A t \in Threads \ {th} : obj'[t] = obj[t]
      /\ held' = held /\ allocated' = allocated
  BY <1>1 DEF TypeOK, RelPush, PushBack
<1>3. o \in InHand(th) /\ o \notin held[th]
  BY <1>1 DEF InHand, Places, HandInv
<1>4. /\ Idle(ty)' = Idle(ty) \cup {o}
      /\ IsInjective(pool'[ty])
      /\ \A t \in Types \ {ty} : Idle(t)' = Idle(t)
  <2>1. o \notin Idle(ty) /\ IsInjective(pool[ty])
    BY <1>1, <1>3 DEF Places, ExclusiveOwnership
  <2>. QED
    BY <1>1, <1>2, <2>1, PushProperties DEF Idle
<1>5. /\ InHand(th)' = InHand(th) \ {o}
      /\ \A t \in Threads \ {th} : InHand(t)' = InHand(t)
  BY <1>1, <1>2, <1>3 DEF InHand
<1>6. \A x : Counted(x)' <=> Counted(x)
  BY <1>2 DEF Counted
<1>7. KindInv' /\ CountInv'
  BY <1>1, <1>3, <1>4, <1>5, <1>6 DEF Places, KindInv, CountInv
<1>8. HandInv'
  BY <1>2, NullAssumption DEF Places, HandInv, TypeOK, Objects
<1>9. ExclusiveOwnership'
  <2>1. \A t \in Types : IsInjective(pool'[t])
    BY <1>2, <1>4 DEF Places, ExclusiveOwnership
  <2>2. \A t \in Threads : o \notin InHand(t)'
    BY <1>3, <1>5 DEF Places, ExclusiveOwnership
  <2>3. \A t \in Types, t1 \in Threads : Idle(t)' \cap InHand(t1)' = {}
    BY <1>4, <1>5, <2>2 DEF Places, ExclusiveOwnership
  <2>4. \A t1, t2 \in Threads : t1 # t2 => InHand(t1)' \cap InHand(t2)' = {}
    BY <1>5 DEF Places, ExclusiveOwnership
  <2>. QED
    BY <2>1, <2>3, <2>4 DEF ExclusiveOwnership
<1>. QED
  BY <1>7, <1>8, <1>9 DEF Places

\* An object that changes hands stays in somebody's: from the call to its caller
\* (GetMark), from the caller to the call (ReleaseObjectCall), or to another
\* thread (HandOff).
LEMMA HandsPlaces ==
    ASSUME TypeOK, CarryInv, Places, NEW th \in Threads,
           \/ GetMark(th)
           \/ \E o \in held[th] : ReleaseObjectCall(th, o)
           \/ \E to \in Threads \ {th}, o \in held[th] : HandOff(th, to, o)
    PROVE  Places'
<1>1. CASE GetMark(th)
  <2>1. obj[th] \in Objects /\ obj[th] # NoObject
    BY <1>1 DEF TypeOK, CarryInv, Carrying, GetMark, Goto
  <2>2. /\ pool' = pool /\ allocated' = allocated
        /\ \A t \in Threads : InHand(t)' = InHand(t)
    BY <1>1, <2>1 DEF TypeOK, GetMark, InHand
  <2>3. HandInv'
    BY <1>1, <2>1, NullAssumption DEF TypeOK, GetMark, HandInv, Places, Objects
  <2>. QED
    BY <2>2, <2>3 DEF Places, KindInv, CountInv, Counted, ExclusiveOwnership, Idle
<1>2. ASSUME NEW o \in held[th], ReleaseObjectCall(th, o) PROVE Places'
  <2>1. o # NoObject /\ obj[th] = NoObject
    <3>1. o # NoObject
      BY NullAssumption DEF TypeOK, Objects
    <3>2. pc[th] \notin Carrying
      BY <1>2 DEF Carrying, ReleaseObjectCall, Goto
    <3>. QED
      BY <3>1, <3>2 DEF CarryInv
  <2>2. /\ pool' = pool /\ allocated' = allocated
        /\ \A t \in Threads : InHand(t)' = InHand(t)
    BY <1>2, <2>1 DEF TypeOK, ReleaseObjectCall, InHand
  <2>3. HandInv'
    BY <1>2 DEF TypeOK, ReleaseObjectCall, HandInv, Places
  <2>. QED
    BY <2>2, <2>3 DEF Places, KindInv, CountInv, Counted, ExclusiveOwnership, Idle
<1>3. ASSUME NEW to \in Threads \ {th}, NEW o \in held[th], HandOff(th, to, o)
      PROVE  Places'
  <2>1. /\ pool' = pool /\ allocated' = allocated /\ obj' = obj
        /\ held'[th] = held[th] \ {o} /\ held'[to] = held[to] \cup {o}
        /\ \A t \in Threads \ {th, to} : held'[t] = held[t]
    BY <1>3 DEF TypeOK, HandOff
  <2>2. o \in InHand(th) /\ o # NoObject /\ o # obj[th]
    BY NullAssumption DEF InHand, TypeOK, Objects, Places, HandInv
  <2>3. \A t \in Threads \ {th} : o \notin InHand(t)
    BY <2>2 DEF Places, ExclusiveOwnership
  <2>4. /\ InHand(th)' = InHand(th) \ {o}
        /\ InHand(to)' = InHand(to) \cup {o}
        /\ \A t \in Threads \ {th, to} : InHand(t)' = InHand(t)
    BY <2>1, <2>2 DEF InHand
  <2>5. KindInv' /\ CountInv'
    BY <2>1, <2>2, <2>4 DEF Places, KindInv, CountInv, Counted, Idle
  <2>6. HandInv'
    BY <2>1, <2>2, <2>3 DEF Places, HandInv, InHand
  <2>7. ExclusiveOwnership'
    <3>1. \A t \in Types, t1 \in Threads : Idle(t)' \cap InHand(t1)' = {}
      BY <2>1, <2>2, <2>4 DEF Places, ExclusiveOwnership, Idle
    <3>2. \A t1, t2 \in Threads : t1 # t2 => InHand(t1)' \cap InHand(t2)' = {}
      BY <2>3, <2>4 DEF Places, ExclusiveOwnership
    <3>. QED
      BY <2>1, <3>1, <3>2 DEF Places, ExclusiveOwnership
  <2>. QED
    BY <2>5, <2>6, <2>7 DEF Places
<1>. QED
  BY <1>1, <1>2, <1>3

LEMMA NextPlaces ==
    ASSUME TypeOK, CarryInv, Places, [Next]_vars PROVE Places'
<1>1. ASSUME NEW th \in Threads, Get(th) PROVE Places'
  <2>1. ASSUME NEW ty \in Types, GetCall(th, ty) PROVE Places'
    BY <2>1, QuietPlaces DEF GetCall
  <2>2. CASE GetLock(th) \/ GetTest(th) \/ GrowDone(th) \/ GrowFail(th) \/ GetUnlock(th)
    BY <2>2, QuietPlaces DEF GetLock, GetTest, GrowDone, GrowFail, GetUnlock
  <2>. QED
    BY <1>1, <2>1, <2>2, GrowPlaces, PopPlaces, HandsPlaces DEF Get
<1>2. ASSUME NEW th \in Threads, Release(th) PROVE Places'
  <2>1. CASE RelMark(th) \/ RelLock(th) \/ RelUnlock(th)
    BY <2>1, QuietPlaces DEF RelMark, RelLock, RelUnlock
  <2>. QED
    BY <1>2, <2>1, PushPlaces, HandsPlaces DEF Release, ReleaseCall
<1>3. ASSUME NEW ty \in Types, NEW n \in NewMaxes, ChangeMaxPoolSize(ty, n) PROVE Places'
  BY <1>3, QuietPlaces DEF ChangeMaxPoolSize
<1>4. CASE UNCHANGED vars
  BY <1>4, QuietPlaces DEF vars
<1>. QED
  BY <1>1, <1>2, <1>3, <1>4, HandsPlaces DEF Next

-----------------------------------------------------------------------------
(* A deque is only shortened by the thread that owns its mutex.            *)

LEMMA NextDeque ==
    ASSUME TypeOK, MutexInv, CarryInv, DequeInv, [Next]_vars PROVE DequeInv'
<1> USE DEF TypeOK, MutexInv, InMutex, DequeInv, Goto
<1>1. ASSUME NEW th \in Threads, Get(th) PROVE DequeInv'
  <2>1. ASSUME NEW ty \in Types, GetCall(th, ty) PROVE DequeInv'
    BY <2>1 DEF GetCall
  <2>2. CASE GetLock(th) \/ GetUnlock(th) \/ GetMark(th) \/ GrowFail(th)
    BY <2>2 DEF GetLock, GetUnlock, GetMark, GrowFail
  <2>3. CASE GetTest(th)
    BY <2>3, GrowthAssumption DEF GetTest
  <2>4. CASE Grow(th)
    <3>1. Fresh(type[th]) \in Objects
      BY <2>4, MaxAssumption DEF Grow, Fresh, Objects, Full
    <3>2. Append(pool[type[th]], Fresh(type[th])) # <<>>
      BY <3>1, PushProperties
    <3>3. \A t \in Types : pool[t] # <<>> => pool'[t] # <<>>
      BY <2>4, <3>2 DEF Grow, PushBack
    <3>4. pool'[type[th]] # <<>>
      BY <2>4, <3>2 DEF Grow, PushBack
    <3>. QED
      BY <2>4, <3>3, <3>4 DEF Grow
  <2>5. CASE GrowDone(th)
    BY <2>5, GrowthAssumption DEF GrowDone
  <2>6. CASE GetPop(th)
    <3>1. \A t \in Types \ {type[th]} : pool'[t] = pool[t]
      BY <2>6 DEF GetPop, PopFront
    <3>2. \A t \in Threads \ {th} : pc[t] \in InMutex => type[t] # type[th]
      BY <2>6 DEF GetPop
    <3>. QED
      BY <2>6, <3>1, <3>2 DEF GetPop
  <2>. QED
    BY <1>1, <2>1, <2>2, <2>3, <2>4, <2>5, <2>6 DEF Get
<1>2. ASSUME NEW th \in Threads, Release(th) PROVE DequeInv'
  <2>1. ASSUME NEW o \in held[th], ReleaseObjectCall(th, o) PROVE DequeInv'
    BY <2>1 DEF ReleaseObjectCall
  <2>2. CASE RelMark(th) \/ RelLock(th) \/ RelUnlock(th)
    BY <2>2 DEF RelMark, RelLock, RelUnlock
  <2>3. CASE RelPush(th)
    <3>1. obj[th] \in Objects
      BY <2>3 DEF CarryInv, Carrying, RelPush
    <3>2. Append(pool[type[th]], obj[th]) # <<>>
      BY <3>1, PushProperties
    <3>3. \A t \in Types : pool[t] # <<>> => pool'[t] # <<>>
      BY <2>3, <3>2 DEF RelPush, PushBack
    <3>. QED
      BY <2>3, <3>3 DEF RelPush
  <2>. QED
    BY <1>2, <2>1, <2>2, <2>3 DEF Release, ReleaseCall
<1>3. ASSUME NEW ty \in Types, NEW n \in NewMaxes, ChangeMaxPoolSize(ty, n) PROVE DequeInv'
  BY <1>3 DEF ChangeMaxPoolSize
<1>4. ASSUME NEW th \in Threads, NEW to \in Threads \ {th}, NEW o \in held[th],
             HandOff(th, to, o)
      PROVE  DequeInv'
  BY <1>4 DEF HandOff
<1>5. CASE UNCHANGED vars
  BY <1>5 DEF vars
<1>. QED
  BY <1>1, <1>2, <1>3, <1>4, <1>5 DEF Next

-----------------------------------------------------------------------------
(* The theorems                                                            *)

LEMMA InitIInv == Init => IInv
<1> SUFFICES ASSUME Init PROVE IInv
  OBVIOUS
<1>1. TypeOK
  BY InitType
<1>2. \A ty \in Types : Idle(ty) = {} /\ IsInjective(pool[ty])
  BY EmptySeq DEF Init, Idle, ToSet, IsInjective
<1>3. \A th \in Threads : InHand(th) = {}
  BY DEF Init, InHand
<1>. QED
  BY <1>1, <1>2, <1>3
  DEF Init, IInv, MutexInv, InMutex, CarryInv, Carrying, KindInv, CountInv, HandInv,
      DequeInv, ExclusiveOwnership

LEMMA NextIInv == IInv /\ [Next]_vars => IInv'
  BY NextType, NextMutex, NextCarry, NextPlaces, NextDeque DEF IInv, Places

LEMMA AlwaysIInv == Spec => []IInv
  BY InitIInv, NextIInv, PTL DEF Spec

\* Every variable keeps its type; in particular no more objects are created than
\* the largest limit ever set allows.
THEOREM TypeCorrect == Spec => []TypeOK
  BY AlwaysIInv, PTL DEF IInv

\* No object is in two places, whatever the interleaving of getObject,
\* releaseObject, changeMaxPoolSize and hand-offs between threads.
THEOREM Ownership == Spec => []ExclusiveOwnership
  BY AlwaysIInv, PTL DEF IInv

\* getObject never takes the front of an empty deque.
THEOREM PopSafe == Spec => []PopFindsObject
<1>1. IInv => PopFindsObject
  BY DEF IInv, DequeInv, PopFindsObject
<1>. QED
  BY <1>1, AlwaysIInv, PTL

-----------------------------------------------------------------------------
(* The flag, the account and the refinement: consequences of IInv and of   *)
(* one step.                                                               *)

\* What the three actions that change held do to it.
LEMMA HeldSteps ==
    ASSUME IInv, [Next]_vars
    PROVE  \/ held' = held
           \/ \E th \in Threads : GetMark(th)
           \/ \E th \in Threads, o \in Objects : o \in held[th] /\ ReleaseObjectCall(th, o)
           \/ \E th \in Threads : \E to \in Threads \ {th}, o \in Objects :
                 o \in held[th] /\ HandOff(th, to, o)
<1> USE DEF IInv, TypeOK
<1>1. ASSUME NEW th \in Threads, Get(th) PROVE held' = held \/ GetMark(th)
  BY <1>1 DEF Get, GetCall, GetLock, GetTest, Grow, GrowDone, GrowFail, GetPop, GetUnlock
<1>2. ASSUME NEW th \in Threads, Release(th)
      PROVE  held' = held \/ \E o \in held[th] : ReleaseObjectCall(th, o)
  BY <1>2 DEF Release, ReleaseCall, RelMark, RelLock, RelPush, RelUnlock
<1>3. ASSUME NEW ty \in Types, NEW n \in NewMaxes, ChangeMaxPoolSize(ty, n) PROVE held' = held
  BY <1>3 DEF ChangeMaxPoolSize
<1>4. UNCHANGED vars => held' = held
  BY DEF vars
<1>5. \A th \in Threads : held[th] \subseteq Objects
  OBVIOUS
<1>. QED
  BY <1>1, <1>2, <1>3, <1>4, <1>5 DEF Next

\* Nobody holds the object that another thread, or this call, has in its hands.
LEMMA InHandIsNotHeld ==
    ASSUME IInv, NEW th \in Threads, NEW t \in Threads, obj[th] # NoObject
    PROVE  obj[th] \notin held[t]
  BY DEF IInv, HandInv, ExclusiveOwnership, InHand

LEMMA NextFlag == ASSUME IInv, HolderMayRelease, [Next]_vars PROVE HolderMayRelease'
<1> USE DEF HolderMayRelease, ReleaseRefuses
<1>1. CASE held' = held
  <2>1. CASE \E th \in Threads : Grow(th)
    <3>1. PICK th \in Threads : Grow(th)
      BY <2>1
    <3>2. ~Counted(Fresh(type[th]))
      BY <3>1, MaxAssumption DEF IInv, TypeOK, Counted, Fresh, Kind
    <3>3. \A t \in Threads : Fresh(type[th]) \notin held[t]
      BY <3>2 DEF IInv, CountInv, InHand
    <3>. QED
      BY <1>1, <3>1, <3>3 DEF Grow
  <2>2. CASE \E th \in Threads : RelMark(th)
    <3>1. PICK th \in Threads : RelMark(th)
      BY <2>2
    <3>2. obj[th] # NoObject
      BY <3>1 DEF IInv, CarryInv, Carrying, RelMark, Goto
    <3>. QED
      BY <1>1, <3>1, <3>2, InHandIsNotHeld DEF RelMark, MarkInPool
  <2>3. CASE \E th \in Threads : GetMark(th)
    BY <1>1, <2>3 DEF GetMark, MarkAllocated
  <2>4. CASE inPool' = inPool
    BY <1>1, <2>4
  <2>. QED
    BY <2>1, <2>2, <2>3, <2>4
    DEF Next, Get, Release, ReleaseCall, GetCall, GetLock, GetTest, GrowDone, GrowFail,
        GetPop, GetUnlock, ReleaseObjectCall, RelLock, RelPush, RelUnlock,
        ChangeMaxPoolSize, HandOff, vars
<1>2. ASSUME NEW th \in Threads, GetMark(th) PROVE HolderMayRelease'
  BY <1>2 DEF IInv, TypeOK, GetMark, MarkAllocated
<1>3. ASSUME NEW th \in Threads, NEW o \in Objects, o \in held[th], ReleaseObjectCall(th, o)
      PROVE  HolderMayRelease'
  BY <1>3 DEF IInv, TypeOK, ReleaseObjectCall
<1>4. ASSUME NEW th \in Threads, NEW to \in Threads \ {th}, NEW o \in Objects,
             o \in held[th], HandOff(th, to, o)
      PROVE  HolderMayRelease'
  BY <1>4 DEF IInv, TypeOK, HandOff
<1>. QED
  BY <1>1, <1>2, <1>3, <1>4, HeldSteps

\* The thread that holds an object can always release() it.
THEOREM HolderReleases == Spec => []HolderMayRelease
<1>1. Init => HolderMayRelease
  BY DEF Init, HolderMayRelease
<1>. QED
  BY <1>1, NextFlag, AlwaysIInv, PTL DEF Spec

\* Every object that was created is idle or in somebody's hands.
Found(o) == o \in Idle(Kind(o)) \/ \E th \in Threads : o \in InHand(th)
Accounted == \A ty \in Types : \A o \in Created(ty) : Found(o)

LEMMA CreatedIsCounted ==
    ASSUME NEW ty \in Types, NEW o
    PROVE  /\ o \in Created(ty) => Kind(o) = ty /\ Counted(o)
           /\ o \in Objects /\ Kind(o) = ty /\ Counted(o) => o \in Created(ty)
<1>1. o \in Created(ty) => Kind(o) = ty /\ Counted(o)
  BY DEF Created, Kind, Counted
<1>2. ASSUME o \in Objects, Kind(o) = ty, Counted(o) PROVE o \in Created(ty)
  <2>1. o = <<o[1], o[2]>>
    BY <1>2 DEF Objects
  <2>. QED
    BY <2>1, <1>2 DEF Created, Kind, Counted
<1>. QED
  BY <1>1, <1>2

\* A step that creates nothing keeps the account if it only moves what it finds.
LEMMA MovesAccounted ==
    ASSUME Accounted, allocated' = allocated,
           \A ty \in Types : \A o \in Created(ty) : Found(o) => Found(o)'
    PROVE  Accounted'
  BY DEF Accounted, Created

\* The object popped is in the hands of the call that popped it.
LEMMA PopAccounted ==
    ASSUME IInv, Accounted, NEW th \in Threads, GetPop(th) PROVE Accounted'
<1>1. type[th] \in Types /\ pool[type[th]] \in Seq(Objects) /\ pool[type[th]] # <<>>
  BY DEF IInv, TypeOK, GetPop
<1>2. PICK ty \in Types, o \in Objects : ty = type[th] /\ o = Head(pool[ty])
  BY <1>1, PopProperties
<1>3. /\ pool'[ty] = Tail(pool[ty])
      /\ \A t \in Types \ {ty} : pool'[t] = pool[t]
      /\ obj'[th] = o /\ obj[th] = NoObject /\ o # NoObject
      /\ \A t \in Threads \ {th} : obj'[t] = obj[t]
      /\ held' = held /\ allocated' = allocated
  BY <1>1, <1>2, NullAssumption
  DEF IInv, TypeOK, CarryInv, Carrying, GetPop, Goto, PopFront, Objects
<1>4. /\ Idle(ty)' = Idle(ty) \ {o}
      /\ \A t \in Types \ {ty} : Idle(t)' = Idle(t)
  BY <1>1, <1>2, <1>3, PopProperties DEF IInv, ExclusiveOwnership, Idle
<1>5. /\ o \in InHand(th)'
      /\ \A t \in Threads : InHand(t) \subseteq InHand(t)'
  BY <1>3 DEF InHand
<1>6. ASSUME NEW t \in Types, NEW x \in Created(t), Found(x) PROVE Found(x)'
  <2>1. Kind(x) \in Types
    BY <1>6, CreatedIsCounted
  <2>. QED
    BY <1>4, <1>5, <1>6, <2>1 DEF Found, Kind
<1>. QED
  BY <1>3, <1>6, MovesAccounted

\* The object pushed is idle again.
LEMMA PushAccounted ==
    ASSUME IInv, Accounted, NEW th \in Threads, RelPush(th) PROVE Accounted'
<1>1. PICK ty \in Types, o \in Objects :
        /\ ty = type[th] /\ o = obj[th] /\ Kind(o) = ty /\ pool[ty] \in Seq(Objects)
  BY DEF IInv, TypeOK, CarryInv, Carrying, RelPush, Goto
<1>2. /\ pool'[ty] = Append(pool[ty], o)
      /\ \A t \in Types \ {ty} : pool'[t] = pool[t]
      /\ \A t \in Threads \ {th} : obj'[t] = obj[t]
      /\ held' = held /\ allocated' = allocated
  BY <1>1 DEF IInv, TypeOK, RelPush, PushBack
<1>3. /\ Idle(ty)' = Idle(ty) \cup {o}
      /\ \A t \in Types \ {ty} : Idle(t)' = Idle(t)
  BY <1>1, <1>2, PushProperties DEF Idle
<1>4. \A t \in Threads : InHand(t) \ {o} \subseteq InHand(t)'
  BY <1>1, <1>2 DEF InHand
<1>5. ASSUME NEW t \in Types, NEW x \in Created(t), Found(x) PROVE Found(x)'
  <2>1. Kind(x) \in Types
    BY <1>5, CreatedIsCounted
  <2>. QED
    BY <1>1, <1>3, <1>4, <1>5, <2>1 DEF Found, Kind
<1>. QED
  BY <1>2, <1>5, MovesAccounted

\* The object created is idle.
LEMMA GrowAccounted ==
    ASSUME IInv, Accounted, NEW th \in Threads, Grow(th) PROVE Accounted'
<1>1. PICK ty \in Types, new \in Objects :
        /\ ty = type[th] /\ new = Fresh(ty) /\ allocated[ty] \in Nat
        /\ pool[ty] \in Seq(Objects)
  <2>1. type[th] \in Types /\ allocated[type[th]] \in Nat
    BY MaxAssumption DEF IInv, TypeOK
  <2>2. Fresh(type[th]) \in Objects
    BY <2>1, MaxAssumption DEF IInv, TypeOK, Grow, Fresh, Objects, Full
  <2>. QED
    BY <2>1, <2>2 DEF IInv, TypeOK
<1>2. /\ pool'[ty] = Append(pool[ty], new)
      /\ \A t \in Types \ {ty} : pool'[t] = pool[t]
      /\ allocated'[ty] = allocated[ty] + 1
      /\ \A t \in Types \ {ty} : allocated'[t] = allocated[t]
      /\ obj' = obj /\ held' = held
  BY <1>1 DEF IInv, TypeOK, Grow, PushBack
<1>3. /\ Idle(ty)' = Idle(ty) \cup {new}
      /\ \A t \in Types \ {ty} : Idle(t)' = Idle(t)
  BY <1>1, <1>2, PushProperties DEF Idle
<1>4. ASSUME NEW t \in Types, NEW x \in Created(t)' PROVE x \in Created(t) \/ x = new
  BY <1>1, <1>2 DEF Created, Fresh
<1>5. ASSUME NEW t \in Types, NEW x \in Created(t) PROVE Found(x)'
  <2>1. Kind(x) \in Types /\ Found(x)
    BY CreatedIsCounted DEF Accounted
  <2>. QED
    BY <1>2, <1>3, <2>1 DEF Found, InHand, Kind
<1>6. Found(new)'
  BY <1>1, <1>3 DEF Found, Kind, Fresh
<1>. QED
  BY <1>4, <1>5, <1>6 DEF Accounted

\* Between a call and its caller, and between threads, nothing is dropped.
LEMMA HandsAccounted ==
    ASSUME IInv, Accounted, NEW th \in Threads,
           \/ GetMark(th)
           \/ \E o \in held[th] : ReleaseObjectCall(th, o)
           \/ \E to \in Threads \ {th}, o \in held[th] : HandOff(th, to, o)
    PROVE  Accounted'
<1>1. pool' = pool /\ allocated' = allocated
  BY DEF GetMark, ReleaseObjectCall, HandOff
<1>2. ASSUME NEW t \in Threads, NEW x \in InHand(t) PROVE \E u \in Threads : x \in InHand(u)'
  <2>1. CASE GetMark(th)
    BY <1>2, <2>1 DEF IInv, TypeOK, GetMark, InHand
  <2>2. ASSUME NEW o \in held[th], ReleaseObjectCall(th, o)
        PROVE  \E u \in Threads : x \in InHand(u)'
    <3>1. pc[th] \notin Carrying
      BY <2>2 DEF Carrying, ReleaseObjectCall, Goto
    <3>2. obj[th] = NoObject
      BY <3>1 DEF IInv, CarryInv
    <3>3. o # NoObject
      BY NullAssumption DEF IInv, TypeOK, Objects
    <3>4. x \in InHand(t)'
      BY <1>2, <2>2, <3>2, <3>3 DEF IInv, TypeOK, ReleaseObjectCall, InHand
    <3>. QED
      BY <3>4
  <2>3. ASSUME NEW to \in Threads \ {th}, NEW o \in held[th], HandOff(th, to, o)
        PROVE  \E u \in Threads : x \in InHand(u)'
    <3>1. /\ obj' = obj /\ held'[th] = held[th] \ {o} /\ held'[to] = held[to] \cup {o}
          /\ \A u \in Threads \ {th, to} : held'[u] = held[u]
      BY <2>3 DEF IInv, TypeOK, HandOff
    <3>2. x = o => x \in InHand(to)'
      BY <3>1 DEF InHand
    <3>3. x # o => x \in InHand(t)'
      BY <1>2, <3>1 DEF InHand
    <3>. QED
      BY <3>2, <3>3
  <2>. QED
    BY <2>1, <2>2, <2>3
<1>. QED
  BY <1>1, <1>2, MovesAccounted DEF Found, Idle

LEMMA NextAccounted == ASSUME IInv, Accounted, [Next]_vars PROVE Accounted'
<1>1. CASE UNCHANGED <<pool, allocated, obj, held>>
  BY <1>1 DEF Accounted, Created, Found, Idle, InHand
<1>2. ASSUME NEW th \in Threads, Get(th) PROVE Accounted'
  BY <1>1, <1>2, GrowAccounted, PopAccounted, HandsAccounted
  DEF Get, GetCall, GetLock, GetTest, GrowDone, GrowFail, GetUnlock
<1>3. ASSUME NEW th \in Threads, Release(th) PROVE Accounted'
  BY <1>1, <1>3, PushAccounted, HandsAccounted
  DEF Release, ReleaseCall, RelMark, RelLock, RelUnlock
<1>4. ASSUME NEW ty \in Types, NEW n \in NewMaxes, ChangeMaxPoolSize(ty, n) PROVE Accounted'
  BY <1>1, <1>4 DEF ChangeMaxPoolSize
<1>5. CASE UNCHANGED vars
  BY <1>1, <1>5 DEF vars
<1>. QED
  BY <1>2, <1>3, <1>4, <1>5, HandsAccounted DEF Next

\* The objects created are those that are idle and those in the threads' hands:
\* a getObject that fails midway, a limit lowered below what is allocated and a
\* race of two releases drop none.
THEOREM Account == Spec => []NothingLost
<1>1. Init => Accounted
  BY DEF Init, Accounted, Created
<1>2. ASSUME IInv, Accounted PROVE NothingLost
  <2>1. ASSUME NEW ty \in Types, NEW o \in Created(ty)
        PROVE  o \in Idle(ty) \/ \E th \in Threads : o \in InHand(th)
    BY <1>2, <2>1, CreatedIsCounted DEF Accounted, Found
  <2>2. ASSUME NEW ty \in Types, NEW o \in Idle(ty) PROVE o \in Created(ty)
    <3>1. pool[ty] \in Seq(Objects)
      BY <1>2 DEF IInv, TypeOK
    <3>2. o \in Objects
      BY <3>1, LenProperties, ElementOfSeq DEF Idle, ToSet
    <3>. QED
      BY <1>2, <3>2, CreatedIsCounted DEF IInv, KindInv, CountInv
  <2>3. ASSUME NEW ty \in Types, NEW th \in Threads, NEW o \in InHand(th), Kind(o) = ty
        PROVE  o \in Created(ty)
    <3>1. o \in Objects
      BY <1>2 DEF IInv, TypeOK, InHand
    <3>. QED
      BY <1>2, <2>3, <3>1, CreatedIsCounted DEF IInv, CountInv
  <2>4. \A ty \in Types : \A o \in Created(ty) : Kind(o) = ty
    BY CreatedIsCounted
  <2>. QED
    BY <2>1, <2>2, <2>3, <2>4 DEF NothingLost
<1>. QED
  BY <1>1, <1>2, NextAccounted, AlwaysIInv, PTL DEF Spec

\* Every step of the pool is a step of the abstract allocator, or none: the
\* objects in the wild never overlap.
THEOREM PoolIsAllocator == Spec => ImplementsAllocator
<1>1. Init => Allocator!Init
  BY DEF Init, Allocator!Init
<1>2. ASSUME IInv, [Next]_vars PROVE [Allocator!Next]_held
  <2>1. ASSUME NEW th \in Threads, GetMark(th) PROVE [Allocator!Next]_held
    <3>1. obj[th] # NoObject /\ obj[th] \in Objects
      BY <1>2, <2>1 DEF IInv, TypeOK, CarryInv, Carrying, GetMark, Goto
    <3>2. Allocator!Acquire(th, obj[th])
      BY <1>2, <2>1, <3>1, InHandIsNotHeld DEF GetMark, Allocator!Acquire, Allocator!InUse
    <3>. QED
      BY <3>1, <3>2 DEF Allocator!Next
  <2>2. ASSUME NEW th \in Threads, NEW o \in Objects, o \in held[th], ReleaseObjectCall(th, o)
        PROVE  [Allocator!Next]_held
    BY <2>2 DEF ReleaseObjectCall, Allocator!Next, Allocator!GiveBack
  <2>3. ASSUME NEW th \in Threads, NEW to \in Threads \ {th}, NEW o \in Objects,
               o \in held[th], HandOff(th, to, o)
        PROVE  [Allocator!Next]_held
    BY <2>3 DEF HandOff, Allocator!Next, Allocator!PassOn
  <2>. QED
    BY <1>2, <2>1, <2>2, <2>3, HeldSteps
<1>. QED
  BY <1>1, <1>2, AlwaysIInv, PTL DEF Spec, ImplementsAllocator, Allocator!Spec
=============================================================================
