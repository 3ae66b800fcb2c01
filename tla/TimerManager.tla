---------------------------- MODULE TimerManager ----------------------------
(***************************************************************************)
(* mon/Thread_Timer.cc with microsleep of util/mgmt.cc: every module that   *)
(* wants timers owns an aggregator, a deque of timer events sorted by       *)
(* invocation time.  The timer threads walk the list of aggregators,         *)
(* dispatch at most one expired event of each, and sleep until the next      *)
(* event is due or a flag tells them that an event was added.                *)
(*                                                                          *)
(* startup() is called twice, by Monitor::startup and by main, so there are  *)
(* two timer threads.  A step ends where another thread may look: at a       *)
(* mutex, at the flag, and at each reading of the clock.  The mutex of one    *)
(* aggregator is held for one read or one update of its deque, so each of     *)
(* these is one step.                                                        *)
(***************************************************************************)
EXTENDS Naturals, FiniteSets, SequencesExt

CONSTANTS
    TimerThreads,  \* the threads startup() creates
    Callers,       \* other threads that add timer events
    Modules,       \* the modules that enable timers
    Events,        \* the timer events of the memory pool
    Intervals,     \* the intervals timers are armed with
    Horizon,       \* the clock and all times stop here, which stands for "later"
    NoThread, NoEvent

ASSUME TimeAssumption == Horizon \in Nat \ {0} /\ Intervals \subseteq 1..Horizon
ASSUME NullAssumption ==
    /\ NoThread \notin TimerThreads
    /\ NoEvent \notin Events

VARIABLES
    now,        \* what gettimeofday answers
    listTimers, \* m_listTimers: the modules whose aggregator is registered
    aggregator, \* m_TimerEvents of each module's aggregator
    due,        \* m_invocationTime of each event
    free,       \* the events in the memory pool
    mutexList,  \* m_MutexAggregList: the timer thread that holds it
    changed,    \* m_bTimerChangeFlag
    thread,     \* the local variables of each timer thread
    signals     \* the threads that inserted an event and have yet to signal

vars == <<now, listTimers, aggregator, due, free, mutexList, changed, thread, signals>>

Times == 0..Horizon
Later(time, interval) == IF time + interval < Horizon THEN time + interval ELSE Horizon

ThreadState ==
    [pc : {"unborn", "sample", "lock", "scan", "pop", "callback", "finish",
           "doze", "sleep", "clear"},
     currentTime : Times, j : Nat \ {0}, event : Events \cup {NoEvent},
     expired : BOOLEAN, next : Times, wait : Times, wake : Times]

Unborn == [pc |-> "unborn", currentTime |-> 0, j |-> 1, event |-> NoEvent,
           expired |-> FALSE, next |-> 0, wait |-> 0, wake |-> 0]

TypeOK ==
    /\ now \in Times
    /\ listTimers \in Seq(Modules)
    /\ aggregator \in [Modules -> Seq(Events)]
    /\ due \in [Events -> Times]
    /\ free \subseteq Events
    /\ mutexList \in TimerThreads \cup {NoThread}
    /\ changed \in BOOLEAN
    /\ thread \in [TimerThreads -> ThreadState]
    /\ signals \subseteq TimerThreads \cup Callers

Init ==
    /\ now = 0
    /\ listTimers = <<>>
    /\ aggregator = [m \in Modules |-> <<>>]
    /\ due = [e \in Events |-> 0]
    /\ free = Events
    /\ mutexList = NoThread
    /\ changed = FALSE
    /\ thread = [t \in TimerThreads |-> Unborn]
    /\ signals = {}

-----------------------------------------------------------------------------
(* Aggregators.                                                            *)

\* addTimerEvent inserts before the first event that is due strictly later.
Insert(m, e, time) ==
    LET s == aggregator[m]
        later == {i \in DOMAIN s : due[s[i]] > time}
        at == IF later = {} THEN Len(s) + 1 ELSE CHOOSE i \in later : \A k \in later : i <= k
    IN  aggregator' = [aggregator EXCEPT ![m] = InsertAt(@, at, e)]

\* armTimer, then the part of addTimerEvent before its signal.
Arm(m, e) ==
    \E interval \in Intervals :
        /\ due' = [due EXCEPT ![e] = Later(now, interval)]
        /\ Insert(m, e, Later(now, interval))

\* enableTimers: the module's aggregator joins the list, once.
EnableTimers(m) ==
    /\ mutexList = NoThread
    /\ m \notin ToSet(listTimers)
    /\ listTimers' = Append(listTimers, m)
    /\ UNCHANGED <<now, aggregator, due, free, mutexList, changed, thread, signals>>

\* Another thread takes an event from the pool, arms it and adds it.
AddTimerEvent(c, m, e) ==
    /\ c \notin signals
    /\ m \in ToSet(listTimers)
    /\ e \in free
    /\ free' = free \ {e}
    /\ Arm(m, e)
    /\ signals' = signals \cup {c}
    /\ UNCHANGED <<now, listTimers, mutexList, changed, thread>>

SignalTimerChange(c) ==
    /\ c \in signals
    /\ signals' = signals \ {c}
    /\ changed' = TRUE
    /\ UNCHANGED <<now, listTimers, aggregator, due, free, mutexList, thread>>

-----------------------------------------------------------------------------
(* Thread_Timer.                                                           *)

Startup(t) ==
    /\ thread[t].pc = "unborn"
    /\ thread' = [thread EXCEPT ![t].pc = "sample"]
    /\ UNCHANGED <<now, listTimers, aggregator, due, free, mutexList, changed, signals>>

Sample(t) ==
    /\ thread[t].pc = "sample"
    /\ thread' = [thread EXCEPT ![t] =
          [Unborn EXCEPT !.pc = "lock", !.currentTime = now]]
    /\ UNCHANGED <<now, listTimers, aggregator, due, free, mutexList, changed, signals>>

\* Slip: the list walked without its mutex.
WalkUnlocked(t) ==
    /\ thread[t].pc = "lock"
    /\ mutexList' = t
    /\ thread' = [thread EXCEPT ![t].pc = "scan"]
    /\ UNCHANGED <<now, listTimers, aggregator, due, free, changed, signals>>

LockList(t) ==
    /\ thread[t].pc = "lock"
    /\ mutexList = NoThread
    /\ mutexList' = t
    /\ thread' = [thread EXCEPT ![t].pc = "scan"]
    /\ UNCHANGED <<now, listTimers, aggregator, due, free, changed, signals>>

\* getNextEvent of the j-th aggregator, and what the loop makes of it.
Look(t) ==
    LET th == thread[t]
        events == aggregator[listTimers[th.j]]
        time == due[Head(events)]
        left == time - th.currentTime
    IN
    /\ th.pc = "scan"
    /\ t \notin signals
    /\ th.j <= Len(listTimers)
    /\ thread' = [thread EXCEPT ![t] =
          CASE events = <<>> -> [th EXCEPT !.j = @ + 1]
            [] events # <<>> /\ time <= th.currentTime ->
                  [th EXCEPT !.pc = "pop", !.expired = TRUE]
            [] OTHER ->
                  [th EXCEPT !.j = @ + 1,
                             !.next = IF ~th.expired /\ (@ = 0 \/ left < @) THEN left ELSE @]]
    /\ UNCHANGED <<now, listTimers, aggregator, due, free, mutexList, changed, signals>>

\* Slip: the front event is dispatched and stays.
PeekTimer(t) ==
    LET m == listTimers[thread[t].j] IN
    /\ thread[t].pc = "pop"
    /\ aggregator[m] # <<>>
    /\ thread' = [thread EXCEPT ![t].pc = "callback", ![t].event = Head(aggregator[m])]
    /\ UNCHANGED <<now, listTimers, aggregator, due, free, mutexList, changed, signals>>

\* Slip: the last event is dispatched.
PopLast(t) ==
    LET m == listTimers[thread[t].j] IN
    /\ thread[t].pc = "pop"
    /\ aggregator[m] # <<>>
    /\ aggregator' = [aggregator EXCEPT ![m] = Front(@)]
    /\ thread' = [thread EXCEPT ![t].pc = "callback", ![t].event = Last(aggregator[m])]
    /\ UNCHANGED <<now, listTimers, due, free, mutexList, changed, signals>>

\* popProcessTimer takes whatever is in front by now.
PopTimer(t) ==
    LET m == listTimers[thread[t].j] IN
    /\ thread[t].pc = "pop"
    /\ aggregator[m] # <<>>
    /\ aggregator' = [aggregator EXCEPT ![m] = Tail(@)]
    /\ thread' = [thread EXCEPT ![t].pc = "callback", ![t].event = Head(aggregator[m])]
    /\ UNCHANGED <<now, listTimers, due, free, mutexList, changed, signals>>

\* The module's processTimer, with the list still locked: it gives the event
\* back to the pool, or arms it again and adds it.
ProcessTimer(t) ==
    LET e == thread[t].event IN
    /\ thread[t].pc = "callback"
    /\ \/ free' = free \cup {e} /\ UNCHANGED <<aggregator, due, signals>>
       \/ /\ Arm(listTimers[thread[t].j], e)
          /\ signals' = signals \cup {t}
          /\ UNCHANGED free
    /\ thread' = [thread EXCEPT ![t].pc = "scan", ![t].event = NoEvent, ![t].j = @ + 1]
    /\ UNCHANGED <<now, listTimers, mutexList, changed>>

\* Slip: the loop over the aggregators left without unlocking.
LeaveLocked(t) ==
    /\ thread[t].pc = "scan"
    /\ thread[t].j > Len(listTimers)
    /\ t \notin signals
    /\ thread' = [thread EXCEPT ![t].pc = "finish"]
    /\ UNCHANGED <<now, listTimers, aggregator, due, free, mutexList, changed, signals>>

UnlockList(t) ==
    /\ thread[t].pc = "scan"
    /\ thread[t].j > Len(listTimers)
    /\ t \notin signals
    /\ mutexList' = NoThread
    /\ thread' = [thread EXCEPT ![t].pc = "finish"]
    /\ UNCHANGED <<now, listTimers, aggregator, due, free, changed, signals>>

\* Slip: a loop that took longer than there was to wait sleeps all the same.
FinishUntested(t) ==
    LET th == thread[t]
        loopTime == now - th.currentTime IN
    /\ th.pc = "finish"
    /\ thread' = [thread EXCEPT ![t] =
          IF th.expired THEN [th EXCEPT !.pc = "sample"]
          ELSE [th EXCEPT !.pc = "doze", !.wait = th.next - loopTime]]
    /\ UNCHANGED <<now, listTimers, aggregator, due, free, mutexList, changed, signals>>

\* No sleep after a dispatch, nor when the loop took longer than there was to
\* wait, which is always so when no event is pending: next is 0.
FinishLoop(t) ==
    LET th == thread[t]
        loopTime == now - th.currentTime IN
    /\ th.pc = "finish"
    /\ thread' = [thread EXCEPT ![t] =
          IF th.expired \/ loopTime >= th.next THEN [th EXCEPT !.pc = "sample"]
          ELSE [th EXCEPT !.pc = "doze", !.wait = th.next - loopTime]]
    /\ UNCHANGED <<now, listTimers, aggregator, due, free, mutexList, changed, signals>>

\* Slip: the flag cleared before the sleep.
DozeAndClear(t) ==
    /\ thread[t].pc = "doze"
    /\ thread' = [thread EXCEPT ![t].pc = "sleep", ![t].wake = Later(now, thread[t].wait)]
    /\ changed' = FALSE
    /\ UNCHANGED <<now, listTimers, aggregator, due, free, mutexList, signals>>

\* microsleep reads the clock again.
Doze(t) ==
    /\ thread[t].pc = "doze"
    /\ thread' = [thread EXCEPT ![t].pc = "sleep", ![t].wake = Later(now, thread[t].wait)]
    /\ UNCHANGED <<now, listTimers, aggregator, due, free, mutexList, changed, signals>>

Wake(t) ==
    /\ thread[t].pc = "sleep"
    /\ changed \/ now > thread[t].wake \/ now = Horizon
    /\ thread' = [thread EXCEPT ![t].pc = "clear"]
    /\ UNCHANGED <<now, listTimers, aggregator, due, free, mutexList, changed, signals>>

ClearSignal(t) ==
    /\ thread[t].pc = "clear"
    /\ changed' = FALSE
    /\ thread' = [thread EXCEPT ![t].pc = "sample"]
    /\ UNCHANGED <<now, listTimers, aggregator, due, free, mutexList, signals>>

Tick ==
    /\ now < Horizon
    /\ now' = now + 1
    /\ UNCHANGED <<listTimers, aggregator, due, free, mutexList, changed, thread, signals>>

Loop(t) ==
    \/ Startup(t) \/ Sample(t) \/ LockList(t) \/ Look(t) \/ PopTimer(t) \/ ProcessTimer(t)
    \/ UnlockList(t) \/ FinishLoop(t) \/ Doze(t) \/ Wake(t) \/ ClearSignal(t)

Next ==
    \/ Tick
    \/ \E m \in Modules : EnableTimers(m)
    \/ \E c \in Callers, m \in Modules, e \in Events : AddTimerEvent(c, m, e)
    \/ \E x \in Callers \cup TimerThreads : SignalTimerChange(x)
    \/ \E t \in TimerThreads : Loop(t)

Spec == Init /\ [][Next]_vars

\* Time passes and threads that can run do.  A mutex is not granted in turn.
Fairness ==
    /\ WF_vars(Tick)
    /\ \A x \in Callers \cup TimerThreads : WF_vars(SignalTimerChange(x))
    /\ \A t \in TimerThreads : WF_vars(Loop(t))

FairSpec == Spec /\ Fairness

-----------------------------------------------------------------------------
(* Properties.                                                             *)

\* popProcessTimer, which tests neither for an empty deque nor for the time, finds
\* an expired event at its second look, though two threads dispatch from the same
\* aggregators and events are inserted between the looks.
PopFindsExpired ==
    \A t \in TimerThreads :
        thread[t].pc = "pop" =>
            LET deque == aggregator[listTimers[thread[t].j]]
            IN  deque # <<>> /\ due[Head(deque)] <= thread[t].currentTime

\* An event is in the pool, once in one aggregator, or with one callback.
OnePlace ==
    \A e \in Events :
        Cardinality({"pool" : x \in {e} \cap free}
            \cup {t \in TimerThreads : thread[t].event = e}
            \cup UNION {{<<m, i>> : i \in {k \in DOMAIN aggregator[m] : aggregator[m][k] = e}} :
                           m \in Modules}) = 1

Asleep(t) == thread[t].pc \in {"doze", "sleep"}

\* When every timer thread is going to sleep and no signal is set or about to
\* be, one of them aims to wake no later than the earliest event is due: however
\* an insertion falls between scan, sleep, wake-up and the clearing of the flag
\* the threads share, it is not slept through.
NoLostWakeup ==
    /\ \A t \in TimerThreads : Asleep(t)
    /\ ~changed
    /\ signals = {}
    => \A m \in ToSet(listTimers) : \A e \in ToSet(aggregator[m]) :
          \E t \in TimerThreads : thread[t].currentTime + thread[t].next <= due[e]

\* Every event that is added is dispatched in the end.
EveryTimerFires ==
    \A m \in Modules, e \in Events :
        e \in ToSet(aggregator[m]) ~> \E t \in TimerThreads : thread[t].event = e

\* Each event is dispatched once, in time order per module, never early.
Service ==
    INSTANCE TimerService
        WITH pending <- [m \in Modules |-> ToSet(aggregator[m])],
             called <- {thread[t].event : t \in TimerThreads} \ {NoEvent}

ImplementsService == Service!Spec
=============================================================================
