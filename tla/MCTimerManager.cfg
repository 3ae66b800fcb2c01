\* Two timer threads, a module whose callbacks re-arm, and a thread that adds timers.
SPECIFICATION FairSpec
CONSTANTS
    t1 = t1
    t2 = t2
    packet = packet
    shaper = shaper
    e1 = e1
    e2 = e2
    TimerThreads = {t1, t2}
    Callers = {packet}
    Modules = {shaper}
    Events = {e1, e2}
    Intervals = {1, 2}
    Horizon = 2
    NoThread = NoThread
    NoEvent = NoEvent
INVARIANTS
    TypeOK
    PopFindsExpired
    OnePlace
    NoLostWakeup
PROPERTIES
    EveryTimerFires
    ImplementsService
