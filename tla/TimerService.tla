---------------------------- MODULE TimerService ----------------------------
(***************************************************************************)
(* What the timers of ScaleBox promise a module: an event it adds is        *)
(* dispatched to it once, not before its time, and after every earlier      *)
(* event of the same module.                                                *)
(***************************************************************************)
EXTENDS Naturals

CONSTANTS Modules, Events, Horizon

VARIABLES
    now,      \* the time
    due,      \* when each event is to be dispatched
    pending,  \* the events each module has added and not been called for
    called    \* the events whose callback runs

vars == <<now, due, pending, called>>

Init ==
    /\ now = 0
    /\ due = [e \in Events |-> 0]
    /\ pending = [m \in Modules |-> {}]
    /\ called = {}

Tick == now' = now + 1 /\ UNCHANGED <<due, pending, called>>

\* A callback may add its own event again.
Add(m, e, time) ==
    /\ \A n \in Modules : e \notin pending[n]
    /\ time \in now..Horizon
    /\ due' = [due EXCEPT ![e] = time]
    /\ pending' = [pending EXCEPT ![m] = @ \cup {e}]
    /\ called' = called \ {e}
    /\ UNCHANGED now

Dispatch(m, e) ==
    /\ e \in pending[m]
    /\ due[e] <= now
    /\ \A f \in pending[m] : due[e] <= due[f]
    /\ pending' = [pending EXCEPT ![m] = @ \ {e}]
    /\ called' = called \cup {e}
    /\ UNCHANGED <<now, due>>

Done(e) == e \in called /\ called' = called \ {e} /\ UNCHANGED <<now, due, pending>>

Next ==
    \/ Tick
    \/ \E m \in Modules, e \in Events : Dispatch(m, e)
    \/ \E m \in Modules, e \in Events, time \in 0..Horizon : Add(m, e, time)
    \/ \E e \in Events : Done(e)

Spec == Init /\ [][Next]_vars
=============================================================================
