---------------------------- MODULE FMNCManager ----------------------------
(***************************************************************************)
(* fmnc/fmnc_manager.cc with fmnc_connection*.cc and the sending side of   *)
(* fmnc_test_sequence.cc: a server that answers TCP handshakes itself and  *)
(* measures a client by a timed sequence of slices.                        *)
(*                                                                         *)
(* Three threads share the connections.  The inbound thread looks up the   *)
(* packet's connection, unlocks the list and then handles the packet.  The *)
(* timer thread (callbacks exclude each other, see TimerManager) starts    *)
(* the sequence, sends slice after slice, sends the FIN, finishes a        *)
(* measured connection and purges those that saw no packet for Age.  The   *)
(* clean thread writes the reports.                                        *)
(*                                                                         *)
(* Time is relative: a connection's idle time grows and a timer's          *)
(* remaining time shrinks as it passes.                                    *)
(***************************************************************************)
EXTENDS Naturals, FiniteSets, SequencesExt

CONSTANTS
    Clients,      \* the tuples of addresses and ports packets come from
    Slots,        \* the addresses operator new can return for a connection
    MaxSessions,  \* bound on the connections ever accepted
    MaxTimers,    \* bound on the timer events pending when a packet arrives
    Age,          \* m_nOld_Connection
    Interval,     \* m_nInterval_Cleanup
    Delays,       \* the time m_nDelay_Initial or m_nDelay_SendFIN may take
    Lengths,      \* how many slices a test sequence has
    MaxSpan,      \* how long a sequence may take from its first slice to its last
    MaxFinAck,    \* FMNC_MAX_NUM_FIN_ACK
    MaxStall,     \* how long check_port_traffic may hold up a connection's timers
    MaxLag,       \* how old a packet may be when it has been handled
    LateClients,  \* may a client send to a connection that is due for purging?
    NoConn

ASSUME ParameterAssumption ==
    /\ Age \in Nat \ {0} /\ Interval \in Nat \ {0} /\ MaxFinAck \in Nat \ {0}
    /\ Delays \subseteq Nat /\ Delays # {} /\ Lengths \subseteq Nat
    /\ MaxSpan \in Nat /\ MaxStall \in Nat
    /\ MaxLag \in Nat /\ MaxLag < Age
    /\ MaxSessions \in Nat /\ MaxTimers \in Nat
    /\ LateClients \in BOOLEAN /\ NoConn \notin Slots

VARIABLES
    conn,         \* what the memory at each address holds
    connections,  \* m_Connections
    old,          \* m_OldConnections
    sessionID,    \* m_lSessionID
    timers,       \* the manager's aggregator, sorted by remaining time
    dispatcher,   \* the timer thread
    inbound,      \* the thread that processes packets of the WAN tap
    queue,        \* m_CleanQueue
    files         \* the reports on disk

vars == <<conn, connections, old, sessionID, timers, dispatcher, inbound, queue, files>>

States == <<"none", "synack", "waitdata", "active", "waiting", "waiting_fin_ack">>
Rank(state) == CHOOSE i \in DOMAIN States : States[i] = state

\* All but "syn" and "rst" carry ACK; "data" has PSH.
Kinds == {"syn", "ack", "data", "fin", "rst"}

Timer(id, s, left) == [id |-> id, data |-> s, left |-> left]
Timers == [id : {"start", "slice", "fin", "finish", "cleanup"},
           data : Slots \cup {NoConn}, left : Nat]

\* length and next are the test sequence's; rcvd counts m_Received up to the
\* two that the analysis asks for; fins is m_nFINACKcounter up to its limit.
\* wait bounds the gaps between the slices to come, and held is how long timers
\* of the connection have been held up since it was used.
Connections ==
    [live : BOOLEAN, client : Clients \cup {NoConn}, session : 0..MaxSessions,
     state : ToSet(States), idle : 0..Age, length : Nat, next : Nat,
     rcvd : 0..2, fins : 0..MaxFinAck,
     wait : 0..MaxSpan, held : 0..MaxStall]

Blank == [live |-> FALSE, client |-> NoConn, session |-> 0, state |-> "none", idle |-> 0,
          length |-> 0, next |-> 0, rcvd |-> 0, fins |-> 0, wait |-> 0, held |-> 0]

Idle == [pc |-> "idle", event |-> Timer("cleanup", NoConn, 0)]
NoPacket == [pc |-> "idle", conn |-> NoConn, kind |-> "ack", age |-> 0]

TypeOK ==
    /\ conn \in [Slots -> Connections]
    /\ connections \in Seq(Slots) /\ old \in Seq(Slots)
    /\ sessionID \in 0..MaxSessions
    /\ timers \in Seq(Timers)
    /\ dispatcher \in [pc : {"idle", "traffic", "purge", "stuck"}, event : Timers]
    /\ inbound \in [pc : {"idle", "found"}, conn : Slots \cup {NoConn}, kind : Kinds,
                    age : 0..MaxLag]
    /\ queue \in Seq(0..MaxSessions) /\ files \subseteq 0..MaxSessions

\* initialize, which arms the cleanup timer.
Init ==
    /\ conn = [s \in Slots |-> Blank]
    /\ connections = <<>> /\ old = <<>>
    /\ sessionID = 0
    /\ timers = <<Timer("cleanup", NoConn, Interval)>>
    /\ dispatcher = Idle
    /\ inbound = NoPacket
    /\ queue = <<>> /\ files = {}

-----------------------------------------------------------------------------
(* Timer events.                                                           *)

\* addTimerEvent, as TimerManager's Insert.
Insert(events, e) ==
    LET later == {i \in DOMAIN events : events[i].left > e.left}
        at == IF later = {} THEN Len(events) + 1 ELSE Min(later)
    IN  InsertAt(events, at, e)

\* The FINISH timer is given an interval and is not armed.  Its time is the one
\* the recycled event had before, which is past: it goes before, between or
\* after the other expired ones.
InsertUnarmed(events, e) ==
    {InsertAt(events, i, e) :
        i \in {k \in 1..Len(events) + 1 : \A m \in 1..k - 1 : events[m].left = 0}}

-----------------------------------------------------------------------------
(* The inbound thread.                                                     *)

Matches(c) == {i \in DOMAIN connections : conn[connections[i]].client = c}

\* handleTCP of a SYN that belongs to no connection, with respondToSYN.
Accept(c) ==
    /\ inbound.pc = "idle"
    /\ Matches(c) = {}
    /\ sessionID < MaxSessions
    /\ \E s \in {x \in Slots : ~conn[x].live} :
          /\ conn' = [conn EXCEPT ![s] = [Blank EXCEPT !.live = TRUE, !.client = c,
                                              !.session = sessionID, !.state = "synack"]]
          /\ connections' = Append(connections, s)
    /\ sessionID' = sessionID + 1
    /\ UNCHANGED <<old, timers, dispatcher, inbound, queue, files>>

\* findConnection returns the first match and unlocks the list.
FindConnection(c, kind) ==
    /\ inbound.pc = "idle"
    /\ Len(timers) < MaxTimers
    /\ \E i \in Matches(c) :
          /\ \A k \in Matches(c) : i <= k
          /\ ~LateClients => conn[connections[i]].idle + MaxLag < Age
          /\ inbound' = [pc |-> "found", conn |-> connections[i], kind |-> kind, age |-> 0]
    /\ UNCHANGED <<conn, connections, old, sessionID, timers, dispatcher, queue, files>>

\* Slip: packets do not mark the connection as used.
Unmarked(r) == r

\* setTime_LastUsed: the packet's arrival, not the moment it is handled.
Marked(r) == [r EXCEPT !.idle = inbound.age, !.held = 0]

\* Slip: a packet after the last slice makes the connection active again.
MeasuredActive(r, kind) ==
    [r EXCEPT !.rcvd = IF kind = "data" \/ @ = 2 THEN @ ELSE @ + 1,
              !.state = IF @ = "waiting" THEN "active" ELSE @]

\* A received packet is measured, one with PSH as part of the setup.
Measured(r, kind) == [r EXCEPT !.rcvd = IF kind = "data" \/ @ = 2 THEN @ ELSE @ + 1]

\* Slip: the timer of the sequence is set up and the state is left.
FirstDataStays(r) == r

\* respondToData and what follows: any packet in this state, data or not.
FirstData(r) == [r EXCEPT !.state = "active"]

\* A FIN is answered and measured as part of the setup, up to the limit.
FinAck(r, kind) ==
    LET n == IF r.fins = MaxFinAck THEN MaxFinAck ELSE r.fins + 1
    IN  [IF kind = "fin" /\ n < MaxFinAck THEN r ELSE Measured(r, kind) EXCEPT !.fins = n]

\* The switch on the connection's state; a packet without ACK ends no handshake.
Handled(r, kind) ==
    CASE r.state = "synack" -> IF kind = "rst" THEN r ELSE [r EXCEPT !.state = "waitdata"]
      [] r.state = "waitdata" -> FirstData(r)
      [] r.state \in {"active", "waiting"} -> Measured(r, kind)
      [] r.state = "waiting_fin_ack" -> FinAck(r, kind)
      [] r.state = "none" -> r

\* The timers it may leave behind.
WithTimer(s, state) ==
    CASE state = "waitdata" -> {Insert(timers, Timer("start", s, d)) : d \in Delays}
      [] state = "waiting_fin_ack" -> InsertUnarmed(timers, Timer("finish", s, 0))
      [] OTHER -> {timers}

\* handleTCP_Existing; a SYN only marks the connection.  It has no lock: the
\* connection may have been deleted since it was found, and then this is what
\* becomes of the memory left, if the process does not die of it.
HandleExisting ==
    LET s == inbound.conn
        r == Marked(conn[s])
    IN
    /\ inbound.pc = "found"
    /\ inbound' = NoPacket
    /\ IF inbound.kind = "syn"
       THEN conn' = [conn EXCEPT ![s] = r] /\ UNCHANGED timers
       ELSE /\ conn' = [conn EXCEPT ![s] = Handled(r, inbound.kind)]
            /\ timers' \in WithTimer(s, r.state)
    /\ UNCHANGED <<connections, old, sessionID, dispatcher, queue, files>>

-----------------------------------------------------------------------------
(* The timer thread.                                                       *)

\* popProcessTimer dispatches the front event once it has expired.
Expired == dispatcher.pc = "idle" /\ timers # <<>> /\ Head(timers).left = 0
Fires(id) == Expired /\ Head(timers).id = id

\* doTimer_StartSlicing up to check_port_traffic.
StartSlicing ==
    LET s == Head(timers).data IN
    /\ Fires("start")
    /\ timers' = Tail(timers)
    /\ \E n \in Lengths :
          conn' = [conn EXCEPT ![s].length = n, ![s].next = 0, ![s].wait = MaxSpan,
                               ![s].state = "active"]
    /\ dispatcher' = [pc |-> "traffic", event |-> Head(timers)]
    /\ UNCHANGED <<connections, old, sessionID, inbound, queue, files>>

TrafficEnds ==
    /\ dispatcher.pc = "traffic"
    /\ timers' = Insert(timers, Timer("slice", dispatcher.event.data, 0))
    /\ dispatcher' = Idle
    /\ UNCHANGED <<conn, connections, old, sessionID, inbound, queue, files>>

\* Analysis needs two packets sent and two received.
Analysed(s) == conn[s].next >= 2 /\ conn[s].rcvd >= 2

\* Slip: the sequence counts as done one slice late.
SliceOffByOne ==
    LET s == Head(timers).data
        r == conn[s] IN
    /\ Fires("slice")
    /\ r.live
    /\ r.next < r.length
    /\ \E gap \in 0..r.wait :
          /\ conn' = [conn EXCEPT ![s].next = r.next + 1, ![s].wait = @ - gap]
          /\ timers' = Insert(Tail(timers), Timer("slice", s, gap))
    /\ UNCHANGED <<connections, old, sessionID, dispatcher, inbound, queue, files>>

\* doTimer_Slicing: the next slice, then its successor after the gap that this
\* slice asks for, or the timer of the FIN.  The destructor takes the reference
\* packet, and without one the callbacks of a sequence return at once.
Slice ==
    LET s == Head(timers).data
        r == conn[s]
        n == r.next + 1
    IN
    /\ Fires("slice")
    /\ \/ /\ r.live /\ n < r.length
          /\ \E gap \in 0..r.wait :
                /\ conn' = [conn EXCEPT ![s].next = n, ![s].wait = @ - gap]
                /\ timers' = Insert(Tail(timers), Timer("slice", s, gap))
       \/ /\ r.live /\ n = r.length
          /\ conn' = [conn EXCEPT ![s].next = n, ![s].wait = 0, ![s].state = "waiting"]
          /\ \E d \in Delays : timers' = Insert(Tail(timers), Timer("fin", s, d))
       \/ ~r.live /\ timers' = Tail(timers) /\ UNCHANGED conn
    /\ UNCHANGED <<connections, old, sessionID, dispatcher, inbound, queue, files>>

\* populatePacketWithNextSend with nothing to send returns with the sequence
\* locked; isDone, a few lines on, locks it again.
SliceOfNothing ==
    LET r == conn[Head(timers).data] IN
    /\ Fires("slice")
    /\ r.live
    /\ r.next >= r.length
    /\ timers' = Tail(timers)
    /\ dispatcher' = [pc |-> "stuck", event |-> Head(timers)]
    /\ UNCHANGED <<conn, connections, old, sessionID, inbound, queue, files>>

\* doTimer_SendFIN.
SendFIN ==
    LET s == Head(timers).data IN
    /\ Fires("fin")
    /\ timers' = Tail(timers)
    /\ conn' = [conn EXCEPT ![s].state = IF conn[s].live THEN "waiting_fin_ack" ELSE @]
    /\ UNCHANGED <<connections, old, sessionID, dispatcher, inbound, queue, files>>

\* The members of a list that are in S, in the order of the list.
Sublist(list, S) ==
    LET at == {i \in DOMAIN list : list[i] \in S}
    IN  [k \in 1..Cardinality(at) |->
            list[CHOOSE i \in at : Cardinality({j \in at : j <= i}) = k]]

\* Slip: a report whether or not the connection was still listed.
FinishAny ==
    LET s == Head(timers).data IN
    /\ Fires("finish")
    /\ timers' = Tail(timers)
    /\ IF Analysed(s)
       THEN /\ connections' = Sublist(connections, Slots \ {s})
            /\ queue' = Append(queue, conn[s].session)
       ELSE UNCHANGED <<connections, queue>>
    /\ UNCHANGED <<conn, old, sessionID, dispatcher, inbound, files>>

\* doTimer_Finish.  The connection leaves the list and is not deleted.
Finish ==
    LET s == Head(timers).data IN
    /\ Fires("finish")
    /\ timers' = Tail(timers)
    /\ IF Analysed(s) /\ s \in ToSet(connections)
       THEN /\ connections' = Sublist(connections, Slots \ {s})
            /\ queue' = Append(queue, conn[s].session)
       ELSE UNCHANGED <<connections, queue>>
    /\ UNCHANGED <<conn, old, sessionID, dispatcher, inbound, files>>

\* The connections without a packet for the time m_nOld_Connection.
Aged == {s \in Slots : conn[s].idle >= Age}

\* Slip: the old connections are copied to the second list and kept in the first.
CopyOldList ==
    /\ Fires("cleanup")
    /\ timers' = Tail(timers)
    /\ old' = old \o Sublist(connections, Aged)
    /\ dispatcher' = [Idle EXCEPT !.pc = "purge"]
    /\ UNCHANGED <<conn, connections, sessionID, inbound, queue, files>>

\* doTimer_Cleanup up to its loop: populateOldList under the list's mutex.
PopulateOldList ==
    /\ Fires("cleanup")
    /\ timers' = Tail(timers)
    /\ old' = old \o Sublist(connections, Aged)
    /\ connections' = Sublist(connections, Slots \ Aged)
    /\ dispatcher' = [Idle EXCEPT !.pc = "purge"]
    /\ UNCHANGED <<conn, sessionID, inbound, queue, files>>

\* Slip: the clean task keeps the connection and not its report.
PurgeByReference ==
    /\ dispatcher.pc = "purge"
    /\ old # <<>>
    /\ old' = Tail(old)
    /\ queue' = IF Analysed(Head(old)) THEN Append(queue, Head(old)) ELSE queue
    /\ conn' = [conn EXCEPT ![Head(old)].live = FALSE]
    /\ UNCHANGED <<connections, sessionID, timers, dispatcher, inbound, files>>

\* One turn of its loop: popOldEntry, the analysis, the report and delete.
PurgeEntry ==
    /\ dispatcher.pc = "purge"
    /\ old # <<>>
    /\ old' = Tail(old)
    /\ queue' = IF Analysed(Head(old)) THEN Append(queue, conn[Head(old)].session) ELSE queue
    /\ conn' = [conn EXCEPT ![Head(old)].live = FALSE]
    /\ UNCHANGED <<connections, sessionID, timers, dispatcher, inbound, files>>

\* Slip: the cleanup timer is set up once and not again.
LeaveCleanup ==
    /\ dispatcher.pc = "purge"
    /\ old = <<>>
    /\ dispatcher' = Idle
    /\ UNCHANGED <<conn, connections, old, sessionID, timers, inbound, queue, files>>

RearmCleanup ==
    /\ dispatcher.pc = "purge"
    /\ old = <<>>
    /\ timers' = Insert(timers, Timer("cleanup", NoConn, Interval))
    /\ dispatcher' = Idle
    /\ UNCHANGED <<conn, connections, old, sessionID, inbound, queue, files>>

TimerThread ==
    \/ StartSlicing \/ TrafficEnds \/ Slice \/ SliceOfNothing \/ SendFIN
    \/ Finish \/ PopulateOldList \/ PurgeEntry \/ RearmCleanup

-----------------------------------------------------------------------------
(* The clean thread, and time.                                             *)

\* CleanThread::run: remove a task, write its file.
WriteReport ==
    /\ queue # <<>>
    /\ files' = files \cup {Head(queue)}
    /\ queue' = Tail(queue)
    /\ UNCHANGED <<conn, connections, old, sessionID, timers, dispatcher, inbound>>

\* The connections whose timers the wait for cross traffic to end holds up.
HeldUp ==
    IF dispatcher.pc # "traffic" THEN {}
    ELSE Slots \cap ({timers[i].data : i \in DOMAIN timers} \cup {dispatcher.event.data})

\* Threads are prompt on this scale, but for the wait for cross traffic to end.
Tick ==
    /\ ~Expired
    /\ \/ inbound.pc = "idle" /\ UNCHANGED inbound
       \/ /\ inbound.pc = "found"
          /\ inbound.age < MaxLag
          /\ inbound' = [inbound EXCEPT !.age = @ + 1]
    /\ dispatcher.pc \in {"idle", "stuck", "traffic"}
    /\ \A s \in HeldUp : conn[s].held < MaxStall
    /\ conn' = [s \in Slots |-> [conn[s] EXCEPT
          !.idle = IF @ < Age THEN @ + 1 ELSE @,
          !.held = IF s \in HeldUp THEN @ + 1 ELSE @]]
    /\ timers' = [i \in DOMAIN timers |->
                     [timers[i] EXCEPT !.left = IF @ = 0 THEN 0 ELSE @ - 1]]
    /\ UNCHANGED <<connections, old, sessionID, dispatcher, queue, files>>

Next ==
    \/ \E c \in Clients : Accept(c)
    \/ \E c \in Clients, kind \in Kinds : FindConnection(c, kind)
    \/ HandleExisting
    \/ TimerThread
    \/ WriteReport
    \/ Tick

Spec == Init /\ [][Next]_vars

\* Threads that can run do, and time passes whatever the clients send.  The
\* FINISH timers that packets keep adding bear times of the past, of which there
\* are only so many before a given one: they do not hold it back for ever.
FairSpec ==
    /\ Spec
    /\ WF_vars(HandleExisting) /\ WF_vars(TimerThread) /\ WF_vars(WriteReport)
    /\ SF_vars(StartSlicing) /\ SF_vars(Slice) /\ SF_vars(SendFIN) /\ SF_vars(PopulateOldList)
    /\ SF_vars(Tick)

-----------------------------------------------------------------------------
(* Properties.                                                             *)

\* A connection on its way to be deleted is found by no packet and purged once,
\* and no client has two that are listed: packets would reach only the first.
ListsDisjoint ==
    /\ IsInjective(connections \o old)
    /\ \A s \in ToSet(connections \o old) : conn[s].live
    /\ \A i, k \in DOMAIN connections :
          conn[connections[i]].client = conn[connections[k]].client => i = k

\* The connection a timer was set up for is there when it fires, as long as a
\* silent client's whole sequence, with its delays, its gaps and the waits for
\* cross traffic, takes less than Age (Timely in FMNCManagerProofs).  A longer
\* sequence outlives its connection unless the client keeps sending.
TimersHaveConnections ==
    \A i \in DOMAIN timers : timers[i].data # NoConn => conn[timers[i].data].live

\* The number of pending callbacks that carry the sequence of s on.
Carriers(s) ==
    Cardinality({i \in DOMAIN timers :
        timers[i].data = s /\ timers[i].id \in {"start", "slice", "fin"}}
      \cup {0 : x \in {s} \cap {dispatcher.event.data}})

\* A measured connection's sequence is carried on by exactly one callback, from
\* the first data until the FIN, whatever else its client sends.
OneCarrier ==
    \A s \in Slots : conn[s].live =>
        Carriers(s) = IF conn[s].state \in {"active", "waiting"} THEN 1 ELSE 0

\* A connection's state never goes back, although two threads set it.
StatesAdvance ==
    [][\A s \in Slots :
          conn[s].live /\ conn'[s].live /\ conn[s].session = conn'[s].session =>
              Rank(conn[s].state) <= Rank(conn'[s].state)]_vars

\* A session is reported once, though each packet after the FIN sets up a FINISH
\* timer of its own and the purge reports as well.
ReportedOnce == IsInjective(queue) /\ ToSet(queue) \cap files = {}

\* A connection that saw no packet for Age leaves the list.
SilentArePurged ==
    \A s \in Slots :
        s \in ToSet(connections) /\ conn[s].idle >= Age ~> s \notin ToSet(connections)

\* A measured connection's sequence is sent to its end, through all its gaps and
\* waits, and the FIN after it, if a sequence takes less than Age: a longer one
\* outlives its connection when the client is silent.
SequenceEnds ==
    \A s \in Slots : conn[s].state = "active" ~> conn[s].state = "waiting_fin_ack"

\* "Do a double check that indeed the connection is valid": the connection that
\* handleTCP_Existing works on has not been deleted.
HandlerHasConnection == inbound.pc = "found" => conn[inbound.conn].live

\* "The local thread will then wait the appropriate amount of time and dispatch
\* callbacks": the timer thread comes back for the next event, for ever.
TimersDispatched == []<>(dispatcher.pc = "idle")
=============================================================================
