--------------------------- MODULE PacketPipeline ---------------------------
(***************************************************************************)
(* The life of a packet between two adapters: pkt/Adapter.cc,              *)
(* pkt/Thread_IO.cc, pkt/IOModule.cc, pkt/MultiIFModule.cc and the stock    *)
(* modules InputPassthrough, InputPurge and OutputWrite.                    *)
(*                                                                         *)
(* Every adapter has a chain of input modules served by its process thread *)
(* and a chain of output modules served by its output thread; a worker is   *)
(* one of these threads.  Each chain has two FIFO queues without limits     *)
(* (PktQueueFIFO as its constructor leaves it): a priority queue for        *)
(* packets that resume after a tap, and a plain one for all others.  A      *)
(* queue operation is one critical section of the queue's mutex, hence one  *)
(* step; so is the visit of one module to a packet.                         *)
(***************************************************************************)
EXTENDS Naturals, FiniteSets, SequencesExt

CONSTANTS
    Adapters,    \* the adapters of the configuration
    Packets,     \* the packets of the global memory pool
    Chain,       \* the modules of each worker's chain, in order
    Kind,        \* what each module does: "look", "tap", "purge", "pass", "write"
    Target,      \* the adapter an InputPassthrough sends to
    NoModule,    \* a null module pointer
    NoPacket     \* a null packet pointer

Workers == Adapters \X {"in", "out"}
Classes == {"priority", "plain"}
Modules == UNION {ToSet(Chain[w]) : w \in Workers}
Taps == {m \in Modules : Kind[m] = "tap"}

\* The worker whose chain a module was appended to (appendInputModule and
\* appendOutputModule set its adapter, extractBaseDOM its direction).
Home(m) == CHOOSE w \in Workers : m \in ToSet(Chain[w])

\* extractBaseDOM creates one module object for each entry of a chain.
ASSUME ChainAssumption ==
    /\ Chain \in [Workers -> Seq(Modules)]
    /\ \A v, w \in Workers : \A i \in DOMAIN Chain[v], j \in DOMAIN Chain[w] :
          Chain[v][i] = Chain[w][j] => v = w /\ i = j
ASSUME KindAssumption ==
    /\ Kind \in [Modules -> {"look", "tap", "purge", "pass", "write"}]
    /\ Target \in [{m \in Modules : Kind[m] = "pass"} -> Adapters]
\* A passthrough serves packets "coming along the input chain"
\* (InputPassthrough.h).
ASSUME PassAssumption ==
    \A w \in Workers : \A m \in ToSet(Chain[w]) : Kind[m] = "pass" => w[2] = "in"
ASSUME NullAssumption == NoModule \notin Modules /\ NoPacket \notin Packets

VARIABLES
    enabled,   \* m_bEnabled of each adapter
    free,      \* the packets in the memory pool
    queue,     \* the two queues of each worker
    worker,    \* each worker's place in its loop and in its chain
    resume,    \* m_pResumeModule of each packet
    kept,      \* the packets a tap's module holds on to, oldest first
    trail,     \* history: the modules that saw a packet since it left the pool
    arrivals   \* history: of the packets in flight that each adapter captured,
               \* which was captured no later than which

vars == <<enabled, free, queue, worker, resume, kept, trail, arrivals>>

Idle == [pc |-> "priority", packet |-> NoPacket, next |-> 1, seeking |-> FALSE]

Init ==
    /\ enabled = [a \in Adapters |-> FALSE]
    /\ free = Packets
    /\ queue = [w \in Workers |-> [c \in Classes |-> <<>>]]
    /\ worker = [w \in Workers |-> Idle]
    /\ resume = [p \in Packets |-> NoModule]
    /\ kept = [t \in Taps |-> <<>>]
    /\ trail = [p \in Packets |-> <<>>]
    /\ arrivals = [a \in Adapters |-> {}]

-----------------------------------------------------------------------------
(* Operations the steps share.                                             *)

\* g_MemPool.releaseObject, with the Packet::clean() it calls.
Release(p) ==
    /\ free' = free \cup {p}
    /\ resume' = [resume EXCEPT ![p] = NoModule]
    /\ trail' = [trail EXCEPT ![p] = <<>>]
    /\ arrivals' = [a \in Adapters |->
          arrivals[a] \cap ((Packets \ {p}) \X (Packets \ {p}))]

\* Slip: a packet to resume is put before those that wait already.
AddFirst(w, p, marker) ==
    queue' = IF marker = NoModule THEN [queue EXCEPT ![w]["plain"] = Append(@, p)]
             ELSE [queue EXCEPT ![w]["priority"] = <<p>> \o @]

\* addInputQueue and addOutputQueue: a packet to resume jumps the plain queue.
AddQueue(w, p, marker) ==
    LET c == IF marker = NoModule THEN "plain" ELSE "priority"
    IN  queue' = [queue EXCEPT ![w][c] = Append(@, p)]

\* The thread returns to the head of its loop.
Finish(w) == worker' = [worker EXCEPT ![w] = Idle]

\* The thread takes the first packet of a queue into its chain.
Take(w, c) ==
    LET p == Head(queue[w][c]) IN
    /\ queue' = [queue EXCEPT ![w][c] = Tail(@)]
    /\ worker' = [worker EXCEPT ![w] =
          [pc |-> "chain", packet |-> p, next |-> 1, seeking |-> resume[p] # NoModule]]

-----------------------------------------------------------------------------
(* Start-up, capture, and the polls of Thread_Process and Thread_Output.   *)

\* main enables the adapters one after the other, when all modules are started.
SetFlagEnabled(a) ==
    /\ ~enabled[a]
    /\ enabled' = [enabled EXCEPT ![a] = TRUE]
    /\ UNCHANGED <<free, queue, worker, resume, kept, trail, arrivals>>

\* The packets in flight that a captured.
Captured(a) == {q \in Packets : <<q, q>> \in arrivals[a]}

\* Thread_Input: libpcap's callback takes a packet from the pool and queues it.
Capture(a, p) ==
    /\ enabled[a]
    /\ p \in free
    /\ free' = free \ {p}
    /\ AddQueue(<<a, "in">>, p, resume[p])
    /\ arrivals' = [arrivals EXCEPT ![a] = @ \cup {<<q, p>> : q \in Captured(a) \cup {p}}]
    /\ UNCHANGED <<enabled, worker, resume, kept, trail>>

\* Slip: the plain queue looked at only while the priority queue is not empty.
PollBusy(w) ==
    /\ worker[w].pc = "priority"
    /\ enabled[w[1]]
    /\ queue[w]["priority"] # <<>>
    /\ Take(w, "priority")
    /\ UNCHANGED <<enabled, free, resume, kept, trail, arrivals>>

PollPriority(w) ==
    /\ worker[w].pc = "priority"
    /\ enabled[w[1]]
    /\ \/ queue[w]["priority"] # <<>> /\ Take(w, "priority")
       \/ /\ queue[w]["priority"] = <<>>
          /\ worker' = [worker EXCEPT ![w].pc = "plain"]
          /\ UNCHANGED queue
    /\ UNCHANGED <<enabled, free, resume, kept, trail, arrivals>>

\* With nothing in either queue the thread yields the processor.
PollPlain(w) ==
    /\ worker[w].pc = "plain"
    /\ \/ queue[w]["plain"] # <<>> /\ Take(w, "plain")
       \/ queue[w]["plain"] = <<>> /\ Finish(w) /\ UNCHANGED queue
    /\ UNCHANGED <<enabled, free, resume, kept, trail, arrivals>>

-----------------------------------------------------------------------------
(* doInputChain and doOutputChain: one module per step.                    *)

AtModule(w) == worker[w].pc = "chain" /\ worker[w].next <= Len(Chain[w])
Module(w) == Chain[w][worker[w].next]

\* Slip: the marker stays in the packet, and another chain looks for it.
SeekAndLeave(w) ==
    /\ AtModule(w)
    /\ worker[w].seeking
    /\ worker' = [worker EXCEPT ![w].next = @ + 1,
                                ![w].seeking = Module(w) # resume[worker[w].packet]]
    /\ UNCHANGED <<enabled, free, queue, resume, kept, trail, arrivals>>

\* The loop passes over the modules up to the one the packet resumes after.
Seek(w) ==
    LET p == worker[w].packet
        found == Module(w) = resume[p] IN
    /\ AtModule(w)
    /\ worker[w].seeking
    /\ worker' = [worker EXCEPT ![w].next = @ + 1, ![w].seeking = ~found]
    /\ resume' = IF found THEN [resume EXCEPT ![p] = NoModule] ELSE resume
    /\ UNCHANGED <<enabled, free, queue, kept, trail, arrivals>>

\* The packet is offered to the module, which is of one of these kinds.
Offer(w, kinds) ==
    AtModule(w) /\ ~worker[w].seeking /\ Kind[Module(w)] \in kinds

Visit(w, stays) ==
    trail' = [trail EXCEPT ![worker[w].packet] =
                 Append(@, [module |-> Module(w), stays |-> stays])]

\* The filter does not match, or processPacket returns 0.
PassBy(w) ==
    /\ Offer(w, {"look", "tap", "purge", "pass", "write"})
    /\ worker' = [worker EXCEPT ![w].next = @ + 1]
    /\ Visit(w, FALSE)
    /\ UNCHANGED <<enabled, free, queue, resume, kept, arrivals>>

\* InputPurge's purgePacket, OutputWrite, or a tap's module that gobbles it.
Consume(w) ==
    /\ Offer(w, {"purge", "write", "tap"})
    /\ Release(worker[w].packet)
    /\ Finish(w)
    /\ UNCHANGED <<enabled, queue, kept>>

\* Slip: the packet is moved and processPacket answers 0.
PassthroughAndGoOn(w) ==
    LET p == worker[w].packet IN
    /\ Offer(w, {"pass"})
    /\ AddQueue(<<Target[Module(w)], "out">>, p, resume[p])
    /\ Visit(w, FALSE)
    /\ worker' = [worker EXCEPT ![w].next = @ + 1]
    /\ UNCHANGED <<enabled, free, resume, kept, arrivals>>

\* InputPassthrough moves the packet to the output side of its target.
Passthrough(w) ==
    LET p == worker[w].packet IN
    /\ Offer(w, {"pass"})
    /\ AddQueue(<<Target[Module(w)], "out">>, p, resume[p])
    /\ Visit(w, FALSE)
    /\ Finish(w)
    /\ UNCHANGED <<enabled, free, resume, kept, arrivals>>

\* A tap's module answers "consumed" and queues the packet, as a shaped host
\* of RIPPS does.
Keep(w) ==
    /\ Offer(w, {"tap"})
    /\ kept' = [kept EXCEPT ![Module(w)] = Append(@, worker[w].packet)]
    /\ Visit(w, TRUE)
    /\ Finish(w)
    /\ UNCHANGED <<enabled, free, queue, resume, arrivals>>

\* The chain returned 0: nobody wanted the packet.
ChainEnd(w) ==
    /\ worker[w].pc = "chain"
    /\ worker[w].next > Len(Chain[w])
    /\ Release(worker[w].packet)
    /\ Finish(w)
    /\ UNCHANGED <<enabled, queue, kept>>

-----------------------------------------------------------------------------
(* What a tap's module does outside the chains, on the timer's thread.     *)

\* resumePostTap: the oldest kept packet goes on with the module after the tap.
\* Marking and queueing are one step, for nothing else has the packet.
ResumePostTap(t) ==
    LET p == Head(kept[t]) IN
    /\ kept[t] # <<>>
    /\ kept' = [kept EXCEPT ![t] = Tail(@)]
    /\ resume' = [resume EXCEPT ![p] = t]
    /\ AddQueue(Home(t), p, t)
    /\ UNCHANGED <<enabled, free, worker, trail, arrivals>>

\* writeBackViaTap: a new packet starts on the output side of the tap's adapter.
WriteBackViaTap(t, p) ==
    /\ enabled[Home(t)[1]]
    /\ p \in free
    /\ free' = free \ {p}
    /\ AddQueue(<<Home(t)[1], "out">>, p, resume[p])
    /\ UNCHANGED <<enabled, worker, resume, kept, trail, arrivals>>

Work(w) ==
    \/ PollPriority(w) \/ PollPlain(w)
    \/ Seek(w) \/ PassBy(w) \/ Consume(w) \/ Passthrough(w) \/ Keep(w) \/ ChainEnd(w)

Next ==
    \/ \E a \in Adapters : SetFlagEnabled(a)
    \/ \E a \in Adapters, p \in Packets : Capture(a, p)
    \/ \E w \in Workers : Work(w)
    \/ \E t \in Taps : ResumePostTap(t)
    \/ \E t \in Taps, p \in Packets : WriteBackViaTap(t, p)

Spec == Init /\ [][Next]_vars

\* Threads that are ready to run do; main enables every adapter; a tap's module
\* has a timer for each packet it keeps.
Fairness ==
    /\ \A a \in Adapters : WF_vars(SetFlagEnabled(a))
    /\ \A w \in Workers : WF_vars(Work(w))
    /\ \A t \in Taps : WF_vars(ResumePostTap(t))

FairSpec == Spec /\ Fairness

-----------------------------------------------------------------------------
(* Properties.                                                             *)

\* Where a packet is: in the pool, at a position of a queue, in a worker's
\* hands, or at a position among the packets a tap's module keeps.
InQueues(p) ==
    UNION {{<<x, i>> : i \in {j \in DOMAIN queue[x[1]][x[2]] : queue[x[1]][x[2]][j] = p}} :
              x \in Workers \X Classes}

InHands(p) == {w \in Workers : worker[w].packet = p}

InTaps(p) == UNION {{<<t, i>> : i \in {j \in DOMAIN kept[t] : kept[t][j] = p}} : t \in Taps}

Whereabouts(p) == {"pool" : x \in {p} \cap free} \cup InQueues(p) \cup InHands(p) \cup InTaps(p)

\* A packet is always in exactly one place: no module, queue or thread still
\* has it when it is back in the pool, and no path out of a chain forgets it.
OnePlace == \A p \in Packets : Cardinality(Whereabouts(p)) = 1

\* The modules that saw a packet before the i-th visit of its trail.
SeenBefore(p, i) == {trail[p][j].module : j \in 1..(i - 1)}

\* When a packet is offered to the k-th module of a chain, just the k - 1 before
\* it have seen it.
VisitedInOrder ==
    \A w \in Workers, p \in Packets : \A i \in DOMAIN trail[p], k \in DOMAIN Chain[w] :
        trail[p][i].module = Chain[w][k] =>
            SeenBefore(p, i) \cap ToSet(Chain[w]) = {Chain[w][l] : l \in 1..(k - 1)}

\* However often a packet leaves a chain at a tap and comes back, the modules
\* of that chain see it in the configured order, none twice and none left out;
\* and one that leaves a chain at its end was offered to all of it, so no marker
\* of an earlier stop is still looked for.
SeenInOrder ==
    /\ VisitedInOrder
    /\ \A w \in Workers :
          worker[w].pc = "chain" /\ worker[w].next > Len(Chain[w]) =>
              ToSet(Chain[w]) \subseteq
                  {trail[worker[w].packet][i].module : i \in DOMAIN trail[worker[w].packet]}

\* The taps whose modules kept a packet for a while.
StoppedAt(p) == {trail[p][i].module : i \in {j \in DOMAIN trail[p] : trail[p][j].stays}}

Hands(w) == IF worker[w].packet = NoPacket THEN <<>> ELSE <<worker[w].packet>>

\* All packets between capture at a and the wire of b, the most advanced first,
\* among them those that the module of tap t keeps.
Road(a, b, t) ==
    LET i == <<a, "in">>
        o == <<b, "out">>
        Stop(w) == IF t \in ToSet(Chain[w]) THEN kept[t] ELSE <<>>
    IN  <<Hands(o), queue[o]["priority"], Stop(o), queue[o]["plain"],
          Hands(i), queue[i]["priority"], Stop(i), queue[i]["plain"]>>

\* Two packets one adapter captured that stopped at the same taps never change
\* places on their way through the two chains.
NoOvertaking ==
    \A a, b \in Adapters, t \in Taps \cup {NoModule} : \A p, q \in Packets :
        LET road == Road(a, b, t)
        IN  <<p, q>> \in arrivals[a] /\ p # q /\ StoppedAt(p) = StoppedAt(q) =>
                \A x, y \in DOMAIN road : \A k \in DOMAIN road[x], l \in DOMAIN road[y] :
                    road[x][k] = p /\ road[y][l] = q => x < y \/ (x = y /\ k < l)

\* Every packet that leaves the pool comes back, though priority packets are
\* always served first and taps hold packets back.
EveryPacketComesBack == \A p \in Packets : p \notin free ~> p \in free
=============================================================================
