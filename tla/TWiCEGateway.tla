---------------------------- MODULE TWiCEGateway ----------------------------
(***************************************************************************)
(* TWiCE: every long packet from the WAN is cloned into a packet pool and   *)
(* searched, window by window, for content seen before; windows that are    *)
(* not in the cache table yet may become entries of it, which refer to the  *)
(* clone (TWiCE_Gateway, TWiCE_CacheTable, TWiCE_PacketPool).               *)
(*                                                                         *)
(* The search of a packet is a step per window: another packet is taken     *)
(* only when it is done.  Packets are their payloads; bytes are 0 and 1.    *)
(* Pool entries are known by their address, which the allocator may hand    *)
(* out again once an entry is deleted.                                      *)
(***************************************************************************)
EXTENDS Integers, Sequences, SequencesExt, FiniteSets

CONSTANTS
    Payloads,       \* the packets that arrive
    Addresses,      \* where pool entries may be allocated
    Window,         \* m_nWindowSize
    TableSize,      \* m_nMaxTableSize
    IGap, PGap,     \* Window / RATIO_I_FRAME and Window / RATIO_P_FRAME
    IExpiry, PExpiry, BExpiry, HitAdjust,    \* in ticks of the clock
    MinSize,        \* m_nMinPktSizeTryCache
    MaxTime,        \* bound: the clock
    None

(* A TWiCECacheEntry without its list pointers, and the search of a packet. *)
Entry == [value : {0, 1}, offset : Nat, at : Addresses, expiry : Nat, hits : Nat]
Search == [in : Payloads, at : Addresses, offset : Nat, dist : Nat, left : Nat]

ASSUME TWiCEAssumption ==
    /\ Payloads \subseteq Seq({0, 1})
    /\ None \notin Payloads \cup Entry \cup Search
    /\ {Window, TableSize, IGap, PGap} \subseteq Nat \ {0}
    /\ {IExpiry, PExpiry, BExpiry, HitAdjust, MinSize, MaxTime} \subseteq Nat

VARIABLES
    pool,           \* [Addresses]: the entries on m_pEntries, or None
    refs,           \* [Addresses]: m_nRefs, of deleted entries too
    table,          \* m_ppEntries
    entries,        \* m_nEntries
    search,         \* tryWirelessPacketCache and attemptFindHit, or None
    clock,          \* the arrival time of the packets
    crashed         \* the program died of a pointer to a deleted entry

vars == <<pool, refs, table, entries, search, clock, crashed>>

Slots == 0..(TableSize - 1)
Init ==
    /\ pool = [a \in Addresses |-> None]
    /\ refs = [a \in Addresses |-> 0]
    /\ table = [s \in Slots |-> None]
    /\ entries = 0 /\ search = None /\ clock = 0 /\ crashed = FALSE

-----------------------------------------------------------------------------
(* computeChecksum_XOR: of bits it is the parity. *)
Checksum(w) == Cardinality({i \in DOMAIN w : w[i] = 1}) % 2

WindowOf(p, i) == SubSeq(p, i + 1, i + Window)

Expiry(dist) ==
    IF dist % IGap = 0 THEN IExpiry
    ELSE IF (dist % IGap) % PGap = 0 THEN PExpiry
    ELSE BExpiry

(* attemptFindHit from an offset on, when there is a window at all.         *)
Begin(p, a, offset) ==
    IF Len(p) - offset < Window THEN None
    ELSE [in |-> p, at |-> a, offset |-> offset, dist |-> 0,
          left |-> Len(p) - offset - Window]

(* Slips: the bytes left are not counted down; the last window is looked at *)
(* again and again.                                                         *)
MoveOnUncounted(n) == [search EXCEPT !.dist = @ + n]

MoveOnNever(n) ==
    IF search.left < n THEN search ELSE [search EXCEPT !.dist = @ + n, !.left = @ - n]

(* The next window, or the end of the search.                               *)
MoveOn(n) ==
    IF search.left < n THEN None
    ELSE [search EXCEPT !.dist = @ + n, !.left = @ - n]

-----------------------------------------------------------------------------
(* The packet pool: an entry for a clone, and what becomes of an entry that *)
(* gives a reference back.                                                  *)
CreateCloneInPool(p, a) ==
    /\ pool[a] = None
    /\ pool' = [pool EXCEPT ![a] = p]
    /\ refs' = [refs EXCEPT ![a] = 0]

Purged(a) == IF refs[a] <= 1 THEN [pool EXCEPT ![a] = None] ELSE pool

(* processPacket_WAN. *)
Arrive(p) ==
    /\ search = None /\ ~crashed
    /\ Len(p) >= MinSize
    /\ \E a \in Addresses : CreateCloneInPool(p, a) /\ search' = Begin(p, a, 0)
    /\ UNCHANGED <<table, entries, clock, crashed>>

NewEntry(v) ==
    [value |-> v, offset |-> search.offset + search.dist, at |-> search.at,
     expiry |-> clock + Expiry(search.dist), hits |-> 0]

(* removeCacheEntry takes the reference from the pool entry of the packet   *)
(* at hand, and purges that one when it has no more references; the new     *)
(* entry then refers to it all the same.                                    *)
Replace(s, v) ==
    /\ pool' = Purged(search.at)
    /\ table' = [table EXCEPT ![s] = NewEntry(v)]
    /\ UNCHANGED <<refs, entries>>

Create(s, v) ==
    /\ table' = [table EXCEPT ![s] = NewEntry(v)]
    /\ entries' = entries + 1
    /\ refs' = [refs EXCEPT ![search.at] = @ + 1]
    /\ UNCHANGED pool

(* Slip: an entry is replaced in the tick it expires in.                    *)
ConsiderCacheSooner(s, v) ==
    IF table[s] = None THEN Create(s, v)
    ELSE IF table[s].expiry <= clock THEN Replace(s, v)
    ELSE UNCHANGED <<pool, refs, table, entries>>

(* considerCacheWithMode. *)
ConsiderCache(s, v) ==
    IF table[s] = None THEN Create(s, v)
    ELSE IF table[s].expiry < clock THEN Replace(s, v)
    ELSE UNCHANGED <<pool, refs, table, entries>>

(* The table has an entry for the checksum of the window.                   *)
Found == table[Checksum(WindowOf(search.in, search.offset + search.dist)) % TableSize]

IsFound ==
    /\ search # None /\ ~crashed /\ Found # None
    /\ Found.value = Checksum(WindowOf(search.in, search.offset + search.dist))

(* The content is the same too (memcmp).                                    *)
IsMatch ==
    /\ IsFound /\ pool[Found.at] # None
    /\ WindowOf(pool[Found.at], Found.offset)
        = WindowOf(search.in, search.offset + search.dist)

(* One turn of attemptFindHit's loop that finds no hit.                     *)
Miss ==
    LET v == Checksum(WindowOf(search.in, search.offset + search.dist))
    IN /\ search # None /\ ~crashed
       /\ ~IsMatch
       /\ ConsiderCache(v % TableSize, v)
       /\ search' = MoveOn(1)
       /\ UNCHANGED <<clock, crashed>>

(* A match in the packet itself: its own entry, or a repetition.            *)
IntraHit ==
    /\ IsMatch /\ Found.at = search.at
    /\ search' = MoveOn(IF Found.offset = search.offset + search.dist THEN 1 ELSE Window)
    /\ UNCHANGED <<pool, refs, table, entries, clock, crashed>>

(* findRightBound: how far the match may go on, by the lengths it compares, *)
(* and how far it is known to; past the end of the pooled packet lies what  *)
(* its buffer held before.                                                  *)
RightBounds(p, q, i, j) ==
    LET limit == Min({Len(p) - i - Window, Len(q) - j})
        Same(n) == \A k \in 1..n : j + Window + k <= Len(q)
                                   => p[i + Window + k] = q[j + Window + k]
        Differs(n) == n = limit \/ j + Window + n + 1 > Len(q)
                      \/ p[i + Window + n + 1] # q[j + Window + n + 1]
    IN {Window + n : n \in {m \in 0..limit : Same(m) /\ Differs(m)}}

(* tryWirelessPacketCache calls itself for what follows the match.          *)
SearchOn(i, width) ==
    IF Len(search.in) - i - width >= MinSize
    THEN Begin(search.in, search.at, i + width) ELSE None

(* A match with another packet: its entry lives longer, and the rest of the *)
(* packet is searched from the end of the match on.                         *)
Hit ==
    LET i == search.offset + search.dist
        s == Found.value % TableSize
    IN /\ IsMatch /\ Found.at # search.at
       /\ table' = [table EXCEPT ![s].expiry = @ + HitAdjust, ![s].hits = @ + 1]
       /\ \E width \in RightBounds(search.in, pool[Found.at], i, Found.offset) :
             search' = SearchOn(i, width)
       /\ UNCHANGED <<pool, refs, entries, clock, crashed>>

(* The entry found refers to a pool entry that is deleted, or the packet's  *)
(* own was: its memory has a NULL packet, or is in use for something else,  *)
(* and then the comparison fails (Miss).                                    *)
Crash ==
    /\ search # None /\ ~crashed
    /\ pool[search.at] = None \/ (IsFound /\ pool[Found.at] = None)
    /\ crashed' = TRUE
    /\ UNCHANGED <<pool, refs, table, entries, search, clock>>

Tick ==
    /\ clock < MaxTime /\ search = None /\ ~crashed
    /\ clock' = clock + 1
    /\ UNCHANGED <<pool, refs, table, entries, search, crashed>>

Next ==
    \/ \E p \in Payloads : Arrive(p)
    \/ Miss \/ IntraHit \/ Hit \/ Crash \/ Tick

Spec == Init /\ [][Next]_vars
FairSpec == Spec /\ WF_vars(Miss \/ IntraHit \/ Hit \/ Crash)

-----------------------------------------------------------------------------
(* The window looked at, and what is left to look at, end with the packet,  *)
(* after hits and matches within the packet too (attemptFindHit).           *)
WindowInsidePacket ==
    search # None =>
        /\ search.left >= 0
        /\ search.offset + search.dist + Window + search.left = Len(search.in)

(* The search of a packet comes to an end, unless the program does.         *)
SearchEnds == (search # None) ~> (search = None \/ crashed)

Dangling == {s \in Slots : table[s] # None /\ pool[table[s].at] = None}

(* What the entries of the table refer to is in the pool, until an expired  *)
(* entry is replaced: removeCacheEntry takes the reference from the wrong   *)
(* packet, whose pool entry may go while the new entry refers to it.        *)
ReplacementAloneDangles ==
    [][Dangling = {} /\ Dangling' # {} =>
          \E s \in Slots : /\ table[s] # None /\ table[s].expiry < clock
                          /\ table'[s] # table[s]]_vars
=============================================================================
