------------------------- MODULE AdapterFileProofs -------------------------
(***************************************************************************)
(* Theorems about AdapterFile, for any files, any backlog and any bound.   *)
(***************************************************************************)
EXTENDS AdapterFile, SequenceTheorems, TLAPS

Records == [t : Nat, fits : BOOLEAN]

Typed ==
    /\ align \in BOOLEAN
    /\ fileNames \in Seq(Names) /\ played \in Seq(Names)
    /\ index \in Nat
    /\ playbackDone \in BOOLEAN /\ cleared \in BOOLEAN /\ garbled \in BOOLEAN
    /\ rest \in Seq(Records)
    /\ adjust \in Nat /\ accumulated \in Int /\ last \in Int
    /\ backlog \in Nat
    /\ reader \in {"top", "waiting", "ended", "opening"}
    /\ console \in {"idle", "starting", "opened"}

\* Who may touch the stream, and when it is closed.
Turns ==
    /\ playbackDone => reader = "top"
    /\ console # "idle" => playbackDone
    /\ reader \in {"ended", "opening"} => rest = <<>>
    /\ playbackDone /\ console # "opened" => rest = <<>>

\* All that is left of the open file lies behind the last packet queued.
Stamps ==
    /\ ~align => adjust = 0
    /\ ~garbled =>
          /\ Ascends(rest)
          /\ \A i \in DOMAIN rest : adjust <= rest[i].t
          /\ \A i \in DOMAIN rest : last <= rest[i].t - adjust + accumulated
          /\ rest = <<>> => last <= accumulated

\* The files opened are the first n of the list.
Opened(n) ==
    /\ n <= Len(fileNames)
    /\ Len(played) = n
    /\ \A i \in 1..n : played[i] = fileNames[i]

Files ==
    ~cleared =>
        /\ reader \in {"ended", "opening"} => Opened(index)
        /\ console = "starting" => index = 0 /\ Opened(0)
        /\ rest # <<>> => Opened(index + 1)

-----------------------------------------------------------------------------
(* Types.                                                                  *)

LEMMA ContentType == \A f \in Names : Content[f] \in Seq(Records) /\ Ascends(Content[f])
BY PlaybackAssumption DEF Records

\* The places of a sequence of records.
LEMMA RecordAt ==
    ASSUME NEW s \in Seq(Records)
    PROVE  /\ Len(s) \in Nat /\ DOMAIN s = 1..Len(s)
           /\ \A i \in DOMAIN s :
                 /\ i \in Nat /\ 1 <= i /\ i <= Len(s) /\ 1 \in DOMAIN s
                 /\ s[i].t \in Nat
           /\ s # <<>> => 1 \in DOMAIN s
<1>1. Len(s) \in Nat /\ DOMAIN s = 1..Len(s)
  BY LenProperties
<1>2. ASSUME NEW i \in DOMAIN s
      PROVE  /\ i \in Nat /\ 1 <= i /\ i <= Len(s) /\ 1 \in DOMAIN s
             /\ s[i].t \in Nat
  <2>1. s[i] \in Records
    BY <1>1, ElementOfSeq
  <2> QED BY <1>1, <2>1 DEF Records
<1>3. s # <<>> => 1 \in DOMAIN s
  BY <1>1, EmptySeq
<1> QED BY <1>1, <1>2, <1>3

\* What openFile finds is a file's records, of a name on the list unless it is none.
LEMMA RecordsOfType ==
    ASSUME Typed, NEW n \in Nat
    PROVE  /\ RecordsOf(n) \in Seq(Records)
           /\ Ascends(RecordsOf(n))
           /\ RecordsOf(n) # <<>> => n < Len(fileNames) /\ fileNames[n + 1] \in Names
<1>1. CASE n < Len(fileNames)
  <2>1. fileNames[n + 1] \in Names
    BY <1>1, ElementOfSeq DEF Typed
  <2> QED BY <1>1, <2>1, ContentType DEF RecordsOf
<1>2. CASE ~(n < Len(fileNames))
  BY <1>2 DEF RecordsOf, Ascends
<1> QED BY <1>1, <1>2

LEMMA OpenFileType ==
    ASSUME Typed, NEW n \in Nat, OpenFile(n)
    PROVE  rest' \in Seq(Records) /\ adjust' \in Nat /\ played' \in Seq(Names)
<1>1. rest' = RecordsOf(n) /\ RecordsOf(n) \in Seq(Records)
  BY RecordsOfType DEF OpenFile
<1>2. adjust' \in Nat
  <2>1. CASE RecordsOf(n) = <<>>
    BY <2>1 DEF OpenFile, Typed
  <2>2. CASE RecordsOf(n) # <<>>
    <3>1. RecordsOf(n)[1] \in Records
      BY <1>1, <2>2, HeadTailProperties
    <3> QED BY <3>1 DEF OpenFile, Typed, Records
  <2> QED BY <2>1, <2>2
<1>3. played' \in Seq(Names)
  BY RecordsOfType, AppendProperties DEF OpenFile, Typed
<1> QED BY <1>1, <1>2, <1>3

\* One packet's step leaves a sequence of records to read.
LEMMA ReadType ==
    ASSUME Typed, ReadPacket
    PROVE  /\ rest' \in Seq(Records)
           /\ Head(rest) \in Records
           /\ Tail(rest) \in Seq(Records)
           /\ Head(rest).t - adjust \in Int
<1>1. rest # <<>> /\ rest \in Seq(Records)
  BY DEF ReadPacket, Typed
<1>2. Head(rest) \in Records /\ Tail(rest) \in Seq(Records)
  BY <1>1, HeadTailProperties
<1>3. rest' \in Seq(Records)
  <2>1. rest' \in Unread
    BY DEF ReadPacket
  <2> QED BY <1>2, <2>1, PlaybackAssumption DEF Unread, Records
<1>4. Head(rest).t \in Nat
  BY <1>2 DEF Records
<1> QED BY <1>2, <1>3, <1>4 DEF Typed

LEMMA TypedInit == Init => Typed
<1> SUFFICES ASSUME Init PROVE Typed
  OBVIOUS
<1>1. PICK f \in Names :
          /\ fileNames = <<f>>
          /\ rest = Content[f]
          /\ adjust = IF align /\ rest # <<>> THEN rest[1].t ELSE 0
          /\ played = IF rest # <<>> THEN <<f>> ELSE <<>>
  BY DEF Init
<1>2. rest \in Seq(Records)
  BY <1>1, ContentType
<1>3. adjust \in Nat
  <2>1. CASE rest = <<>>
    BY <1>1, <2>1
  <2>2. CASE rest # <<>>
    <3>1. rest[1] \in Records
      BY <1>2, <2>2, HeadTailProperties
    <3> QED BY <1>1, <3>1 DEF Records
  <2> QED BY <2>1, <2>2
<1>4. fileNames \in Seq(Names) /\ played \in Seq(Names)
  BY <1>1
<1>5. /\ align \in BOOLEAN /\ index = 0 /\ playbackDone = FALSE /\ accumulated = 0
      /\ backlog = 0 /\ reader = "top" /\ console = "idle" /\ cleared = FALSE
      /\ garbled = FALSE /\ last = 0
  BY DEF Init
<1>6. index \in Nat /\ accumulated \in Int /\ last \in Int /\ backlog \in Nat
  BY <1>5
<1>7. /\ playbackDone \in BOOLEAN /\ cleared \in BOOLEAN /\ garbled \in BOOLEAN
      /\ reader \in {"top", "waiting", "ended", "opening"}
      /\ console \in {"idle", "starting", "opened"}
  BY <1>5
<1> QED BY <1>2, <1>3, <1>4, <1>5, <1>6, <1>7 DEF Typed

LEMMA TypedStep == Typed /\ [Next]_vars => Typed'
<1> SUFFICES ASSUME Typed, [Next]_vars PROVE Typed'
  OBVIOUS
<1>1. CASE ReadPacket
  BY <1>1, ReadType DEF ReadPacket, Typed, settings, list
<1>2. CASE BacklogGone
  BY <1>2 DEF BacklogGone, Typed, settings, list, stream, history
<1>3. CASE EndOfFile
  BY <1>3 DEF EndOfFile, Typed, settings, list, stream, history
<1>4. CASE OpenNext
  <2>1. index \in Nat /\ OpenFile(index)
    BY <1>4 DEF OpenNext, Typed
  <2>2. rest' \in Seq(Records) /\ adjust' \in Nat /\ played' \in Seq(Names)
    BY <2>1, OpenFileType
  <2> QED BY <1>4, <2>2 DEF OpenNext, Typed, settings, list, history
<1>5. CASE Process
  BY <1>5 DEF Process, Typed, settings, list, stream, history
<1>6. CASE \E f \in Names : AddFile(f)
  <2>1. PICK f \in Names : AddFile(f)
    BY <1>6
  <2>2. Append(fileNames, f) \in Seq(Names)
    BY AppendProperties DEF Typed
  <2>3. fileNames' \in Seq(Names)
    BY <2>1, <2>2 DEF AddFile
  <2> QED BY <2>1, <2>3 DEF AddFile, Typed, settings, stream, history
<1>7. CASE ClearFiles
  BY <1>7, EmptySeq DEF ClearFiles, Typed, settings, stream, history
<1>8. CASE Start
  BY <1>8, EmptySeq DEF Start, Typed, settings, history
<1>9. CASE OpenFirst
  <2>1. OpenFile(0)
    BY <1>9 DEF OpenFirst
  <2>2. rest' \in Seq(Records) /\ adjust' \in Nat /\ played' \in Seq(Names)
    BY <2>1, OpenFileType
  <2> QED BY <1>9, <2>2 DEF OpenFirst, Typed, settings, list, history
<1>10. CASE FinishStart
  BY <1>10 DEF FinishStart, Typed, settings, list, stream, history
<1>11. CASE UNCHANGED vars
  BY <1>11 DEF vars, Typed, settings, list, stream, history
<1> QED
  BY <1>1, <1>2, <1>3, <1>4, <1>5, <1>6, <1>7, <1>8, <1>9, <1>10, <1>11
  DEF Next, InputThread, Console

-----------------------------------------------------------------------------
(* Turns: the console and the reader stay out of each other's way.         *)

LEMMA TurnsInit == Init => Turns
BY DEF Init, Turns

LEMMA TurnsStep == Typed /\ Turns /\ [Next]_vars => Turns'
<1> SUFFICES ASSUME Typed, Turns, [Next]_vars PROVE Turns'
  OBVIOUS
<1>1. CASE ReadPacket
  BY <1>1 DEF ReadPacket, Typed, Turns, settings, list
<1>2. CASE BacklogGone
  BY <1>2 DEF BacklogGone, Turns, settings, list, stream, history
<1>3. CASE EndOfFile
  BY <1>3 DEF EndOfFile, Turns, settings, list, stream, history
<1>4. CASE OpenNext
  BY <1>4 DEF OpenNext, Turns, settings, list, history
<1>5. CASE Process
  BY <1>5 DEF Process, Turns, settings, list, stream, history
<1>6. CASE \E f \in Names : AddFile(f)
  BY <1>6 DEF AddFile, Turns, settings, stream, history
<1>7. CASE ClearFiles
  BY <1>7 DEF ClearFiles, Turns, settings, stream, history
<1>8. CASE Start
  BY <1>8 DEF Start, Turns, settings, history
<1>9. CASE OpenFirst
  BY <1>9 DEF OpenFirst, Turns, settings, list, history
<1>10. CASE FinishStart
  BY <1>10 DEF FinishStart, Turns, settings, list, stream, history
<1>11. CASE UNCHANGED vars
  BY <1>11 DEF vars, Turns, settings, list, stream, history
<1> QED
  BY <1>1, <1>2, <1>3, <1>4, <1>5, <1>6, <1>7, <1>8, <1>9, <1>10, <1>11
  DEF Next, InputThread, Console

Discipline == Typed /\ Turns

LEMMA AlwaysDisciplined == Spec => []Discipline
<1>1. Init => Discipline
  BY TypedInit, TurnsInit DEF Discipline
<1>2. Discipline /\ [Next]_vars => Discipline'
  BY TypedStep, TurnsStep DEF Discipline
<1> QED BY <1>1, <1>2, PTL DEF Spec

\* The console opens the stream only while the input thread stays away from it,
\* although no lock keeps readPacket and the command start apart.
THEOREM StreamHasOneUser == Spec => []StreamNotShared
<1>1. Discipline => StreamNotShared
  BY DEF Discipline, Turns, StreamNotShared
<1> QED BY <1>1, AlwaysDisciplined, PTL

-----------------------------------------------------------------------------
(* Stamps: time goes on from packet to packet and from file to file.       *)

\* A file that is opened when all before it is read starts behind it.
LEMMA OpenFileStamps ==
    ASSUME Typed, Stamps, rest = <<>>, NEW n \in Nat, OpenFile(n),
           align' = align, garbled' = garbled, accumulated' = accumulated, last' = last
    PROVE  Stamps'
<1>1. /\ RecordsOf(n) \in Seq(Records)
      /\ Ascends(RecordsOf(n))
  BY RecordsOfType
<1>2. rest' = RecordsOf(n)
  BY DEF OpenFile
<1>3. CASE RecordsOf(n) = <<>>
  BY <1>2, <1>3 DEF OpenFile, Stamps, Ascends
<1>4. CASE RecordsOf(n) # <<>>
  <2>1. /\ 1 \in DOMAIN RecordsOf(n)
        /\ \A i \in DOMAIN RecordsOf(n) : i \in Nat /\ 1 <= i /\ RecordsOf(n)[i].t \in Nat
    BY <1>1, <1>4, RecordAt
  <2>2. \A i \in DOMAIN RecordsOf(n) : RecordsOf(n)[1].t <= RecordsOf(n)[i].t
    BY <2>1, <1>1 DEF Ascends
  <2>3. adjust' = IF align THEN RecordsOf(n)[1].t ELSE adjust
    BY <1>4 DEF OpenFile
  <2>4. ~align => adjust' = 0
    BY <2>3 DEF Stamps
  <2>5. \A i \in DOMAIN rest' : adjust' <= rest'[i].t
    BY <1>2, <2>1, <2>2, <2>3, <2>4 DEF Typed
  <2>6. ~garbled => last <= accumulated
    BY DEF Stamps
  <2>7. adjust' \in Nat
    BY <2>1, <2>3 DEF Typed
  <2>8. ~garbled => \A i \in DOMAIN rest' : last <= rest'[i].t - adjust' + accumulated
    BY <1>2, <2>1, <2>5, <2>6, <2>7 DEF Typed
  <2> QED BY <1>1, <1>2, <1>4, <2>4, <2>5, <2>8 DEF Stamps
<1> QED BY <1>3, <1>4

LEMMA StampsInit == Init => Stamps
<1> SUFFICES ASSUME Init PROVE Stamps
  OBVIOUS
<1>1. PICK f \in Names :
          /\ rest = Content[f]
          /\ adjust = IF align /\ rest # <<>> THEN rest[1].t ELSE 0
  BY DEF Init
<1>2. rest \in Seq(Records) /\ Ascends(rest)
  BY <1>1, ContentType
<1>3. accumulated = 0 /\ last = 0
  BY DEF Init
<1>4. \A i \in DOMAIN rest :
          /\ 1 \in DOMAIN rest /\ 1 <= i
          /\ rest[1].t \in Nat /\ rest[i].t \in Nat
  BY <1>2, RecordAt
<1>5. \A i \in DOMAIN rest : adjust <= rest[i].t /\ adjust \in Nat
  BY <1>1, <1>2, <1>4 DEF Ascends
<1>6. \A i \in DOMAIN rest : last <= rest[i].t - adjust + accumulated
  BY <1>3, <1>4, <1>5
<1> QED BY <1>1, <1>2, <1>3, <1>5, <1>6 DEF Stamps

\* A packet is no earlier than the last, and what follows is no earlier than it.
LEMMA ReadStamps ==
    ASSUME Typed, Stamps, ReadPacket
    PROVE  /\ Stamps'
           /\ backlog' > backlog /\ ~garbled => last' >= last
<1> DEFINE r == Head(rest)
           offset == r.t - adjust
<1>1. /\ rest # <<>> /\ rest \in Seq(Records)
      /\ r \in Records /\ r = rest[1] /\ 1 \in DOMAIN rest
      /\ Tail(rest) \in Seq(Records)
      /\ Len(Tail(rest)) = Len(rest) - 1
      /\ \A i \in 1..Len(Tail(rest)) : Tail(rest)[i] = rest[i + 1]
  BY HeadTailProperties DEF ReadPacket, Typed
<1>2. offset \in Int
  BY <1>1 DEF Typed, Records
<1>3. /\ last' = IF r.fits THEN offset + accumulated ELSE last
      /\ backlog' = IF r.fits THEN backlog + 1 ELSE backlog
      /\ garbled' = (garbled \/ ~r.fits)
      /\ rest' # <<>> => accumulated' = accumulated
      /\ rest' = <<>> => accumulated' = accumulated + offset
      /\ adjust' = adjust /\ align' = align
      /\ r.fits => rest' = Tail(rest)
  BY DEF ReadPacket, settings, Unread
<1>4. ~garbled => last <= offset + accumulated
  BY <1>1 DEF Stamps
<1>5. backlog' > backlog /\ ~garbled => last' >= last
  BY <1>1, <1>2, <1>3, <1>4 DEF Typed
<1>6. ~garbled' => /\ Ascends(rest')
                   /\ \A i \in DOMAIN rest' : adjust' <= rest'[i].t
                   /\ \A i \in DOMAIN rest' : last' <= rest'[i].t - adjust' + accumulated'
                   /\ rest' = <<>> => last' <= accumulated'
  <2> SUFFICES ASSUME ~garbled'
               PROVE  /\ Ascends(rest')
                      /\ \A i \in DOMAIN rest' : adjust' <= rest'[i].t
                      /\ \A i \in DOMAIN rest' : last' <= rest'[i].t - adjust' + accumulated'
                      /\ rest' = <<>> => last' <= accumulated'
    BY Zenon
  <2>1. ~garbled /\ r.fits /\ rest' = Tail(rest) /\ last' = offset + accumulated
    BY <1>3
  <2>2. \A i \in DOMAIN rest' :
            /\ i \in Nat /\ i + 1 \in DOMAIN rest /\ 1 < i + 1
            /\ rest'[i] = rest[i + 1]
            /\ rest[i + 1].t \in Nat
    <3>1. /\ DOMAIN rest' = 1..Len(Tail(rest))
          /\ Len(Tail(rest)) = Len(rest) - 1
          /\ Len(rest) \in Nat /\ DOMAIN rest = 1..Len(rest)
      BY <1>1, <2>1, RecordAt
    <3>2. \A i \in DOMAIN rest' : i \in Nat /\ i + 1 \in DOMAIN rest /\ 1 < i + 1
      BY <3>1
    <3>3. \A i \in DOMAIN rest' : rest'[i] = rest[i + 1]
      BY <1>1, <2>1, <3>1
    <3> QED BY <1>1, <3>2, <3>3, RecordAt
  <2>3. Ascends(rest)
    BY <2>1 DEF Stamps
  <2>4. Ascends(rest')
    BY <2>2, <2>3 DEF Ascends
  <2>5. \A i \in DOMAIN rest' : r.t <= rest'[i].t
    BY <1>1, <2>2, <2>3 DEF Ascends
  <2>6. \A i \in DOMAIN rest' : adjust' <= rest'[i].t
    BY <1>3, <2>1, <2>2 DEF Stamps
  <2>7. ASSUME NEW i \in DOMAIN rest'
        PROVE  last' <= rest'[i].t - adjust' + accumulated'
    <3>1. rest' # <<>>
      BY <1>1, <2>1, <2>7
    <3>2. accumulated' = accumulated /\ adjust' = adjust
      BY <1>3, <3>1
    <3>3. r.t \in Nat /\ rest'[i].t \in Nat /\ r.t <= rest'[i].t
      BY <1>1, <2>2, <2>5 DEF Records
    <3>4. adjust \in Nat /\ accumulated \in Int
      BY DEF Typed
    <3>5. last' = r.t - adjust + accumulated
      BY <2>1
    <3> HIDE DEF r
    <3> QED BY <3>2, <3>3, <3>4, <3>5
  <2>8. rest' = <<>> => last' <= accumulated'
    BY <1>2, <1>3, <2>1 DEF Typed
  <2> QED BY <2>4, <2>6, <2>7, <2>8
<1>7. ~align' => adjust' = 0
  BY <1>3 DEF Stamps
<1>8. Stamps'
  BY <1>6, <1>7 DEF Stamps
<1> QED BY <1>5, <1>8

LEMMA StampsStep == Discipline /\ Stamps /\ [Next]_vars => Stamps'
<1> SUFFICES ASSUME Typed, Turns, Stamps, [Next]_vars PROVE Stamps'
  BY DEF Discipline
<1>1. CASE ReadPacket
  BY <1>1, ReadStamps
<1>2. CASE BacklogGone
  BY <1>2 DEF BacklogGone, Stamps, Ascends, settings, list, stream, history
<1>3. CASE EndOfFile
  BY <1>3 DEF EndOfFile, Stamps, Ascends, settings, list, stream, history
<1>4. CASE OpenNext
  <2>1. rest = <<>> /\ index \in Nat /\ OpenFile(index)
    BY <1>4 DEF OpenNext, Turns, Typed
  <2> QED BY <1>4, <2>1, OpenFileStamps DEF OpenNext, settings, history
<1>5. CASE Process
  BY <1>5 DEF Process, Stamps, Ascends, settings, list, stream, history
<1>6. CASE \E f \in Names : AddFile(f)
  BY <1>6 DEF AddFile, Stamps, Ascends, settings, stream, history
<1>7. CASE ClearFiles
  BY <1>7 DEF ClearFiles, Stamps, Ascends, settings, stream, history
<1>8. CASE Start
  BY <1>8 DEF Start, Stamps, Ascends, settings, history
<1>9. CASE OpenFirst
  <2>1. rest = <<>> /\ OpenFile(0)
    BY <1>9 DEF OpenFirst, Turns
  <2> QED BY <1>9, <2>1, OpenFileStamps DEF OpenFirst, settings, history
<1>10. CASE FinishStart
  BY <1>10 DEF FinishStart, Stamps, Ascends, settings, list, stream, history
<1>11. CASE UNCHANGED vars
  BY <1>11 DEF vars, Stamps, Ascends, settings, list, stream, history
<1> QED
  BY <1>1, <1>2, <1>3, <1>4, <1>5, <1>6, <1>7, <1>8, <1>9, <1>10, <1>11
  DEF Next, InputThread, Console

LEMMA StampsAscendStep == Discipline /\ Stamps /\ [Next]_vars =>
                             [align /\ backlog' > backlog /\ ~garbled => last' >= last]_vars
<1> SUFFICES ASSUME Typed, Stamps, Next, backlog' > backlog, ~garbled PROVE last' >= last
  BY DEF Discipline
<1>1. backlog \in Nat
  BY DEF Typed
<1>2. CASE ReadPacket
  BY <1>2, ReadStamps
<1>3. CASE ~ReadPacket
  <2>1. CASE Process
    <3>1. backlog' = backlog - 1
      BY <2>1 DEF Process
    <3> QED BY <1>1, <3>1
  <2>2. CASE ~Process
    <3>1. backlog' = backlog
      BY <1>3, <2>2 DEF Next, InputThread, Console, BacklogGone, EndOfFile, OpenNext,
            AddFile, ClearFiles, Start, OpenFirst, FinishStart
    <3> QED BY <1>1, <3>1
  <2> QED BY <2>1, <2>2
<1> QED BY <1>2, <1>3

\* Whatever files are played in whatever order with aligned times, and however
\* often the playback is started again, readPacket never stamps a packet with a
\* time before that of the packet it queued last.
THEOREM TimeDoesNotRunBack == Spec => StampsAscend
<1>1. Init => Stamps
  BY StampsInit
<1>2. Discipline /\ Stamps /\ [Next]_vars => Stamps'
  BY StampsStep
<1>3. Discipline /\ Stamps /\ [Next]_vars =>
          [align /\ backlog' > backlog /\ ~garbled => last' >= last]_vars
  BY StampsAscendStep
<1> QED BY <1>1, <1>2, <1>3, AlwaysDisciplined, PTL DEF Spec, StampsAscend

-----------------------------------------------------------------------------
(* Files: those opened are the beginning of the list.                      *)

LEMMA OpenFileFiles ==
    ASSUME Typed, NEW n \in Nat, Opened(n), OpenFile(n), fileNames' = fileNames, rest' # <<>>
    PROVE  Opened(n + 1)'
<1>1. n < Len(fileNames) /\ fileNames[n + 1] \in Names
  BY RecordsOfType DEF OpenFile
<1>2. played' = Append(played, fileNames[n + 1])
  BY DEF OpenFile
<1>3. /\ Len(played') = n + 1
      /\ \A i \in 1..n : played'[i] = fileNames[i]
      /\ played'[n + 1] = fileNames[n + 1]
  BY <1>1, <1>2, AppendProperties DEF Typed, Opened
<1>4. \A i \in 1..(n + 1) : i \in 1..n \/ i = n + 1
  OBVIOUS
<1>5. n + 1 <= Len(fileNames)
  BY <1>1, LenProperties DEF Typed
<1>6. \A i \in 1..(n + 1) : played'[i] = fileNames'[i]
  BY <1>3, <1>4
<1> QED BY <1>3, <1>5, <1>6 DEF Opened

LEMMA FilesInit == Init => Files
<1> SUFFICES ASSUME Init PROVE Files
  OBVIOUS
<1>1. PICK f \in Names : fileNames = <<f>> /\ played = IF rest # <<>> THEN <<f>> ELSE <<>>
  BY DEF Init
<1>2. index = 0 /\ reader = "top" /\ console = "idle"
  BY DEF Init
<1>3. rest # <<>> => Opened(1)
  BY <1>1 DEF Opened
<1> QED BY <1>2, <1>3 DEF Files

LEMMA FilesStep == Discipline /\ Files /\ [Next]_vars => Files'
<1> SUFFICES ASSUME Typed, Turns, Files, [Next]_vars PROVE Files'
  BY DEF Discipline
<1>1. CASE ReadPacket
  <2>1. /\ rest # <<>> /\ rest' # <<>> => index' = index /\ reader' \in {"top", "waiting"}
        /\ rest' = <<>> => index' = index + 1 /\ reader' = "ended"
        /\ UNCHANGED <<fileNames, cleared, played, console>>
    BY <1>1 DEF ReadPacket, list
  <2>2. console = "idle"
    BY <1>1 DEF ReadPacket, Turns, Typed
  <2> QED BY <1>1, <2>1, <2>2 DEF ReadPacket, Files, Opened
<1>2. CASE BacklogGone
  BY <1>2 DEF BacklogGone, Files, Opened, settings, list, stream, history
<1>3. CASE EndOfFile
  BY <1>3 DEF EndOfFile, Files, Opened, settings, list, stream, history
<1>4. CASE OpenNext
  <2>1. /\ index \in Nat /\ OpenFile(index) /\ reader = "opening" /\ reader' = "top"
        /\ UNCHANGED <<fileNames, cleared, index, console>>
    BY <1>4 DEF OpenNext, Typed, list
  <2>2. console = "idle"
    BY <2>1 DEF Turns, Typed
  <2>3. ~cleared /\ rest' # <<>> => Opened(index + 1)'
    BY <2>1, OpenFileFiles DEF Files
  <2> QED BY <2>1, <2>2, <2>3 DEF Files
<1>5. CASE Process
  BY <1>5 DEF Process, Files, Opened, settings, list, stream, history
<1>6. CASE \E f \in Names : AddFile(f)
  <2>1. PICK f \in Names : AddFile(f)
    BY <1>6
  <2>2. /\ Len(fileNames') = Len(fileNames) + 1
        /\ \A i \in 1..Len(fileNames) : fileNames'[i] = fileNames[i]
        /\ UNCHANGED <<cleared, index, rest, played, reader, console>>
    BY <2>1, AppendProperties DEF AddFile, Typed, stream
  <2>3. Len(fileNames) \in Nat
    BY DEF Typed
  <2>4. \A n \in Nat : Opened(n) => Opened(n)'
    BY <2>2, <2>3 DEF Opened
  <2>5. index \in Nat /\ index + 1 \in Nat
    BY DEF Typed
  <2>6. index' = index /\ console # "starting"
    BY <2>1, <2>2 DEF AddFile
  <2> QED BY <2>2, <2>4, <2>5, <2>6 DEF Files, Opened
<1>7. CASE ClearFiles
  BY <1>7 DEF ClearFiles, Files
<1>8. CASE Start
  <2>1. rest = <<>> /\ reader = "top"
    BY <1>8 DEF Start, Turns
  <2>2. /\ rest' = <<>> /\ reader' = "top" /\ index' = 0 /\ played' = <<>>
        /\ fileNames' = fileNames
    BY <1>8, <2>1 DEF Start
  <2>3. Opened(0)'
    BY <2>2, EmptySeq DEF Opened, Typed
  <2> QED BY <2>2, <2>3 DEF Files
<1>9. CASE OpenFirst
  <2>1. /\ OpenFile(0) /\ console = "starting" /\ console' = "opened"
        /\ UNCHANGED <<fileNames, cleared, index, reader>>
    BY <1>9 DEF OpenFirst, list
  <2>2. reader = "top"
    BY <2>1 DEF Turns
  <2>3. ~cleared => index = 0 /\ Opened(0)
    BY <2>1 DEF Files
  <2>4. ~cleared /\ rest' # <<>> => Opened(index + 1)'
    BY <2>1, <2>3, OpenFileFiles
  <2> QED BY <2>1, <2>2, <2>4 DEF Files
<1>10. CASE FinishStart
  BY <1>10 DEF FinishStart, Files, Opened, settings, list, stream, history
<1>11. CASE UNCHANGED vars
  BY <1>11 DEF vars, Files, Opened, settings, list, stream, history
<1> QED
  BY <1>1, <1>2, <1>3, <1>4, <1>5, <1>6, <1>7, <1>8, <1>9, <1>10, <1>11
  DEF Next, InputThread, Console

LEMMA AllFilesStep == Discipline /\ Files /\ [Next]_vars =>
                         [~playbackDone /\ playbackDone' /\ ~cleared => played = fileNames]_vars
<1> SUFFICES ASSUME Typed, Files, Next, ~playbackDone, playbackDone', ~cleared
             PROVE  played = fileNames
  BY DEF Discipline
<1>1. EndOfFile
  BY DEF Next, InputThread, Console, ReadPacket, BacklogGone, OpenNext, Process,
         AddFile, ClearFiles, Start, OpenFirst, FinishStart
<1>2. index >= Len(fileNames) /\ Opened(index)
  BY <1>1 DEF EndOfFile, Files
<1>3. Len(fileNames) \in Nat /\ index \in Nat
  BY DEF Typed
<1>4. index = Len(fileNames)
  BY <1>2, <1>3 DEF Opened
<1> QED BY <1>2, <1>4, SeqEqual DEF Typed, Opened

\* When readPacket declares a playback done, it has opened exactly the files of
\* the list, in order, though files were added behind it.
THEOREM EveryFilePlayed == Spec => AllFilesPlayed
<1>1. Init => Files
  BY FilesInit
<1>2. Discipline /\ Files /\ [Next]_vars => Files'
  BY FilesStep
<1>3. Discipline /\ Files /\ [Next]_vars =>
          [~playbackDone /\ playbackDone' /\ ~cleared => played = fileNames]_vars
  BY AllFilesStep
<1> QED BY <1>1, <1>2, <1>3, AlwaysDisciplined, PTL DEF Spec, AllFilesPlayed
=============================================================================
