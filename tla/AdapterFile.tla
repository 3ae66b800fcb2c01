---------------------------- MODULE AdapterFile ----------------------------
(***************************************************************************)
(* pkt/AdapterFile.cc: an adapter whose input thread reads packets from a   *)
(* list of tcpdump files, and the console commands that change the list and *)
(* start it again while the thread reads.                                   *)
(*                                                                         *)
(* A file is the sequence of its records.  What is left to read of the open *)
(* one is `rest`; the stream is good() as long as there is something, for   *)
(* the reader looks for the next record before it returns.  No lock guards  *)
(* any of this.                                                             *)
(***************************************************************************)
EXTENDS Integers, Sequences

CONSTANTS
    Content,      \* the records of each file; none in one that cannot be opened
    Garbage,      \* what bytes in the middle of a packet may be read as
    MaxBacklog,   \* m_nMaxPacketBacklog
    MaxFiles,     \* bound on the list of files
    MaxStarts     \* bound on the playbacks that are started again

Names == DOMAIN Content

Ascends(records) ==
    \A i, k \in DOMAIN records : i < k => records[i].t <= records[k].t

ASSUME PlaybackAssumption ==
    /\ \A f \in Names : Content[f] \in Seq([t : Nat, fits : BOOLEAN]) /\ Ascends(Content[f])
    /\ Garbage \subseteq Seq([t : Nat, fits : BOOLEAN]) /\ <<>> \in Garbage
    /\ MaxBacklog \in Nat \ {0} /\ MaxFiles \in Nat /\ MaxStarts \in Nat

VARIABLES
    align,         \* m_bAlignTime_Files
    noPause,       \* m_bNoPause
    fileNames,     \* m_FileNames
    index,         \* m_nCurrentFileIndex
    playbackDone,  \* m_bPlaybackDone
    rest,          \* m_CurrentFile
    adjust,        \* m_Time_CurrentFileAdjust
    accumulated,   \* m_Time_Align_Accumulated
    backlog,       \* packets in the input queue
    reader,        \* where readPacket is
    console,       \* where the command start is
    starts,        \* how many there were
    played,        \* history: the files opened since the playback began
    cleared,       \* history: the list was cleared since then
    failed,        \* history: a file could not be opened
    garbled,       \* history: a packet was too large to read
    last           \* history: the time of the last packet queued

settings == <<align, noPause>>
list == <<fileNames, cleared>>
stream == <<rest, adjust, played, failed>>
history == <<garbled, last>>
vars == <<settings, list, index, playbackDone, stream, accumulated,
          backlog, reader, console, starts, history>>

-----------------------------------------------------------------------------
(* Files.                                                                  *)

\* getFile answers "" beyond the list, which no file has for a name.
RecordsOf(n) == IF n < Len(fileNames) THEN Content[fileNames[n + 1]] ELSE <<>>

OpenFile(n) ==
    /\ rest' = RecordsOf(n)
    /\ adjust' = IF align /\ RecordsOf(n) # <<>> THEN RecordsOf(n)[1].t ELSE adjust
    /\ played' = IF RecordsOf(n) # <<>> THEN Append(played, fileNames[n + 1]) ELSE played
    /\ failed' = (failed \/ RecordsOf(n) = <<>>)

\* The configuration names at least one file; startDevice opens the first.
Init ==
    /\ align \in BOOLEAN /\ noPause \in BOOLEAN
    /\ \E f \in Names :
          /\ fileNames = <<f>>
          /\ rest = Content[f]
          /\ adjust = IF align /\ rest # <<>> THEN rest[1].t ELSE 0
          /\ played = IF rest # <<>> THEN <<f>> ELSE <<>>
          /\ failed = (rest = <<>>)
    /\ index = 0 /\ playbackDone = FALSE /\ accumulated = 0 /\ backlog = 0
    /\ reader = "top" /\ console = "idle" /\ starts = 0
    /\ cleared = FALSE /\ garbled = FALSE /\ last = 0

-----------------------------------------------------------------------------
(* The input thread.                                                       *)

\* A packet that does not fit is released and its bytes are not skipped.  They
\* are read for records until the file ends.
Unread ==
    IF Head(rest).fits THEN {Tail(rest)} ELSE {g \in Garbage : Len(g) < Len(rest)}

\* Slip: the time of the files before the last one is forgotten.
ReadPacketForgetful ==
    LET offset == Head(rest).t - adjust
        fits == Head(rest).fits
    IN
    /\ reader = "top" /\ ~playbackDone /\ rest # <<>>
    /\ backlog' = IF fits THEN backlog + 1 ELSE backlog
    /\ last' = IF fits THEN offset + accumulated ELSE last
    /\ garbled' = (garbled \/ ~fits)
    /\ rest' \in Unread
    /\ IF rest' # <<>>
       THEN /\ reader' = IF noPause THEN "waiting" ELSE "top"
            /\ UNCHANGED <<accumulated, index>>
       ELSE /\ accumulated' = offset
            /\ index' = index + 1
            /\ reader' = "ended"
    /\ UNCHANGED <<settings, list, playbackDone, adjust, played, failed, console, starts>>

\* readPacket: the packet is stamped with its time in the file and that of the
\* files before, and queued.  At the end of the file it is closed.  (A pause
\* between packets is no step of its own: it only takes time.)
ReadPacket ==
    LET offset == Head(rest).t - adjust
        fits == Head(rest).fits
    IN
    /\ reader = "top" /\ ~playbackDone /\ rest # <<>>
    /\ backlog' = IF fits THEN backlog + 1 ELSE backlog
    /\ last' = IF fits THEN offset + accumulated ELSE last
    /\ garbled' = (garbled \/ ~fits)
    /\ rest' \in Unread
    /\ IF rest' # <<>>
       THEN /\ reader' = IF noPause THEN "waiting" ELSE "top"
            /\ UNCHANGED <<accumulated, index>>
       ELSE /\ accumulated' = accumulated + offset
            /\ index' = index + 1
            /\ reader' = "ended"
    /\ UNCHANGED <<settings, list, playbackDone, adjust, played, failed, console, starts>>

\* The wait for the process thread, when there is more to read.
BacklogGone ==
    /\ reader = "waiting"
    /\ backlog < MaxBacklog
    /\ reader' = "top"
    /\ UNCHANGED <<settings, list, index, playbackDone, stream, accumulated,
                   backlog, console, starts, history>>

\* Slip: after the last file the flag is not set.
EndOfFileSilent ==
    /\ reader = "ended"
    /\ reader' = IF index >= Len(fileNames) THEN "top" ELSE "opening"
    /\ UNCHANGED <<settings, list, index, playbackDone, stream, accumulated,
                   backlog, console, starts, history>>

\* getFileCount is compared, and the playback is done or the next file is due.
EndOfFile ==
    /\ reader = "ended"
    /\ playbackDone' = (index >= Len(fileNames))
    /\ reader' = IF index >= Len(fileNames) THEN "top" ELSE "opening"
    /\ UNCHANGED <<settings, list, index, stream, accumulated,
                   backlog, console, starts, history>>

\* The list may have been cleared since it was counted.
OpenNext ==
    /\ reader = "opening"
    /\ OpenFile(index)
    /\ reader' = "top"
    /\ UNCHANGED <<settings, list, index, playbackDone, accumulated,
                   backlog, console, starts, history>>

\* The process thread takes a packet from the input queue.
Process ==
    /\ backlog > 0
    /\ backlog' = backlog - 1
    /\ UNCHANGED <<settings, list, index, playbackDone, stream, accumulated,
                   reader, console, starts, history>>

-----------------------------------------------------------------------------
(* The console.                                                            *)

AddFile(f) ==
    /\ console = "idle"
    /\ Len(fileNames) < MaxFiles
    /\ fileNames' = Append(fileNames, f)
    /\ UNCHANGED <<settings, cleared, index, playbackDone, stream, accumulated,
                   backlog, reader, console, starts, history>>

ClearFiles ==
    /\ console = "idle"
    /\ fileNames' = <<>>
    /\ cleared' = TRUE
    /\ UNCHANGED <<settings, index, playbackDone, stream, accumulated,
                   backlog, reader, console, starts, history>>

\* Slip: the flag is reset before the file is open.
StartEarly ==
    /\ console = "idle"
    /\ playbackDone /\ starts < MaxStarts
    /\ starts' = starts + 1
    /\ index' = 0
    /\ playbackDone' = FALSE
    /\ played' = <<>> /\ cleared' = FALSE
    /\ console' = "starting"
    /\ UNCHANGED <<settings, fileNames, rest, adjust, failed, accumulated,
                   backlog, reader, history>>

\* Slip: the index stays behind the list.
StartWhereItWas ==
    /\ console = "idle"
    /\ playbackDone /\ starts < MaxStarts
    /\ starts' = starts + 1
    /\ played' = <<>> /\ cleared' = FALSE
    /\ console' = "starting"
    /\ UNCHANGED <<settings, fileNames, index, playbackDone, rest, adjust, failed,
                   accumulated, backlog, reader, history>>

\* The command start, which is refused while a playback is not done.
Start ==
    /\ console = "idle"
    /\ playbackDone /\ starts < MaxStarts
    /\ starts' = starts + 1
    /\ index' = 0
    /\ played' = <<>> /\ cleared' = FALSE
    /\ console' = "starting"
    /\ UNCHANGED <<settings, fileNames, playbackDone, rest, adjust, failed,
                   accumulated, backlog, reader, history>>

OpenFirst ==
    /\ console = "starting"
    /\ OpenFile(0)
    /\ console' = "opened"
    /\ UNCHANGED <<settings, list, index, playbackDone, accumulated,
                   backlog, reader, starts, history>>

\* Also when the file could not be opened.
FinishStart ==
    /\ console = "opened"
    /\ playbackDone' = FALSE
    /\ console' = "idle"
    /\ UNCHANGED <<settings, list, index, stream, accumulated,
                   backlog, reader, starts, history>>

InputThread == ReadPacket \/ BacklogGone \/ EndOfFile \/ OpenNext

Console ==
    \/ \E f \in Names : AddFile(f)
    \/ ClearFiles \/ Start \/ OpenFirst \/ FinishStart

Next == InputThread \/ Process \/ Console

\* Both threads of the adapter run all the time; nobody has to type commands.
Spec == Init /\ [][Next]_vars /\ WF_vars(InputThread) /\ WF_vars(Process)

-----------------------------------------------------------------------------
(* Properties.                                                             *)

\* The stream, the index and the adjustment of time have no lock: the console
\* opens a file only while the input thread stays away from them, which it does
\* from its last touch on to the end of the command.
StreamNotShared == console # "idle" => playbackDone /\ reader = "top"

\* A playback that is done has opened every file of the list in its order, those
\* added while it ran and those of a list that is started again, too, unless
\* the list was cleared under it.
AllFilesPlayed ==
    [][~playbackDone /\ playbackDone' /\ ~cleared => played = fileNames]_vars

\* Where the times of the files are aligned, packets are stamped in order: time
\* does not run back from one file to the next, nor from one playback to the
\* next, as long as no packet was too large and the bytes that follow it were
\* read for records.
StampsAscend == [][align /\ backlog' > backlog /\ ~garbled => last' >= last]_vars

\* What the header says of the files of an adapter that does not align them,
\* "Note that time does not carry between files" (addFile and
\* addFilesWithPattern): a packet has its time in its file.  The code adds the
\* last times of the files before.
TimeStaysInFile ==
    [][~align /\ backlog' > backlog /\ ~garbled => last' = Head(rest).t]_vars

\* A playback ends, however the console changes the list under it, unless a file
\* could not be opened: then the reader waits for ever, and start is refused.
PlaybackEnds == (rest # <<>> /\ ~playbackDone) ~> (playbackDone \/ failed)
=============================================================================
