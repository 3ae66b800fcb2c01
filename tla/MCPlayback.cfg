\* Two playbacks of up to two files, with packets read faster than processed.
CONSTANTS
    Content <- MCContent
    Garbage <- MCGarbage
    MaxBacklog = 2
    MaxFiles = 2
    MaxStarts = 1
SPECIFICATION Spec
INVARIANTS
    StreamNotShared
PROPERTIES
    AllFilesPlayed
    StampsAscend
    PlaybackEnds
