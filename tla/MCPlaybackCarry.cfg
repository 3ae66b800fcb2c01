\* The sentence of the header about the times of files that are not aligned.
CONSTANTS
    Content <- MCContent
    Garbage <- MCGarbage
    MaxBacklog = 2
    MaxFiles = 2
    MaxStarts = 1
SPECIFICATION Spec
PROPERTIES
    TimeStaysInFile
