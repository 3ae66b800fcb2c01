------------------------- MODULE MCFMNCTestSequence -------------------------
(* FMNCTestSequence for TLC: the requests of the demo site, with the numbers *)
(* the program has for them, and smaller ones.                               *)
EXTENDS FMNCTestSequence

MCRequests ==
    {[kind |-> "web", fixed |-> 50, loops |-> 2, multi |-> 10],
     [kind |-> "web", fixed |-> 100, loops |-> 5, multi |-> 14],
     [kind |-> "custom", fixed |-> 10, loops |-> 1, multi |-> 5, size |-> 40, spacing |-> 300],
     [kind |-> "custom", fixed |-> 7, loops |-> 2, multi |-> 3, size |-> 1400, spacing |-> 9999],
     [kind |-> "train", length |-> 3, step |-> 2, rmin |-> 8, rmax |-> 36, gap |-> 900],
     [kind |-> "train", length |-> 3, step |-> 1, rmin |-> 8, rmax |-> 36, gap |-> 900],
     [kind |-> "cellular", packets |-> 42, gap |-> 700],
     [kind |-> "image", fixed |-> 50, loops |-> 2, multi |-> 10, header |-> 130, bytes |-> 16550],
     [kind |-> "image", fixed |-> 50, loops |-> 2, multi |-> 10, header |-> 130, bytes |-> 0],
     [kind |-> "results", bytes |-> 1900]}
    \cup {[kind |-> "choice", choice |-> n] : n \in 0..5}
=============================================================================
