--------------------------- MODULE MCAdapterFile ---------------------------
(* AdapterFile for TLC: files of one to three packets whose times overlap,  *)
(* one with a packet that does not fit, and one that cannot be opened.      *)
EXTENDS AdapterFile

Record(t, fits) == [t |-> t, fits |-> fits]

MCContent ==
    [short |-> <<Record(5, TRUE)>>,
     long |-> <<Record(2, TRUE), Record(3, TRUE), Record(7, TRUE)>>,
     large |-> <<Record(1, TRUE), Record(4, FALSE), Record(6, TRUE)>>,
     missing |-> <<>>]

MCGarbage == {<<>>, <<Record(0, TRUE)>>, <<Record(9, FALSE)>>}
=============================================================================
