------------------------------- MODULE MCLock -------------------------------
(* Three handles of one file, and the regions to lock.                     *)
EXTENDS Lock, TLC

CONSTANTS h1, h2, h3

MCHandle == {h1, h2, h3}

(* All of the file, the one region that every platform takes; its first    *)
(* byte; and the rest of it from the third one, which Windows refuses.     *)
FirstByte == [off |-> 0, len |-> 1]
FromThird == [off |-> 2, len |-> 0]

(* Each handle may lock all of it, and two of them a region that does not  *)
(* overlap the other's.                                                    *)
MCRegion ==
  (h1 :> {Whole}) @@ (h2 :> {Whole, FirstByte}) @@ (h3 :> {Whole, FromThird})
=============================================================================
