------------------------------- MODULE MCTrim -------------------------------
(* Every range over up to two blocks and parts of a third.                *)
EXTENDS Trim
=============================================================================
