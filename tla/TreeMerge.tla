----------------------------- MODULE TreeMerge ------------------------------
(***************************************************************************)
(* What fs_merge promises its caller, without requests, steps or callbacks.*)
(*                                                                         *)
(* Between the call and its outcome entries move from base to the same     *)
(* place in onto, and directories of base that are empty and that onto has *)
(* too disappear.  A move takes the place of a file only when the caller   *)
(* asked for it; the exception is what somebody else put there meanwhile.  *)
(* The outcome OK promises that base is gone and onto is the overlay of    *)
(* the two, as far as nobody else touched them.                            *)
(***************************************************************************)
EXTENDS FileTree

VARIABLES
  base,        (* the tree that is merged                                  *)
  onto,        (* the tree it is merged onto                               *)
  before,      (* both as they were at the call                            *)
  replace,     (* whether files may be replaced                            *)
  touched,     (* the paths somebody else changed, in either tree          *)
  started,     (* the call has been made                                   *)
  outcome      (* "none", or the status given to the caller                *)

vars == <<base, onto, before, replace, touched, started, outcome>>

Running == started /\ outcome = "none"

Init ==
  /\ base \in Tree /\ WellFormed(base)
  /\ onto \in Tree /\ WellFormed(onto)
  /\ before = [base |-> base, onto |-> onto]
  /\ replace \in BOOLEAN
  /\ touched = {}
  /\ ~started
  /\ outcome = "none"

Start ==
  /\ ~started
  /\ started'
  /\ UNCHANGED <<base, onto, before, replace, touched, outcome>>

(* What may be overwritten by a move to p.                                 *)
Yields(p) ==
  \/ onto[p] = Missing
  \/ onto[p] \in File /\ replace
  \/ p \in touched

Move(p) ==
  /\ Running
  /\ RenameErr(base, onto, p, OK) = OK
  /\ Yields(p)
  /\ base' = Pruned(base, p)
  /\ onto' = Grafted(base, onto, p)
  /\ UNCHANGED <<before, replace, touched, started, outcome>>

Drop(p) ==
  /\ Running
  /\ base[p] = Dir /\ Children(base, p) = {}
  /\ onto[p] = Dir \/ p \in touched
  /\ base' = Without(base, p)
  /\ UNCHANGED <<onto, before, replace, touched, started, outcome>>

(* Somebody else changes one entry of one of the trees.                    *)
Interfere(p) ==
  /\ Running
  /\ \/ /\ base' \in {[base EXCEPT ![p] = k] : k \in Kind \ {base[p]}}
        /\ UNCHANGED onto
     \/ /\ onto' \in {[onto EXCEPT ![p] = k] : k \in Kind \ {onto[p]}}
        /\ UNCHANGED base
  /\ touched' = touched \cup {p}
  /\ UNCHANGED <<before, replace, started, outcome>>

Overlay(p) == IF before.base[p] # Missing THEN before.base[p] ELSE before.onto[p]

Succeed ==
  /\ Running
  /\ \A p \in Path \ touched : base[p] = Missing /\ onto[p] = Overlay(p)
  /\ outcome' = OK
  /\ UNCHANGED <<base, onto, before, replace, touched, started>>

Fail ==
  /\ Running
  /\ outcome' \notin {"none", OK}
  /\ UNCHANGED <<base, onto, before, replace, touched, started>>

Next ==
  \/ Start
  \/ \E p \in Path : Move(p)
  \/ \E p \in Path : Drop(p)
  \/ \E p \in Path : Interfere(p)
  \/ Succeed
  \/ Fail

Spec == Init /\ [][Next]_vars
=============================================================================
