---------------------------- MODULE TreeRemoval ----------------------------
(***************************************************************************)
(* What fs_rmdir promises its caller, without requests, steps or callbacks.*)
(*                                                                         *)
(* Between the call and its outcome the entries of the tree disappear one  *)
(* by one, never one that still holds another, while other processes may   *)
(* add and remove entries of their own.  The outcome is given once and the *)
(* operation touches nothing after it.  The outcome OK promises            *)
(*   - of a plain removal, that the directory is gone;                     *)
(*   - of a recursive one, that every file that is still there was created *)
(*     by somebody else meanwhile, or sits below a path that was skipped   *)
(*     for being too long.                                                 *)
(* It does not promise that the directory itself is gone.                  *)
(***************************************************************************)
EXTENDS FileTree

VARIABLES
  tree,        (* the file system                                          *)
  created,     (* entries other processes created since the call           *)
  started,     (* the call has been made                                   *)
  recursive,   (* ... and asked for a recursive removal                    *)
  outcome,     (* "none", or the status given to the caller                *)
  skipped      (* paths the removal passes over                            *)

vars == <<tree, created, started, recursive, outcome, skipped>>

Running == started /\ outcome = "none"

Excused(p) == p \in created \/ \E q \in skipped : IsPrefix(q, p)

Init ==
  /\ tree \in Tree /\ WellFormed(tree)
  /\ created = {}
  /\ ~started /\ ~recursive
  /\ outcome = "none"

Start ==
  /\ ~started
  /\ started'
  /\ recursive' \in BOOLEAN
  /\ UNCHANGED <<tree, created, outcome, skipped>>

(* The operation, or somebody else, removes an entry that holds no other.  *)
RemoveEntry(p) ==
  /\ Running
  /\ tree[p] # Missing /\ Children(tree, p) = {}
  /\ tree' = Without(tree, p)
  /\ UNCHANGED <<created, started, recursive, outcome, skipped>>

(* Somebody else adds one.                                                 *)
CreateEntry(p) ==
  /\ Running
  /\ p # Top /\ tree[p] = Missing /\ tree[Parent(p)] = Dir
  /\ \E k \in {Dir} \cup File : tree' = [tree EXCEPT ![p] = k]
  /\ created' = created \cup {p}
  /\ UNCHANGED <<started, recursive, outcome, skipped>>

Succeed ==
  /\ Running
  /\ IF recursive THEN \A p \in Files(tree) : Excused(p)
                  ELSE tree[Top] = Missing
  /\ outcome' = OK
  /\ UNCHANGED <<tree, created, started, recursive, skipped>>

Fail ==
  /\ Running
  /\ outcome' \notin {"none", OK}
  /\ UNCHANGED <<tree, created, started, recursive, skipped>>

Next ==
  \/ Start
  \/ \E p \in Path : RemoveEntry(p)
  \/ \E p \in Path : CreateEntry(p)
  \/ Succeed
  \/ Fail

Spec == Init /\ [][Next]_vars
=============================================================================
