------------------------------- MODULE Merge --------------------------------
(***************************************************************************)
(* fs_merge: src/merge.c.                                                  *)
(*                                                                         *)
(* One call of fs_merge, from the first uv_fs_lstat to the callback of the *)
(* caller.  Every entry below base gets an fs_merge_step_t of its own.     *)
(* Its step looks at the same place in onto: what is absent there, or a    *)
(* file that may be replaced, is renamed over; a directory both have is    *)
(* listed and its entries become child steps.  A step counts its child     *)
(* steps in missing; the child that brings the count to zero submits the   *)
(* rmdir of the parent's base, by then empty if every child moved.         *)
(*                                                                         *)
(* Requests interleave as in Rmdir.  Between any two steps another process *)
(* may change either tree.  base and onto do not lie in one another.       *)
(***************************************************************************)
EXTENDS FileTree

CONSTANTS
  BaseTrees,   (* the trees base may be                                    *)
  OntoTrees,   (* the trees onto may be                                    *)
  Envs,        (* the surroundings the call may run in, see EnvType        *)
  MaxTouched   (* how many paths another process may change, each once     *)

VARIABLES
  base, onto,  (* the two trees                                            *)
  before,      (* both as they were at the call                            *)
  env,         (* permissions, path lengths, and what scandir tells        *)
  touched,     (* the paths another process changed                        *)
  replace,     (* req->replace                                             *)
  started,     (* fs_merge has been called                                 *)
  steps,       (* the fs_merge_step_t allocated, named by their path       *)
  missing,     (* the missing field of each step                           *)
  uv,          (* the libuv request working on behalf of each step         *)
  result,      (* the result field of the fs_merge_t                       *)
  calls,       (* how often the caller's callback ran                      *)
  status       (* the status it was last given                             *)

vars == <<base, onto, before, env, touched, replace, started, steps, missing,
          uv, result, calls, status>>

(* What the loop thread leaves alone.                                      *)
outside == <<base, onto, before, env, touched, replace, started>>

Err == {OK, "ENOENT", "ENOTDIR", "ENOTEMPTY", "EISDIR", "EEXIST", "EACCES"}

(* deny: the error of moving or removing the entry of base (EACCES stands  *)
(* for EXDEV too); unreadable: directories of base that cannot be listed;  *)
(* toolong: paths that path_join rejects on either side; typed: the file   *)
(* system fills in d_type, else every entry is UV_DIRENT_UNKNOWN.          *)
EnvType ==
  [deny : [Path -> {OK, "EACCES"}], unreadable : SUBSET Path,
   toolong : SUBSET Entry, typed : BOOLEAN]

ASSUME MergeAssumption ==
  /\ \A t \in BaseTrees \cup OntoTrees : t \in Tree /\ WellFormed(t)
  /\ \A e \in Envs : e \in EnvType
  /\ MaxTouched \in Nat

Callbacks == {"on_stat_dir", "on_stat_file", "on_scandir", "on_rename", "on_rmdir"}

(* A uv_fs_t.  isdir is st_mode of a finished stat; list are the entries   *)
(* of a finished scandir, dirs those it says are directories.              *)
Request ==
  [cb : Callbacks \cup {"none"}, done : BOOLEAN, err : Err, isdir : BOOLEAN,
   list : SUBSET Entry, dirs : SUBSET Entry]

Submit(cb) ==
  [cb |-> cb, done |-> FALSE, err |-> OK, isdir |-> FALSE, list |-> {}, dirs |-> {}]
Idle == Submit("none")

Pending(p) == uv[p].cb # "none"
Running == started /\ calls = 0

-----------------------------------------------------------------------------
Init ==
  /\ base \in BaseTrees
  /\ onto \in OntoTrees
  /\ before = [base |-> base, onto |-> onto]
  /\ env \in Envs
  /\ touched = {}
  /\ replace \in BOOLEAN
  /\ started = FALSE
  /\ steps = {}
  /\ missing = [p \in Path |-> 0]
  /\ uv = [p \in Path |-> Idle]
  /\ result = OK
  /\ calls = 0
  /\ status = OK

(* fs_merge(loop, req, base, onto, replace, cb).                           *)
Call ==
  /\ ~started
  /\ started' = TRUE
  /\ steps' = {Top}
  /\ uv' = [uv EXCEPT ![Top] = Submit("on_stat_dir")]
  /\ UNCHANGED <<base, onto, before, env, touched, replace, missing, result, calls, status>>

-----------------------------------------------------------------------------
(* The worker threads of libuv.                                            *)

Ran(p, err) == [uv EXCEPT ![p].done = TRUE, ![p].err = err]

WorkStat(p) ==
  /\ uv[p].cb \in {"on_stat_dir", "on_stat_file"} /\ ~uv[p].done
  /\ uv' = [uv EXCEPT ![p].done = TRUE, ![p].err = LookupErr(onto, p),
                      ![p].isdir = onto[p] = Dir]
  /\ UNCHANGED <<outside, steps, missing, result, calls, status>>

WorkScandir(p) ==
  /\ uv[p].cb = "on_scandir" /\ ~uv[p].done
  /\ LET err  == ScandirErr(base, p, p \notin env.unreadable)
         list == IF err = OK THEN Children(base, p) ELSE {}
     IN uv' = [uv EXCEPT ![p].done = TRUE, ![p].err = err, ![p].list = list,
                         ![p].dirs = {q \in list : env.typed /\ base[q] = Dir}]
  /\ UNCHANGED <<outside, steps, missing, result, calls, status>>

WorkRename(p) ==
  /\ uv[p].cb = "on_rename" /\ ~uv[p].done
  /\ LET err == RenameErr(base, onto, p, env.deny[p]) IN
       /\ uv' = Ran(p, err)
       /\ base' = IF err = OK THEN Pruned(base, p) ELSE base
       /\ onto' = IF err = OK THEN Grafted(base, onto, p) ELSE onto
  /\ UNCHANGED <<before, env, touched, replace, started, steps, missing,
                 result, calls, status>>

WorkRmdir(p) ==
  /\ uv[p].cb = "on_rmdir" /\ ~uv[p].done
  /\ LET err == RmdirErr(base, p, env.deny[p]) IN
       /\ uv' = Ran(p, err)
       /\ base' = IF err = OK THEN Without(base, p) ELSE base
  /\ UNCHANGED <<onto, before, env, touched, replace, started, steps, missing,
                 result, calls, status>>

-----------------------------------------------------------------------------
(* The loop thread.                                                        *)

(* if (err < 0) req->result = err                                          *)
Retain(err) == IF err # OK THEN err ELSE result

(* on_finished: the caller's callback.                                     *)
OnFinished ==
  /\ calls' = calls + 1
  /\ status' = result'

(* Slips: the test is gone; it is made before the child is counted off.    *)
DrainedAlways(count, d) == TRUE
DrainedBefore(count, d) == count[d] < 0

(* rec->missing == 0                                                       *)
Drained(count, d) == count[d] = 0

(* A slip: the child is counted off twice.                                 *)
DiscountTwice(d) == [missing EXCEPT ![d] = @ - 2]

(* parent->missing--                                                       *)
Discount(d) == [missing EXCEPT ![d] = @ - 1]

(* on_finished_maybe(uv_req, rec, err), rec being the step of p.           *)
OnFinishedMaybe(p, err) ==
  /\ result' = Retain(err)
  /\ \/ /\ ~Drained(missing, p)
        /\ uv' = [uv EXCEPT ![p] = Idle]
        /\ UNCHANGED <<steps, missing, calls, status>>
     \/ /\ Drained(missing, p) /\ p = Top
        /\ steps' = steps \ {p}
        /\ uv' = [uv EXCEPT ![p] = Idle]
        /\ OnFinished
        /\ UNCHANGED missing
     \/ /\ Drained(missing, p) /\ p # Top
        /\ steps' = steps \ {p}
        /\ missing' = Discount(Parent(p))
        /\ uv' = IF Drained(missing', Parent(p))
                 THEN [uv EXCEPT ![p] = Idle, ![Parent(p)] = Submit("on_rmdir")]
                 ELSE [uv EXCEPT ![p] = Idle]
        /\ UNCHANGED <<calls, status>>

Resubmit(p, cb) ==
  /\ uv' = [uv EXCEPT ![p] = Submit(cb)]
  /\ UNCHANGED <<steps, missing, result, calls, status>>

(* A slip: what is not there yet is an error.                              *)
DirMovesNever(err) == FALSE

(* case UV_ENOENT of on_stat_dir                                           *)
DirMoves(err) == err = "ENOENT"

OnStatDir(p) ==
  /\ uv[p].cb = "on_stat_dir" /\ uv[p].done
  /\ LET err == IF uv[p].err = OK /\ ~uv[p].isdir THEN "ENOTDIR" ELSE uv[p].err IN
       \/ err = OK /\ Resubmit(p, "on_scandir")
       \/ DirMoves(err) /\ Resubmit(p, "on_rename")
       \/ err # OK /\ ~DirMoves(err) /\ OnFinishedMaybe(p, err)
  /\ UNCHANGED outside

(* A slip: req->replace is not looked at.                                  *)
FileErrReplacing(p) ==
  IF uv[p].err = OK /\ uv[p].isdir THEN "EISDIR" ELSE uv[p].err

(* What on_stat_file makes of the stat of p in onto.                       *)
FileErr(p) ==
  IF uv[p].err # OK THEN uv[p].err
  ELSE IF uv[p].isdir THEN "EISDIR"
  ELSE IF replace THEN OK ELSE "EEXIST"

OnStatFile(p) ==
  /\ uv[p].cb = "on_stat_file" /\ uv[p].done
  /\ \/ FileErr(p) \in {OK, "ENOENT"} /\ Resubmit(p, "on_rename")
     \/ FileErr(p) \notin {OK, "ENOENT"} /\ OnFinishedMaybe(p, FileErr(p))
  /\ UNCHANGED outside

(* path_join(...) < 0: continue                                            *)
Joined(list) == list \ env.toolong

(* A slip: the increment comes before the path_join that may fail.         *)
CountedListed(list) == Cardinality(list)

(* rec->missing++, once for every entry that gets a step.                  *)
Counted(list) == Cardinality(Joined(list))

(* One child step and one stat for every entry.                            *)
Descend(p) ==
  /\ steps' = steps \cup Joined(uv[p].list)
  /\ missing' = [q \in Path |->
                   IF q = p THEN missing[p] + Counted(uv[p].list)
                   ELSE IF q \in Joined(uv[p].list) THEN 0
                   ELSE missing[q]]
  /\ uv' = [q \in Path |->
              IF q = p THEN Idle
              ELSE IF q \notin Joined(uv[p].list) THEN uv[q]
              ELSE Submit(IF q \in uv[p].dirs THEN "on_stat_dir" ELSE "on_stat_file")]
  /\ UNCHANGED <<result, calls, status>>

OnScandir(p) ==
  /\ uv[p].cb = "on_scandir" /\ uv[p].done
  /\ \/ uv[p].err # OK /\ OnFinishedMaybe(p, uv[p].err)
     \/ uv[p].err = OK /\ uv[p].list = {} /\ Resubmit(p, "on_rmdir")
     \/ uv[p].err = OK /\ uv[p].list # {} /\ Descend(p)
  /\ UNCHANGED outside

OnRename(p) ==
  /\ uv[p].cb = "on_rename" /\ uv[p].done
  /\ OnFinishedMaybe(p, uv[p].err)
  /\ UNCHANGED outside

OnRmdir(p) ==
  /\ uv[p].cb = "on_rmdir" /\ uv[p].done
  /\ OnFinishedMaybe(p, uv[p].err)
  /\ UNCHANGED outside

-----------------------------------------------------------------------------
(* Another process adds or removes an entry of a tree.           *)
Changed(t, p) ==
  {[t EXCEPT ![p] = k] : k \in {k \in Kind :
     /\ k # t[p] /\ Missing \in {k, t[p]}
     /\ p = Top \/ t[Parent(p)] = Dir
     /\ Children(t, p) = {}}}

OtherChanges(p) ==
  /\ Running
  /\ p \notin touched /\ Cardinality(touched) < MaxTouched
  /\ \/ base' \in Changed(base, p) /\ UNCHANGED onto
     \/ onto' \in Changed(onto, p) /\ UNCHANGED base
  /\ touched' = touched \cup {p}
  /\ UNCHANGED <<before, env, replace, started, steps, missing, uv, result, calls, status>>

-----------------------------------------------------------------------------
Worker(p) == WorkStat(p) \/ WorkScandir(p) \/ WorkRename(p) \/ WorkRmdir(p)
Loop(p) ==
  OnStatDir(p) \/ OnStatFile(p) \/ OnScandir(p) \/ OnRename(p) \/ OnRmdir(p)

Next ==
  \/ Call
  \/ \E p \in Path : WorkStat(p)
  \/ \E p \in Path : WorkScandir(p)
  \/ \E p \in Path : WorkRename(p)
  \/ \E p \in Path : WorkRmdir(p)
  \/ \E p \in Path : OnStatDir(p)
  \/ \E p \in Path : OnStatFile(p)
  \/ \E p \in Path : OnScandir(p)
  \/ \E p \in Path : OnRename(p)
  \/ \E p \in Path : OnRmdir(p)
  \/ \E p \in Path : OtherChanges(p)

(* libuv runs every submitted request and every loop iteration delivers    *)
(* the finished ones.                                                      *)
Fairness ==
  /\ \A p \in Path : WF_vars(Worker(p))
  /\ \A p \in Path : WF_vars(Loop(p))

Spec == Init /\ [][Next]_vars /\ Fairness

-----------------------------------------------------------------------------
(* Properties.                                                             *)

(* Every field keeps its type; in particular missing never goes negative.  *)
TypeOK ==
  /\ base \in Tree /\ onto \in Tree
  /\ before \in [base : Tree, onto : Tree]
  /\ env \in EnvType
  /\ touched \subseteq Path
  /\ replace \in BOOLEAN /\ started \in BOOLEAN
  /\ steps \subseteq Path
  /\ missing \in [Path -> Nat]
  /\ uv \in [Path -> Request]
  /\ result \in Err /\ status \in Err
  /\ calls \in Nat

(* The children of the step of d.                                          *)
ChildSteps(d) == {q \in steps : q # Top /\ Parent(q) = d}

(* missing is exact: a step counts its live children, and has a request of *)
(* its own exactly while it has none - so that no rmdir of base is tried   *)
(* while an entry is still on its way, and no step is left with nobody to  *)
(* finish it, but for the one whose entries were all skipped for being too *)
(* long (src/merge.c:43, 51-56, 131, 142, 159).                            *)
MissingIsExact ==
  \A d \in steps :
    /\ missing[d] = Cardinality(ChildSteps(d))
    /\ Pending(d) => missing[d] = 0
    /\ ~Pending(d) /\ missing[d] = 0 => \E q \in env.toolong : Parent(q) = d

(* When the callback of the caller has run, nothing of the operation is    *)
(* left, neither a step nor a request; it runs at most once; and no        *)
(* request refers to a freed step (src/merge.c:28-65).                     *)
QuietAfterCallback ==
  /\ calls <= 1
  /\ calls > 0 => steps = {}
  /\ \A p \in Path : Pending(p) => p \in steps
  /\ \A d \in steps : d # Top => Parent(d) \in steps

(* The merge as its caller sees it.                                        *)
Merging == INSTANCE TreeMerge WITH
  outcome <- IF calls = 0 THEN "none" ELSE status

(* fs_merge only moves entries to their place and drops empty directories  *)
(* onto has as well; it replaces files only when asked to, however the     *)
(* requests interleave; and success means that base is gone and onto holds *)
(* the overlay of the two.                                                 *)
RefinesMerge == Merging!Spec

(* Nothing keeps base from being merged onto onto: every entry may be      *)
(* moved, nobody interferes, and what both have agrees in kind.            *)
Mergeable ==
  LET b == before.base
      o == before.onto
      common == {p \in Path : b[p] # Missing /\ o[p] # Missing}
  IN /\ touched = {} /\ env.typed
     /\ env.unreadable = {} /\ env.toolong = {}
     /\ \A p \in Path : env.deny[p] = OK
     /\ b[Top] # Missing
     /\ Top \in common => b[Top] = Dir
     /\ \A p \in common : /\ b[p] = Dir <=> o[p] = Dir
                          /\ b[p] = Dir \/ replace

(* A merge nothing stands in the way of succeeds: test/merge.c:61 and      *)
(* test/merge-onto-missing.c assert status 0 for two such trees.           *)
MergeableIsMerged == calls > 0 /\ Mergeable => status = OK

(* The callback runs in the end, whatever fails and whatever changes, when *)
(* every path can be joined.                                               *)
ReturnsIfJoinable == (started /\ env.toolong = {}) ~> calls > 0
=============================================================================
