------------------------------- MODULE Rmdir --------------------------------
(***************************************************************************)
(* fs_rmdir: src/rmdir.c.                                                  *)
(*                                                                         *)
(* One call of fs_rmdir, plain or recursive, from the submission of the    *)
(* first uv_fs_rmdir to the callback of the caller.  The recursive form    *)
(* keeps one fs_rmdir_step_t per directory it works on.  A step counts in  *)
(* missing the entries of its directory that are still being removed; the  *)
(* step that brings the count of its parent to zero submits the rmdir of   *)
(* the parent.                                                             *)
(*                                                                         *)
(* A libuv request passes through three states: submitted, run by a worker *)
(* thread (the system call happens, its result is stored), and handed to   *)
(* its callback on the loop thread.  Any number of requests may be in      *)
(* flight and both halves happen in any order across requests.  Another    *)
(* process may change the tree between any two steps.                      *)
(***************************************************************************)
EXTENDS FileTree

CONSTANTS
  Trees,       (* the trees the call may start from                        *)
  Envs,        (* the surroundings it may run in, see EnvType              *)
  MaxCreated   (* how many entries another process may create meanwhile    *)

VARIABLES
  tree,        (* the file system                                          *)
  env,         (* permissions and path lengths, fixed for the behaviour    *)
  created,     (* entries another process created since the call           *)
  mode,        (* "idle", "plain" or "recursive": how fs_rmdir was called  *)
  steps,       (* the fs_rmdir_step_t allocated, named by their path       *)
  missing,     (* the missing field of each step                           *)
  uv,          (* the libuv request working on each path                   *)
  result,      (* the result field of the fs_rmdir_t                       *)
  calls,       (* how often the caller's callback ran                      *)
  status       (* the status it was last given                             *)

vars == <<tree, env, created, mode, steps, missing, uv, result, calls, status>>

Err == {OK, "ENOENT", "ENOTDIR", "ENOTEMPTY", "EISDIR", "EPERM", "EACCES"}

(* deny: the error of the permission check when the entry is removed;      *)
(* unreadable: directories that cannot be listed; toolong: paths that      *)
(* path_join rejects; onDir: what unlink(2) gives for a directory.         *)
EnvType ==
  [deny : [Path -> {OK, "EACCES", "EPERM"}], unreadable : SUBSET Path,
   toolong : SUBSET Entry, onDir : {"EISDIR", "EPERM"}]

ASSUME RmdirAssumption ==
  /\ \A t \in Trees : t \in Tree /\ WellFormed(t)
  /\ \A e \in Envs : e \in EnvType
  /\ MaxCreated \in Nat

(* The callbacks a uv_fs_t can be waiting for.  The system call follows    *)
(* from the callback.                                                      *)
Callbacks == {"on_unlink", "on_scandir", "on_rmdir", "on_rmdir_recursive"}

(* A uv_fs_t.  buf tells the one embedded in the caller's fs_rmdir_t from  *)
(* the malloc'ed ones; list is the listing of a finished scandir.          *)
Request ==
  [cb : Callbacks \cup {"none"}, done : BOOLEAN, err : Err, list : SUBSET Entry,
   buf : {"embedded", "heap"}]

Idle == [cb |-> "none", done |-> FALSE, err |-> OK, list |-> {}, buf |-> "heap"]
Submit(cb, buf) == [Idle EXCEPT !.cb = cb, !.buf = buf]

Pending(p) == uv[p].cb # "none"

(* The step a request's data points to.                                    *)
StepOf(p) == IF uv[p].cb = "on_unlink" THEN Parent(p) ELSE p

-----------------------------------------------------------------------------
Init ==
  /\ tree \in Trees
  /\ env \in Envs
  /\ created = {}
  /\ mode = "idle"
  /\ steps = {}
  /\ missing = [p \in Path |-> 0]
  /\ uv = [p \in Path |-> Idle]
  /\ result = OK
  /\ calls = 0
  /\ status = OK

(* fs_rmdir(loop, req, path, recursive, cb).                               *)
Call(recursive) ==
  /\ mode = "idle"
  /\ mode' = IF recursive THEN "recursive" ELSE "plain"
  /\ steps' = IF recursive THEN {Top} ELSE {}
  /\ uv' = [uv EXCEPT ![Top] =
       Submit(IF recursive THEN "on_rmdir_recursive" ELSE "on_rmdir", "embedded")]
  /\ result' = OK
  /\ UNCHANGED <<tree, env, created, missing, calls, status>>

-----------------------------------------------------------------------------
(* The worker threads of libuv.                                            *)

Ran(p, err, list) == [uv EXCEPT ![p].done = TRUE, ![p].err = err, ![p].list = list]

WorkUnlink(p) ==
  /\ uv[p].cb = "on_unlink" /\ ~uv[p].done
  /\ LET err == UnlinkErr(tree, p, env.deny[p], env.onDir) IN
       /\ uv' = Ran(p, err, {})
       /\ tree' = IF err = OK THEN Without(tree, p) ELSE tree
  /\ UNCHANGED <<env, created, mode, steps, missing, result, calls, status>>

WorkRmdir(p) ==
  /\ uv[p].cb \in {"on_rmdir", "on_rmdir_recursive"} /\ ~uv[p].done
  /\ LET err == RmdirErr(tree, p, env.deny[p]) IN
       /\ uv' = Ran(p, err, {})
       /\ tree' = IF err = OK THEN Without(tree, p) ELSE tree
  /\ UNCHANGED <<env, created, mode, steps, missing, result, calls, status>>

WorkScandir(p) ==
  /\ uv[p].cb = "on_scandir" /\ ~uv[p].done
  /\ LET err == ScandirErr(tree, p, p \notin env.unreadable) IN
       uv' = Ran(p, err, IF err = OK THEN Children(tree, p) ELSE {})
  /\ UNCHANGED <<tree, env, created, mode, steps, missing, result, calls, status>>

-----------------------------------------------------------------------------
(* The loop thread.                                                        *)

(* A slip: the last result counts, also when it is a success.              *)
RetainLast(err) == err

(* if (err < 0) req->result = err                                          *)
Retain(err) == IF err # OK THEN err ELSE result

(* on_finished: the caller's callback.                                     *)
OnFinished ==
  /\ calls' = calls + 1
  /\ status' = result'

(* Slips: the test is off by one, or is gone.                              *)
DrainedEarly(count, d)  == count[d] <= 1
DrainedAlways(count, d) == TRUE

(* rec->missing == 0                                                       *)
Drained(count, d) == count[d] = 0

(* A slip: the parent is marked finished, and nobody submits its rmdir.    *)
HandedOnNowhere(p) == Idle

(* The uv_fs_t a finished step hands on to the rmdir of its parent.        *)
HandedOn(p) == Submit("on_rmdir_recursive", uv[p].buf)

(* on_finished_maybe(uv_req, rec, err): the request of path p ended with   *)
(* err on behalf of step d; count is missing as the callback left it.      *)
OnFinishedMaybe(p, d, err, count) ==
  /\ result' = Retain(err)
  /\ \/ /\ ~Drained(count, d)
        /\ missing' = count
        /\ uv' = [uv EXCEPT ![p] = Idle]
        /\ UNCHANGED <<steps, calls, status>>
     \/ /\ Drained(count, d) /\ d = Top
        /\ steps' = steps \ {d}
        /\ missing' = count
        /\ uv' = [uv EXCEPT ![p] = Idle]
        /\ OnFinished
     \/ /\ Drained(count, d) /\ d # Top
        /\ steps' = steps \ {d}
        /\ missing' = [count EXCEPT ![Parent(d)] = @ - 1]
        /\ uv' = IF Drained(missing', Parent(d))
                 THEN [uv EXCEPT ![p] = Idle, ![Parent(d)] = HandedOn(p)]
                 ELSE [uv EXCEPT ![p] = Idle]
        /\ UNCHANGED <<calls, status>>

(* The errors of unlink that on_unlink takes to mean "this is a directory".*)
DirErrors == {"EPERM", "EISDIR"}

(* A slip: both on_unlink and on_finished_maybe count the entry off.       *)
DiscountTwice(d) == [missing EXCEPT ![d] = @ - 2]

(* default: rec->missing--                                                 *)
Discount(d) == [missing EXCEPT ![d] = @ - 1]

OnUnlink(p) ==
  /\ uv[p].cb = "on_unlink" /\ uv[p].done
  /\ \/ /\ uv[p].err \in DirErrors
        /\ steps' = steps \cup {p}
        /\ missing' = [missing EXCEPT ![p] = 0]
        /\ uv' = [uv EXCEPT ![p] = Submit("on_rmdir_recursive", uv[p].buf)]
        /\ UNCHANGED <<result, calls, status>>
     \/ /\ uv[p].err \notin DirErrors
        /\ OnFinishedMaybe(p, Parent(p), uv[p].err, Discount(Parent(p)))
  /\ UNCHANGED <<tree, env, created, mode>>

(* path_join(...) < 0: continue                                            *)
Joined(list) == list \ env.toolong

(* A slip: the increment comes before the path_join that may fail.         *)
CountedListed(list) == Cardinality(list)

(* rec->missing++, once for every entry that is submitted.                 *)
Counted(list) == Cardinality(Joined(list))

(* A slip: the entry is unlinked with the request of the caller.           *)
RmReqOfCaller == Submit("on_unlink", "embedded")

(* rm_req, the malloc'ed request that unlinks one entry.                   *)
RmReq == Submit("on_unlink", "heap")

OnScandir(p) ==
  /\ uv[p].cb = "on_scandir" /\ uv[p].done
  /\ \/ /\ uv[p].list = {}
        /\ OnFinishedMaybe(p, p, uv[p].err, missing)
     \/ /\ uv[p].list # {}
        /\ uv' = [q \in Path |->
                    IF q = p THEN Idle
                    ELSE IF q \in Joined(uv[p].list) THEN RmReq
                    ELSE uv[q]]
        /\ missing' = [missing EXCEPT ![p] = @ + Counted(uv[p].list)]
        /\ UNCHANGED <<steps, result, calls, status>>
  /\ UNCHANGED <<tree, env, created, mode>>

OnRmdirRecursive(p) ==
  /\ uv[p].cb = "on_rmdir_recursive" /\ uv[p].done
  /\ \/ /\ uv[p].err = "ENOTEMPTY"
        /\ uv' = [uv EXCEPT ![p] = Submit("on_scandir", uv[p].buf)]
        /\ UNCHANGED <<steps, missing, result, calls, status>>
     \/ /\ uv[p].err # "ENOTEMPTY"
        /\ OnFinishedMaybe(p, p, uv[p].err, missing)
  /\ UNCHANGED <<tree, env, created, mode>>

OnRmdir ==
  /\ uv[Top].cb = "on_rmdir" /\ uv[Top].done
  /\ result' = Retain(uv[Top].err)
  /\ uv' = [uv EXCEPT ![Top] = Idle]
  /\ OnFinished
  /\ UNCHANGED <<tree, env, created, mode, steps, missing>>

-----------------------------------------------------------------------------
(* Another process working in the same tree while the call is under way.   *)

OtherCreates(p, k) ==
  /\ mode # "idle" /\ calls = 0
  /\ Cardinality(created) < MaxCreated
  /\ p # Top /\ tree[p] = Missing /\ tree[Parent(p)] = Dir
  /\ tree' = [tree EXCEPT ![p] = k]
  /\ created' = created \cup {p}
  /\ UNCHANGED <<env, mode, steps, missing, uv, result, calls, status>>

OtherRemoves(p) ==
  /\ mode # "idle" /\ calls = 0
  /\ MaxCreated > 0
  /\ tree[p] # Missing /\ Children(tree, p) = {}
  /\ tree' = Without(tree, p)
  /\ UNCHANGED <<env, created, mode, steps, missing, uv, result, calls, status>>

-----------------------------------------------------------------------------
Worker(p) == WorkUnlink(p) \/ WorkRmdir(p) \/ WorkScandir(p)
Loop(p)   == OnUnlink(p) \/ OnScandir(p) \/ OnRmdirRecursive(p)

Next ==
  \/ \E recursive \in BOOLEAN : Call(recursive)
  \/ \E p \in Path : WorkUnlink(p)
  \/ \E p \in Path : WorkRmdir(p)
  \/ \E p \in Path : WorkScandir(p)
  \/ \E p \in Path : OnUnlink(p)
  \/ \E p \in Path : OnScandir(p)
  \/ \E p \in Path : OnRmdirRecursive(p)
  \/ OnRmdir
  \/ \E p \in Path, k \in {Dir} \cup File : OtherCreates(p, k)
  \/ \E p \in Path : OtherRemoves(p)

(* libuv runs every submitted request and every loop iteration delivers    *)
(* the finished ones.                                                      *)
Fairness ==
  /\ \A p \in Path : WF_vars(Worker(p))
  /\ \A p \in Path : WF_vars(Loop(p))
  /\ WF_vars(OnRmdir)

Spec == Init /\ [][Next]_vars /\ Fairness

-----------------------------------------------------------------------------
(* Properties.                                                             *)

(* Every field keeps its type; in particular missing never goes negative.  *)
TypeOK ==
  /\ tree \in Tree
  /\ env \in EnvType
  /\ created \subseteq Path
  /\ mode \in {"idle", "plain", "recursive"}
  /\ steps \subseteq Path
  /\ missing \in [Path -> Nat]
  /\ uv \in [Path -> Request]
  /\ result \in Err
  /\ calls \in Nat
  /\ status \in Err

(* The entries of directory d whose removal is under way: those still      *)
(* being unlinked and those that became steps of their own.                *)
Outstanding(d) ==
  {q \in Entry : Parent(q) = d /\ (uv[q].cb = "on_unlink" \/ q \in steps)}

(* missing is exact: the step of a directory counts the entries that will  *)
(* still report to it, no more and no fewer, and while one of them is      *)
(* under way no request of the step itself is (src/rmdir.c:40, 47-52, 92,  *)
(* 138).                                                                   *)
MissingIsExact ==
  \A d \in steps : /\ missing[d] = Cardinality(Outstanding(d))
                   /\ Pending(d) => missing[d] = 0

(* No callback reaches a freed step: the step a pending request points to  *)
(* is allocated, and so is the parent of every allocated step, to which    *)
(* on_finished_maybe will report (src/rmdir.c:35-36, 47, 65).              *)
NoDanglingStep ==
  /\ \A p \in Path : Pending(p) /\ mode = "recursive" => StepOf(p) \in steps
  /\ \A d \in steps : d # Top => Parent(d) \in steps

(* The request embedded in the caller's fs_rmdir_t never wanders off the   *)
(* root step, although finished requests are handed from step to step:     *)
(* on_finished_maybe frees the request of any other (src/rmdir.c:50-60).   *)
FreesOnlyHeap ==
  \A p \in Path : Pending(p) /\ uv[p].buf = "embedded" => p = Top

(* When the callback of the caller has run, nothing of the operation is    *)
(* left, neither a step nor a request, so the caller may reuse or free its *)
(* fs_rmdir_t; and it runs at most once (src/rmdir.c:22-29).               *)
QuietAfterCallback ==
  /\ calls <= 1
  /\ calls > 0 => steps = {} /\ \A p \in Path : ~Pending(p)

(* The removal as its caller sees it.                                      *)
Removal == INSTANCE TreeRemoval WITH
  recursive <- mode = "recursive",
  started   <- mode # "idle",
  outcome   <- IF calls = 0 THEN "none" ELSE status,
  skipped   <- env.toolong

(* fs_rmdir removes entries from the leaves up, only between the call and  *)
(* the callback, and reports success only when no file it found is left.   *)
RefinesRemoval == Removal!Spec

(* Nothing in the tree withstands removal.                                 *)
Removable ==
  /\ \A p \in Path : env.deny[p] = OK
  /\ env.unreadable = {} /\ env.toolong = {}

(* A tree that can be removed is: the callback runs in the end, whatever   *)
(* the order of the requests and whatever else happens in the tree.        *)
ReturnsIfRemovable == (mode # "idle" /\ Removable) ~> calls > 0

(* test/mkdir-rmdir-recursive.c:43 asserts that the callback of fs_rmdir   *)
(* has run once the loop is empty.                                         *)
Returns == mode # "idle" ~> calls > 0

(* After a recursive fs_rmdir that reports success the directory is gone:  *)
(* test/mkdir-rmdir-recursive.c:17 takes status 0 to mean that.            *)
SuccessRemovesTop == calls > 0 /\ status = OK => tree[Top] = Missing
=============================================================================
