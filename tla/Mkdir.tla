------------------------------- MODULE Mkdir --------------------------------
(***************************************************************************)
(* fs_mkdir: src/mkdir.c.                                                  *)
(*                                                                         *)
(* Any number of concurrent calls, plain or recursive, on one tree, next   *)
(* to another process that creates and removes entries.  The recursive     *)
(* form tries the whole path first, walks up while the parent is missing   *)
(* and walks down again creating what it went past.  It walks on one       *)
(* string, rec->next, a copy of the path in which it overwrites separators *)
(* with NUL on the way up and restores them one by one on the way down.    *)
(*                                                                         *)
(* Here Top is the root of the volume the paths are on.                    *)
(***************************************************************************)
EXTENDS FileTree

CONSTANTS
  Req,         (* the fs_mkdir_t of the callers                            *)
  Trees,       (* the trees to start from                                  *)
  Targets,     (* the paths fs_mkdir is called with                        *)
  Denials,     (* which directories may not be added, see Denial           *)
  MaxOthers    (* how many changes another process may make                *)

VARIABLES
  tree,        (* the file system                                          *)
  deny,        (* the error of adding an entry where it is not permitted   *)
  mode,        (* how each call was made: "none", "plain" or "recursive"   *)
  target,      (* req->path                                                *)
  cuts,        (* where rec->next holds NUL for a separator: after how     *)
               (* many components.  Empty also when rec->next is NULL      *)
  uv,          (* the libuv request of each call                           *)
  status,      (* what the callback was given, "none" before               *)
  others,      (* how many changes the other process made                  *)
  gone,        (* the paths it removed                                     *)
  meddled      (* the calls somebody else changed the tree under: an entry *)
               (* on the path of the call came or went while it ran        *)

vars == <<tree, deny, mode, target, cuts, uv, status, others, gone, meddled>>

Err == {OK, "ENOENT", "ENOTDIR", "EEXIST", "EACCES", "EPERM", "ENOSPC", "EROFS"}

Denial == [Path -> {OK, "EACCES", "EPERM", "ENOSPC", "EROFS"}]

ASSUME MkdirAssumption ==
  /\ \A t \in Trees : t \in Tree
  /\ Targets \subseteq Entry
  /\ \A d \in Denials : d \in Denial
  /\ MaxOthers \in Nat

Callbacks == {"on_mkdir", "on_mkdir_recursive", "on_stat"}

(* A uv_fs_t: the path it works on, its result, and st_mode of its statbuf.*)
Request ==
  [cb : Callbacks \cup {"none"}, path : Path, done : BOOLEAN, err : Err, isdir : BOOLEAN]

Submit(cb, path) ==
  [cb |-> cb, path |-> path, done |-> FALSE, err |-> OK, isdir |-> FALSE]

Idle == Submit("none", Top)

Running(r) == mode[r] # "none" /\ status[r] = "none"

(* The string at rec->next ends at the first NUL.                          *)
NextPath(r, cut) ==
  SubSeq(target[r], 1,
         CHOOSE n \in cut \cup {Len(target[r])} :
           \A m \in cut \cup {Len(target[r])} : n <= m)

-----------------------------------------------------------------------------
Init ==
  /\ tree \in Trees
  /\ deny \in Denials
  /\ mode = [r \in Req |-> "none"]
  /\ target \in [Req -> Targets]
  /\ cuts = [r \in Req |-> {}]
  /\ uv = [r \in Req |-> Idle]
  /\ status = [r \in Req |-> "none"]
  /\ others = 0
  /\ gone = {}
  /\ meddled = {}

(* fs_mkdir(loop, req, path, mode, recursive, cb).                         *)
Call(r, recursive) ==
  /\ mode[r] = "none"
  /\ mode' = [mode EXCEPT ![r] = IF recursive THEN "recursive" ELSE "plain"]
  /\ uv' = [uv EXCEPT ![r] =
       Submit(IF recursive THEN "on_mkdir_recursive" ELSE "on_mkdir", target[r])]
  /\ UNCHANGED <<tree, deny, target, cuts, status, others, gone, meddled>>

-----------------------------------------------------------------------------
(* The worker threads of libuv.                                            *)

(* The calls, other than those in by, that a change at p happens under.    *)
Under(p, by) == {r \in Req \ by : Running(r) /\ IsPrefix(p, target[r])}

WorkMkdir(r) ==
  /\ uv[r].cb \in {"on_mkdir", "on_mkdir_recursive"} /\ ~uv[r].done
  /\ LET p   == uv[r].path
         err == MkdirErr(tree, p, deny[p])
     IN /\ uv' = [uv EXCEPT ![r].done = TRUE, ![r].err = err]
        /\ tree' = IF err = OK THEN [tree EXCEPT ![p] = Dir] ELSE tree
        /\ meddled' = IF err = OK THEN meddled \cup Under(p, {r}) ELSE meddled
  /\ UNCHANGED <<deny, mode, target, cuts, status, others, gone>>

WorkStat(r) ==
  /\ uv[r].cb = "on_stat" /\ ~uv[r].done
  /\ uv' = [uv EXCEPT ![r].done = TRUE,
                      ![r].err = LookupErr(tree, uv[r].path),
                      ![r].isdir = tree[uv[r].path] = Dir]
  /\ UNCHANGED <<tree, deny, mode, target, cuts, status, others, gone, meddled>>

-----------------------------------------------------------------------------
(* The loop thread.                                                        *)

(* on_finished: the callback of the caller.                                *)
OnFinished(r, err) ==
  /\ status' = [status EXCEPT ![r] = err]
  /\ uv' = [uv EXCEPT ![r] = Idle]
  /\ UNCHANGED cuts

(* A slip: an existing directory is an error.                              *)
FinalWithExists == {"EACCES", "ENOSPC", "ENOTDIR", "EPERM", "EEXIST"}

(* The errors of mkdir that end the call.                                  *)
Final == {"EACCES", "ENOSPC", "ENOTDIR", "EPERM"}

(* A slip: the walk up does not stop.                                      *)
IsRootNever(p) == FALSE

(* dirname == strlen(req->path)                                            *)
IsRoot(p) == p = Top

(* A slip: the cut is one separator too far up.                            *)
CutBeforeParent(p) == IF Len(p) > 1 THEN Len(p) - 2 ELSE 0

(* rec->next[dirname - 1] = 0: where the NUL that cuts off the last        *)
(* component of p goes.                                                    *)
CutOff(p) == Len(p) - 1

(* rec->next[strlen(rec->next)] = '/'                                      *)
Restored(r) == cuts[r] \ {Len(NextPath(r, cuts[r]))}

TryNext(r, cut) ==
  /\ cuts' = [cuts EXCEPT ![r] = cut]
  /\ uv' = [uv EXCEPT ![r] = Submit("on_mkdir_recursive", NextPath(r, cut))]
  /\ UNCHANGED status

OnMkdirRecursive(r) ==
  /\ uv[r].cb = "on_mkdir_recursive" /\ uv[r].done
  /\ LET err == uv[r].err IN
       \/ /\ err \in Final
          /\ OnFinished(r, err)
       \/ /\ err = OK /\ cuts[r] = {}
          /\ OnFinished(r, OK)
       \/ /\ err = OK /\ cuts[r] # {}
          /\ TryNext(r, Restored(r))
       \/ /\ err = "ENOENT" /\ IsRoot(uv[r].path)
          /\ OnFinished(r, err)
       \/ /\ err = "ENOENT" /\ ~IsRoot(uv[r].path)
          /\ TryNext(r, cuts[r] \cup {CutOff(uv[r].path)})
       \/ /\ err \notin Final \cup {OK, "ENOENT"}
          /\ uv' = [uv EXCEPT ![r] = Submit("on_stat", target[r])]
          /\ UNCHANGED <<cuts, status>>
  /\ UNCHANGED <<tree, deny, mode, target, others, gone, meddled>>

(* A slip: what is at the path need not be a directory.                    *)
StatErrOnly(r) == uv[r].err

(* if (err == 0 && !S_ISDIR(req->statbuf.st_mode)) err = UV_ENOTDIR        *)
StatErr(r) == IF uv[r].err = OK /\ ~uv[r].isdir THEN "ENOTDIR" ELSE uv[r].err

OnStat(r) ==
  /\ uv[r].cb = "on_stat" /\ uv[r].done
  /\ OnFinished(r, StatErr(r))
  /\ UNCHANGED <<tree, deny, mode, target, others, gone, meddled>>

OnMkdir(r) ==
  /\ uv[r].cb = "on_mkdir" /\ uv[r].done
  /\ OnFinished(r, uv[r].err)
  /\ UNCHANGED <<tree, deny, mode, target, others, gone, meddled>>

-----------------------------------------------------------------------------
(* Another process.                                                        *)

OtherCreates(p, k) ==
  /\ others < MaxOthers /\ \E r \in Req : Running(r)
  /\ p # Top /\ tree[p] = Missing /\ tree[Parent(p)] = Dir
  /\ tree' = [tree EXCEPT ![p] = k]
  /\ others' = others + 1
  /\ meddled' = meddled \cup Under(p, {})
  /\ UNCHANGED <<deny, mode, target, cuts, uv, status, gone>>

OtherRemoves(p) ==
  /\ others < MaxOthers /\ \E r \in Req : Running(r)
  /\ p # Top /\ tree[p] # Missing /\ Children(tree, p) = {}
  /\ tree' = Without(tree, p)
  /\ others' = others + 1
  /\ gone' = gone \cup {p}
  /\ meddled' = meddled \cup Under(p, {})
  /\ UNCHANGED <<deny, mode, target, cuts, uv, status>>

-----------------------------------------------------------------------------
Worker(r) == WorkMkdir(r) \/ WorkStat(r)
Loop(r)   == OnMkdirRecursive(r) \/ OnStat(r) \/ OnMkdir(r)

Next ==
  \/ \E r \in Req, recursive \in BOOLEAN : Call(r, recursive)
  \/ \E r \in Req : WorkMkdir(r)
  \/ \E r \in Req : WorkStat(r)
  \/ \E r \in Req : OnMkdirRecursive(r)
  \/ \E r \in Req : OnStat(r)
  \/ \E r \in Req : OnMkdir(r)
  \/ \E p \in Path, k \in {Dir} \cup File : OtherCreates(p, k)
  \/ \E p \in Path : OtherRemoves(p)

(* libuv runs every submitted request and delivers every finished one.     *)
Fairness == \A r \in Req : WF_vars(Worker(r)) /\ WF_vars(Loop(r))

Spec == Init /\ [][Next]_vars /\ Fairness

-----------------------------------------------------------------------------
(* Properties.                                                             *)

(* Every field keeps its type; in particular no NUL is ever written before *)
(* or behind the string (src/mkdir.c:66, 87).                              *)
TypeOK ==
  /\ tree \in Tree
  /\ deny \in Denial
  /\ mode \in [Req -> {"none", "plain", "recursive"}]
  /\ target \in [Req -> Entry]
  /\ cuts \in [Req -> SUBSET Nat]
  /\ \A r \in Req : \A n \in cuts[r] : n < Len(target[r])
  /\ uv \in [Req -> Request]
  /\ status \in [Req -> Err \cup {"none"}]
  /\ others \in Nat
  /\ gone \subseteq Path
  /\ meddled \subseteq Req

(* The walk never loses its place: while mkdir runs on an ancestor of the  *)
(* path, exactly the separators behind that ancestor are overwritten, so   *)
(* that restoring the first one leads one component down and restoring all *)
(* of them gives the path back (src/mkdir.c:60-70, 83-91).                 *)
CutsAreContiguous ==
  \A r \in Req : uv[r].cb = "on_mkdir_recursive" =>
     LET n == Len(uv[r].path) IN
       /\ n <= Len(target[r]) /\ uv[r].path = SubSeq(target[r], 1, n)
       /\ cuts[r] = n .. Len(target[r]) - 1

(* Success means that the directory is there, unless somebody else removed *)
(* it since, whatever the calls and the other process did on the way.      *)
SuccessMeansDirectory ==
  \A r \in Req : status[r] = OK => tree[target[r]] = Dir \/ target[r] \in gone

(* What a recursive call may fail with, and why.  An entry that is already *)
(* there is never an error; ENOENT is only given to a call that lost a     *)
(* race, or whose volume is missing or read-only (on a read-only one       *)
(* src/mkdir.c:100 asks for the path and reports that it is not there).    *)
FailureHasCause ==
  \A r \in Req : mode[r] = "recursive" =>
     LET above == {p \in Path : IsPrefix(p, target[r])} IN
       /\ status[r] \notin {"EEXIST", "EROFS"}
       /\ status[r] = "ENOENT" =>
            r \in meddled \/ tree[Top] = Missing \/ \E p \in above : deny[p] = "EROFS"
       /\ status[r] = "ENOTDIR" =>
            r \in meddled \/ above \cap (Files(tree) \cup gone) # {}
       /\ status[r] \in Final \ {"ENOTDIR"} => \E p \in above : deny[p] = status[r]

(* Every call returns, however far up it has to walk and whatever the      *)
(* other process takes away meanwhile.                                     *)
Returns == \A r \in Req : mode[r] # "none" ~> status[r] # "none"

(* With nothing in the way a recursive fs_mkdir succeeds, as               *)
(* test/merge.c:53 asserts.                                                *)
Unhindered ==
  /\ \A p \in Path : deny[p] = OK
  /\ tree[Top] = Dir /\ Files(tree) = {} /\ others = 0

SucceedsUnhindered ==
  Unhindered => \A r \in Req : mode[r] = "recursive" => status[r] \in {"none", OK}
=============================================================================
