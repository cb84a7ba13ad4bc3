---------------------------- MODULE MergeProofs ----------------------------
(***************************************************************************)
(* Proofs about Merge, for every pair of trees, all surroundings and any   *)
(* number of changes made by another process.                              *)
(*                                                                         *)
(* The first part is about the steps and their counts, and holds whatever  *)
(* the trees are (IInv).  The second relates the trees to those at the     *)
(* call (RInv) and shows that fs_merge keeps the promise of TreeMerge.     *)
(* The third follows a merge that nothing stands in the way of, step by    *)
(* step (MInv), and shows that it succeeds.                                *)
(***************************************************************************)
EXTENDS Merge, FileTreeProofs

-----------------------------------------------------------------------------
(* The inductive invariant.                                                *)

(* Before the call nothing is allocated or counted.                        *)
NothingBeforeCall ==
  ~started => calls = 0 /\ missing[Top] = 0 /\ steps = {}

(* A listing holds entries of the directory that was listed.               *)
ListsHoldEntries ==
  \A p \in Path : \A q \in uv[p].list : q \in Entry /\ Parent(q) = p

IInv ==
  /\ TypeOK
  /\ NothingBeforeCall
  /\ ListsHoldEntries
  /\ MissingIsExact
  /\ QuietAfterCallback

-----------------------------------------------------------------------------
(* Small facts.                                                            *)

(* What Submit and Idle build.                                             *)
LEMMA SubmitFacts ==
  ASSUME NEW cb \in Callbacks \cup {"none"}
  PROVE  /\ Submit(cb) \in Request
         /\ Submit(cb).cb = cb /\ ~Submit(cb).done /\ Submit(cb).list = {}
BY DEF Submit, Request, Err, OK

LEMMA IdleFacts ==
  /\ Idle \in Request
  /\ Idle.cb = "none" /\ ~Idle.done /\ Idle.list = {}
BY SubmitFacts DEF Idle

(* A request belongs to a live step without children, of a merge under way.*)
LEMMA RequestFacts ==
  ASSUME IInv, NEW p \in Path, uv[p].cb # "none"
  PROVE  /\ p \in steps /\ steps \subseteq Path /\ Closed(steps)
         /\ started /\ calls = 0
         /\ missing[p] = 0 /\ ChildSteps(p) = {}
         /\ \A q \in steps : IsPrefix(p, q) => q = p
<1>1. p \in steps /\ steps \subseteq Path /\ Closed(steps)
  BY DEF IInv, TypeOK, QuietAfterCallback, Pending, Closed
<1>2. started /\ calls = 0
  BY <1>1 DEF IInv, TypeOK, NothingBeforeCall, QuietAfterCallback
<1>3. missing[p] = 0 /\ ChildSteps(p) = {}
  <2>1. missing[p] = 0 /\ missing[p] = Cardinality(ChildSteps(p))
    BY <1>1 DEF IInv, MissingIsExact, Pending
  <2>2. ChildSteps(p) \in SUBSET Path
    BY <1>1 DEF ChildSteps
  <2> QED
    BY <2>1, <2>2, PathSets
<1>4. \A c \in Entry : Parent(c) = p => c \notin steps
  BY <1>3 DEF ChildSteps, Entry
<1> QED
  BY <1>1, <1>2, <1>3, <1>4, NoMemberBelow

(* The errors of the system calls are among those of the model.            *)
LEMMA ErrTypes ==
  ASSUME env \in EnvType, NEW p \in Path, NEW b, NEW o
  PROVE  /\ LookupErr(o, p) \in Err
         /\ ScandirErr(b, p, p \notin env.unreadable) \in Err
         /\ RenameErr(b, o, p, env.deny[p]) \in Err
         /\ RmdirErr(b, p, env.deny[p]) \in Err
<1>1. env.deny[p] \in Err
  BY DEF EnvType, Err, OK
<1>2. LookupErr(o, p) \in Err /\ LookupErr(b, p) \in Err
  BY DEF LookupErr, Err
<1>3. ScandirErr(b, p, p \notin env.unreadable) \in Err
  BY <1>2 DEF ScandirErr, Err, OK
<1>4. RenameErr(b, o, p, env.deny[p]) \in Err
  BY <1>1, <1>2 DEF RenameErr, Err, OK
<1>5. RmdirErr(b, p, env.deny[p]) \in Err
  BY <1>1, <1>2 DEF RmdirErr, Err, OK
<1> QED
  BY <1>2, <1>3, <1>4, <1>5

(* What a worker stores in a request.                                      *)
LEMMA StatStores ==
  ASSUME IInv, NEW p \in Path, WorkStat(p)
  PROVE  /\ uv' \in [Path -> Request]
         /\ uv'[p].cb = uv[p].cb /\ uv'[p].done /\ uv'[p].list = uv[p].list
         /\ uv'[p].err = LookupErr(onto, p) /\ uv'[p].isdir = (onto[p] = Dir)
         /\ \A q \in Path : q # p => uv'[q] = uv[q]
<1> DEFINE to == [uv[p] EXCEPT !.done = TRUE, !.err = LookupErr(onto, p),
                               !.isdir = onto[p] = Dir]
<1>1. uv \in [Path -> Request] /\ uv[p] \in Request
  BY DEF IInv, TypeOK
<1>2. LookupErr(onto, p) \in Err
  BY ErrTypes DEF IInv, TypeOK
<1>3. /\ to \in Request
      /\ to.cb = uv[p].cb /\ to.done /\ to.list = uv[p].list
      /\ to.err = LookupErr(onto, p) /\ to.isdir = (onto[p] = Dir)
  BY <1>1, <1>2 DEF Request
<1>4. uv' = [uv EXCEPT ![p] = to]
  BY <1>1 DEF WorkStat
<1> HIDE DEF to
<1> QED
  BY <1>1, <1>3, <1>4

LEMMA ScandirStores ==
  ASSUME IInv, NEW p \in Path, WorkScandir(p)
  PROVE  LET err == ScandirErr(base, p, p \notin env.unreadable) IN
         /\ uv' \in [Path -> Request]
         /\ uv'[p].cb = uv[p].cb /\ uv'[p].done /\ uv'[p].err = err
         /\ uv'[p].list = IF err = OK THEN Children(base, p) ELSE {}
         /\ uv'[p].dirs = {q \in uv'[p].list : env.typed /\ base[q] = Dir}
         /\ \A q \in Path : q # p => uv'[q] = uv[q]
<1> DEFINE err  == ScandirErr(base, p, p \notin env.unreadable)
           list == IF err = OK THEN Children(base, p) ELSE {}
           dirs == {q \in list : env.typed /\ base[q] = Dir}
           to == [uv[p] EXCEPT !.done = TRUE, !.err = err, !.list = list, !.dirs = dirs]
<1>1. uv \in [Path -> Request] /\ uv[p] \in Request
  BY DEF IInv, TypeOK
<1>2. err \in Err /\ list \in SUBSET Entry /\ dirs \in SUBSET Entry
  BY ErrTypes DEF IInv, TypeOK, Children
<1>3. uv' = [uv EXCEPT ![p] = to]
  BY <1>1 DEF WorkScandir
<1>4. /\ to \in Request
      /\ to.cb = uv[p].cb /\ to.done /\ to.err = err /\ to.list = list /\ to.dirs = dirs
  <2> HIDE DEF err, list, dirs
  <2> QED
    BY <1>1, <1>2 DEF Request
<1>5. /\ uv' \in [Path -> Request] /\ uv'[p] = to
      /\ \A q \in Path : q # p => uv'[q] = uv[q]
  <2> HIDE DEF to
  <2> QED
    BY <1>1, <1>3, <1>4
<1> HIDE DEF to
<1> QED
  BY <1>4, <1>5

LEMMA RanStores ==
  ASSUME IInv, NEW p \in Path, NEW err \in Err, uv' = Ran(p, err)
  PROVE  /\ uv' \in [Path -> Request]
         /\ uv'[p].cb = uv[p].cb /\ uv'[p].done /\ uv'[p].list = uv[p].list
         /\ uv'[p].err = err
         /\ \A q \in Path : q # p => uv'[q] = uv[q]
<1> DEFINE to == [uv[p] EXCEPT !.done = TRUE, !.err = err]
<1>1. uv \in [Path -> Request] /\ uv[p] \in Request
  BY DEF IInv, TypeOK
<1>2. /\ to \in Request
      /\ to.cb = uv[p].cb /\ to.done /\ to.list = uv[p].list /\ to.err = err
  BY <1>1 DEF Request
<1>3. uv' = [uv EXCEPT ![p] = to]
  BY <1>1 DEF Ran
<1> HIDE DEF to
<1> QED
  BY <1>1, <1>2, <1>3

-----------------------------------------------------------------------------
(* on_finished_maybe keeps the invariant.                                  *)
LEMMA OnFinishedMaybeKeeps ==
  ASSUME IInv, NEW p \in Path, Pending(p), NEW err \in Err,
         OnFinishedMaybe(p, err), UNCHANGED outside
  PROVE  IInv'
<1>0. /\ p \in steps /\ steps \subseteq Path /\ Closed(steps) /\ started /\ calls = 0
      /\ missing[p] = 0 /\ ChildSteps(p) = {}
      /\ \A q \in steps : IsPrefix(p, q) => q = p
      /\ uv \in [Path -> Request] /\ missing \in [Path -> Nat]
      /\ UNCHANGED <<base, onto, before, env, touched, replace, started>>
  BY RequestFacts DEF Pending, IInv, TypeOK, outside
<1>1. result' \in Err
  BY DEF OnFinishedMaybe, Retain, IInv, TypeOK
<1>2. CASE ~Drained(missing, p)
  BY <1>0, <1>2 DEF Drained
<1>3. CASE /\ p = Top
           /\ steps' = steps \ {p}
           /\ uv' = [uv EXCEPT ![p] = Idle]
           /\ OnFinished
           /\ UNCHANGED missing
  <2>1. steps' = {}
    BY <1>0, <1>3, TrivialPrefixes
  <2>2. uv' \in [Path -> Request] /\ \A q \in Path : uv'[q].cb = "none" /\ uv'[q].list \subseteq uv[q].list
    <3>1. \A q \in Path : q # p => uv[q].cb = "none"
      BY <1>0, <1>3, <2>1 DEF IInv, QuietAfterCallback, Pending
    <3> QED
      BY <1>0, <1>3, <3>1, IdleFacts
  <2>3. calls' = 1 /\ status' \in Err
    BY <1>0, <1>1, <1>3 DEF OnFinished
  <2>4. TypeOK'
    BY <1>0, <1>1, <1>3, <2>1, <2>2, <2>3 DEF IInv, TypeOK
  <2>5. (NothingBeforeCall /\ ListsHoldEntries)'
    BY <1>0, <1>3, <2>2 DEF IInv, NothingBeforeCall, ListsHoldEntries
  <2>6. (MissingIsExact /\ QuietAfterCallback)'
    BY <2>1, <2>2, <2>3 DEF MissingIsExact, QuietAfterCallback, Pending
  <2> QED
    BY <2>4, <2>5, <2>6 DEF IInv
<1>4. CASE /\ p # Top
           /\ steps' = steps \ {p}
           /\ missing' = Discount(Parent(p))
           /\ uv' = IF Drained(missing', Parent(p))
                    THEN [uv EXCEPT ![p] = Idle, ![Parent(p)] = Submit("on_rmdir")]
                    ELSE [uv EXCEPT ![p] = Idle]
           /\ UNCHANGED <<calls, status>>
  <2> DEFINE d == Parent(p)
             new == Submit("on_rmdir")
  <2>1. p \in Entry /\ d \in steps /\ d \in Path /\ d # p
    BY <1>0, <1>4, ParentFacts DEF Closed, Entry
  <2>2. /\ new \in Request /\ new.cb = "on_rmdir" /\ new.list = {}
        /\ Idle \in Request /\ Idle.cb = "none" /\ Idle.list = {}
    BY SubmitFacts, IdleFacts DEF Callbacks
  <2>3. /\ uv' \in [Path -> Request]
        /\ \A q \in Path :
             uv'[q] = IF q = d /\ missing'[d] = 0 THEN new
                      ELSE IF q = p THEN Idle ELSE uv[q]
    <3>1. uv' = IF missing'[d] = 0 THEN [uv EXCEPT ![p] = Idle, ![d] = new]
                ELSE [uv EXCEPT ![p] = Idle]
      BY <1>4 DEF Drained
    <3> HIDE DEF new
    <3> QED
      BY <1>0, <2>1, <2>2, <3>1
  <2> HIDE DEF new
  <2>4. /\ ChildSteps(d)' = ChildSteps(d) \ {p}
        /\ \A e : e # d => ChildSteps(e)' = ChildSteps(e)
        /\ p \in ChildSteps(d)
    BY <1>0, <1>4 DEF ChildSteps
  <2>5. /\ Cardinality(ChildSteps(d)) \in Nat /\ Cardinality(ChildSteps(d)) # 0
        /\ Cardinality(ChildSteps(d)') = Cardinality(ChildSteps(d)) - 1
    <3>1. ChildSteps(d) \in SUBSET Path
      BY <1>0 DEF ChildSteps
    <3> QED
      BY <2>4, <3>1, PathSets, FS_RemoveElement
  <2>6. missing[d] = Cardinality(ChildSteps(d)) /\ uv[d].cb = "none"
    BY <2>1, <2>5 DEF IInv, MissingIsExact, Pending
  <2>7. /\ missing' \in [Path -> Nat]
        /\ missing'[d] = Cardinality(ChildSteps(d)')
        /\ \A q \in Path : q # d => missing'[q] = missing[q]
    BY <1>0, <1>4, <2>1, <2>5, <2>6 DEF Discount
  <2>8. TypeOK'
    BY <1>0, <1>1, <1>4, <2>3, <2>7 DEF IInv, TypeOK
  <2>9. (NothingBeforeCall /\ ListsHoldEntries)'
    BY <1>0, <1>4, <2>2, <2>3 DEF IInv, NothingBeforeCall, ListsHoldEntries
  <2>10. MissingIsExact'
    <3>1. SUFFICES ASSUME NEW e \in steps, e # p
                   PROVE  /\ missing'[e] = Cardinality(ChildSteps(e)')
                          /\ uv'[e].cb # "none" => missing'[e] = 0
                          /\ uv'[e].cb = "none" /\ missing'[e] = 0 =>
                               \E q \in env.toolong : Parent(q) = e
      BY <1>0, <1>4 DEF MissingIsExact, Pending
    <3>2. e \in Path
      BY <1>0
    <3>3. CASE e = d
      BY <2>1, <2>2, <2>3, <2>6, <2>7, <3>3
    <3>4. CASE e # d
      <4>1. uv'[e] = uv[e] /\ missing'[e] = missing[e] /\ ChildSteps(e)' = ChildSteps(e)
        BY <2>3, <2>4, <2>7, <3>1, <3>2, <3>4
      <4> QED
        BY <4>1 DEF IInv, MissingIsExact, Pending
    <3> QED
      BY <3>3, <3>4
  <2>11. QuietAfterCallback'
    <3>1. \A e \in steps \ {p} : e # Top => Parent(e) \in steps \ {p}
      BY <1>0 DEF Closed, ChildSteps
    <3>2. \A q \in Path : uv'[q].cb # "none" => q \in steps \ {p}
      BY <2>1, <2>2, <2>3 DEF IInv, QuietAfterCallback, Pending
    <3> QED
      BY <1>0, <1>4, <3>1, <3>2 DEF QuietAfterCallback, Pending
  <2> QED
    BY <2>8, <2>9, <2>10, <2>11 DEF IInv
<1> QED
  BY <1>2, <1>3, <1>4 DEF OnFinishedMaybe

-----------------------------------------------------------------------------
(* The steps of the specification keep it.                                 *)

LEMMA InitEstablishes == Init => IInv
<1> SUFFICES ASSUME Init PROVE IInv
  OBVIOUS
<1>1. /\ Top \in Path /\ steps = {} /\ calls = 0 /\ missing[Top] = 0
      /\ \A p \in Path : uv[p].cb = "none" /\ uv[p].list = {}
  BY PathAssumption, IdleFacts DEF Init
<1>2. TypeOK
  BY MergeAssumption, IdleFacts DEF Init, TypeOK, Err, OK
<1> QED
  BY <1>1, <1>2 DEF IInv, NothingBeforeCall, ListsHoldEntries, MissingIsExact,
                    QuietAfterCallback, Pending

(* A step that only changes the trees, what was touched, and what a worker *)
(* stores in a request keeps it.                                           *)
LEMMA WorkerKeeps ==
  ASSUME IInv,
         base' \in Tree, onto' \in Tree, touched' \subseteq Path,
         uv' \in [Path -> Request],
         \A q \in Path : /\ uv'[q].cb = uv[q].cb
                         /\ \A r \in uv'[q].list : r \in Entry /\ Parent(r) = q,
         UNCHANGED <<before, env, replace, started, steps, missing, result, calls, status>>
  PROVE  IInv'
<1>1. TypeOK'
  BY DEF IInv, TypeOK
<1>2. (NothingBeforeCall /\ ListsHoldEntries)'
  BY DEF IInv, NothingBeforeCall, ListsHoldEntries
<1>3. \A d : ChildSteps(d)' = ChildSteps(d)
  BY DEF ChildSteps
<1>4. steps \subseteq Path
  BY DEF IInv, TypeOK
<1>5. MissingIsExact'
  BY <1>3, <1>4 DEF IInv, MissingIsExact, Pending
<1>6. QuietAfterCallback'
  BY DEF IInv, QuietAfterCallback, Pending
<1> QED
  BY <1>1, <1>2, <1>5, <1>6 DEF IInv

LEMMA WorkKeeps ==
  ASSUME IInv, NEW p \in Path, Worker(p)
  PROVE  IInv'
<1>1. /\ base \in Tree /\ onto \in Tree /\ env \in EnvType /\ touched \subseteq Path
      /\ ListsHoldEntries
  BY DEF IInv, TypeOK
<1>2. CASE WorkStat(p)
  <2>1. UNCHANGED <<base, onto, before, env, touched, replace, started, steps, missing,
                    result, calls, status>>
    BY <1>2 DEF WorkStat, outside
  <2> QED
    BY <1>1, <1>2, <2>1, StatStores, WorkerKeeps DEF ListsHoldEntries
<1>3. CASE WorkScandir(p)
  <2>1. UNCHANGED <<base, onto, before, env, touched, replace, started, steps, missing,
                    result, calls, status>>
    BY <1>3 DEF WorkScandir, outside
  <2>2. \A r \in uv'[p].list : r \in Entry /\ Parent(r) = p
    <3>1. uv'[p].list \subseteq Children(base, p)
      BY <1>3, ScandirStores
    <3> QED
      BY <3>1 DEF Children
  <2> QED
    BY <1>1, <1>3, <2>1, <2>2, ScandirStores, WorkerKeeps DEF ListsHoldEntries
<1>4. CASE WorkRename(p)
  <2> DEFINE err == RenameErr(base, onto, p, env.deny[p])
  <2>1. err \in Err
    BY <1>1, ErrTypes
  <2>2. /\ uv' = Ran(p, err) /\ base' \in Tree /\ onto' \in Tree
        /\ UNCHANGED <<before, env, touched, replace, started, steps, missing,
                      result, calls, status>>
    BY <1>1, <1>4 DEF WorkRename, Pruned, Grafted, Tree, Kind
  <2> HIDE DEF err
  <2> QED
    BY <1>1, <2>1, <2>2, RanStores, WorkerKeeps DEF ListsHoldEntries
<1>5. CASE WorkRmdir(p)
  <2> DEFINE err == RmdirErr(base, p, env.deny[p])
  <2>1. err \in Err
    BY <1>1, ErrTypes
  <2>2. /\ uv' = Ran(p, err) /\ base' \in Tree
        /\ UNCHANGED <<onto, before, env, touched, replace, started, steps, missing,
                      result, calls, status>>
    BY <1>1, <1>5 DEF WorkRmdir, Without, Tree, Kind
  <2> HIDE DEF err
  <2> QED
    BY <1>1, <2>1, <2>2, RanStores, WorkerKeeps DEF ListsHoldEntries
<1> QED
  BY <1>2, <1>3, <1>4, <1>5 DEF Worker

LEMMA OtherKeeps ==
  ASSUME IInv, NEW p \in Path, OtherChanges(p)
  PROVE  IInv'
<1>1. /\ base \in Tree /\ onto \in Tree /\ touched \subseteq Path /\ uv \in [Path -> Request]
  BY DEF IInv, TypeOK
<1>2. \A t \in Tree : Changed(t, p) \subseteq Tree
  BY DEF Changed, Tree
<1>3. /\ base' \in Tree /\ onto' \in Tree /\ touched' \subseteq Path
      /\ UNCHANGED <<before, env, replace, started, steps, missing, uv, result, calls, status>>
  BY <1>1, <1>2 DEF OtherChanges
<1> QED
  BY <1>1, <1>3, WorkerKeeps DEF IInv, ListsHoldEntries

LEMMA CallKeeps ==
  ASSUME IInv, Call
  PROVE  IInv'
<1>1. /\ Top \in Path /\ calls = 0 /\ missing[Top] = 0 /\ steps = {} /\ steps' = {Top}
      /\ uv \in [Path -> Request] /\ missing' = missing
      /\ \A p \in Path : uv[p].cb = "none"
  BY PathAssumption DEF Call, IInv, TypeOK, NothingBeforeCall, QuietAfterCallback, Pending
<1>2. /\ Submit("on_stat_dir") \in Request /\ Submit("on_stat_dir").cb = "on_stat_dir"
      /\ Submit("on_stat_dir").list = {}
  BY SubmitFacts DEF Callbacks
<1>3. /\ uv' \in [Path -> Request] /\ uv'[Top].cb = "on_stat_dir" /\ uv'[Top].list = {}
      /\ \A p \in Path : p # Top => uv'[p] = uv[p]
  BY <1>1, <1>2 DEF Call
<1>4. TypeOK'
  BY <1>1, <1>3 DEF Call, IInv, TypeOK
<1>5. (NothingBeforeCall /\ ListsHoldEntries)'
  BY <1>1, <1>3 DEF Call, IInv, NothingBeforeCall, ListsHoldEntries
<1>6. ChildSteps(Top)' = {}
  BY <1>1 DEF ChildSteps
<1>7. (MissingIsExact /\ QuietAfterCallback)'
  BY <1>1, <1>3, <1>6, FS_EmptySet DEF Call, MissingIsExact, QuietAfterCallback, Pending
<1> QED
  BY <1>4, <1>5, <1>7 DEF IInv

(* A request submitted in the place of the one that ended.                 *)
LEMMA ResubmitKeeps ==
  ASSUME IInv, NEW p \in Path, uv[p].cb # "none", NEW cb \in Callbacks, Resubmit(p, cb),
         UNCHANGED outside
  PROVE  IInv'
<1>1. /\ uv \in [Path -> Request] /\ p \in steps
      /\ UNCHANGED <<base, onto, before, env, touched, replace, started,
                    steps, missing, result, calls, status>>
  BY RequestFacts DEF IInv, TypeOK, outside, Resubmit
<1>2. Submit(cb) \in Request /\ Submit(cb).cb = cb /\ Submit(cb).list = {} /\ cb # "none"
  BY SubmitFacts DEF Callbacks
<1>3. /\ uv' \in [Path -> Request] /\ uv'[p].cb # "none" /\ uv'[p].list = {}
      /\ \A q \in Path : q # p => uv'[q] = uv[q]
  BY <1>1, <1>2 DEF Resubmit
<1>4. TypeOK' /\ steps \subseteq Path
  BY <1>1, <1>3 DEF IInv, TypeOK
<1>5. (NothingBeforeCall /\ ListsHoldEntries)'
  BY <1>1, <1>3 DEF IInv, NothingBeforeCall, ListsHoldEntries
<1>6. \A d : ChildSteps(d)' = ChildSteps(d)
  BY <1>1 DEF ChildSteps
<1>7. \A q \in Path : uv'[q].cb # "none" <=> uv[q].cb # "none"
  BY <1>3
<1>8. (MissingIsExact /\ QuietAfterCallback)'
  BY <1>1, <1>4, <1>6, <1>7 DEF IInv, MissingIsExact, QuietAfterCallback, Pending
<1> QED
  BY <1>4, <1>5, <1>8 DEF IInv

(* The steps of the entries of a listing.                                  *)
LEMMA DescendFacts ==
  ASSUME IInv, NEW p \in Path, uv[p].cb # "none", Descend(p)
  PROVE  LET J == Joined(uv[p].list) IN
         /\ steps' = steps \cup J
         /\ \A q \in J : /\ q \in Entry /\ q \in Path /\ Parent(q) = p /\ q # p
                         /\ q \notin steps
                         /\ uv'[q] = Submit(IF q \in uv[p].dirs THEN "on_stat_dir"
                                                              ELSE "on_stat_file")
         /\ uv'[p] = Idle
         /\ \A q \in Path : q # p /\ q \notin J => uv'[q] = uv[q]
<1>1. ChildSteps(p) = {}
  BY RequestFacts
<1>2. \A q \in uv[p].list : /\ q \in Entry /\ q \in Path /\ Parent(q) = p /\ q # p
                            /\ q \notin steps
  BY <1>1, ParentFacts DEF IInv, ListsHoldEntries, ChildSteps, Entry
<1> QED
  BY <1>2 DEF Descend, Joined

LEMMA DescendKeeps ==
  ASSUME IInv, NEW p \in Path, uv[p].cb # "none", uv[p].list # {}, Descend(p),
         UNCHANGED outside
  PROVE  IInv'
<1> DEFINE J == Joined(uv[p].list)
<1>1. /\ uv \in [Path -> Request] /\ missing \in [Path -> Nat]
      /\ p \in steps /\ steps \subseteq Path /\ Closed(steps) /\ started /\ calls = 0
      /\ missing[p] = 0 /\ ChildSteps(p) = {}
      /\ UNCHANGED <<base, onto, before, env, touched, replace, started,
                    result, calls, status>>
  BY RequestFacts DEF IInv, TypeOK, outside, Descend
<1>2. /\ steps' = steps \cup J
      /\ \A q \in J : /\ q \in Entry /\ q \in Path /\ Parent(q) = p /\ q # p
                      /\ q \notin steps
                      /\ uv'[q] = Submit(IF q \in uv[p].dirs THEN "on_stat_dir"
                                                           ELSE "on_stat_file")
      /\ uv'[p] = Idle
      /\ \A q \in Path : q # p /\ q \notin J => uv'[q] = uv[q]
  BY DescendFacts
<1>3. Submit("on_stat_dir") \in Request /\ Submit("on_stat_file") \in Request
  BY SubmitFacts DEF Callbacks
<1>4. \A q \in J : uv'[q] \in Request /\ uv'[q].cb # "none" /\ uv'[q].list = {}
  <2>1. /\ Submit("on_stat_dir").cb # "none" /\ Submit("on_stat_dir").list = {}
        /\ Submit("on_stat_file").cb # "none" /\ Submit("on_stat_file").list = {}
    BY SubmitFacts DEF Callbacks
  <2> QED
    BY <1>2, <1>3, <2>1
<1>5. uv' \in [Path -> Request]
  BY <1>1, <1>3, IdleFacts DEF Descend
<1>6. J \in SUBSET Path /\ Cardinality(J) \in Nat
  BY <1>2, PathSets
<1>7. /\ missing' \in [Path -> Nat] /\ missing'[p] = Cardinality(J)
      /\ \A q \in J : missing'[q] = 0
      /\ \A q \in Path : q # p /\ q \notin J => missing'[q] = missing[q]
  <2>1. Counted(uv[p].list) = Cardinality(J)
    BY DEF Counted
  <2>2. missing' = [q \in Path |->
                      IF q = p THEN missing[p] + Cardinality(J)
                      ELSE IF q \in J THEN 0
                      ELSE missing[q]]
    BY <2>1 DEF Descend
  <2> HIDE DEF J
  <2> QED
    BY <1>1, <1>2, <1>6, <2>2
<1>8. TypeOK'
  BY <1>1, <1>2, <1>5, <1>7 DEF IInv, TypeOK
<1>9. (NothingBeforeCall /\ ListsHoldEntries)'
  BY <1>1, <1>2, <1>4, IdleFacts DEF IInv, NothingBeforeCall, ListsHoldEntries
<1>10. /\ ChildSteps(p)' = J
       /\ \A d \in steps : d # p => ChildSteps(d)' = ChildSteps(d)
       /\ \A d \in J : ChildSteps(d)' = {}
  <2>1. \A d \in J, q \in steps \cup J : q # Top => Parent(q) # d
    BY <1>1, <1>2 DEF Closed
  <2>2. \A q \in J : q # Top
    BY <1>2 DEF Entry
  <2> HIDE DEF J
  <2> QED
    BY <1>1, <1>2, <2>1, <2>2 DEF ChildSteps
<1>11. MissingIsExact'
  <2>1. SUFFICES ASSUME NEW d \in steps \cup J
                 PROVE  /\ missing'[d] = Cardinality(ChildSteps(d)')
                        /\ uv'[d].cb # "none" => missing'[d] = 0
                        /\ uv'[d].cb = "none" /\ missing'[d] = 0 =>
                             \E q \in env.toolong : Parent(q) = d
    BY <1>1, <1>2 DEF MissingIsExact, Pending
  <2>2. CASE d = p
    <3>1. ASSUME Cardinality(J) = 0 PROVE \E q \in env.toolong : Parent(q) = p
      <4>1. J = {}
        BY <1>6, <3>1, PathSets
      <4>2. \A q \in uv[p].list : q \in env.toolong /\ Parent(q) = p
        BY <4>1 DEF Joined, IInv, ListsHoldEntries
      <4> QED
        BY <4>2
    <3> QED
      BY <1>2, <1>7, <1>10, <2>2, <3>1, IdleFacts
  <2>3. CASE d \in J
    BY <1>4, <1>7, <1>10, <2>3, FS_EmptySet
  <2>4. CASE d \in steps /\ d # p
    <3>1. d \notin J /\ d \in Path
      BY <1>1, <1>2, <2>4
    <3>2. missing'[d] = missing[d] /\ uv'[d] = uv[d] /\ ChildSteps(d)' = ChildSteps(d)
      BY <1>2, <1>7, <1>10, <2>4, <3>1
    <3> QED
      BY <2>4, <3>2 DEF IInv, MissingIsExact, Pending
  <2> QED
    BY <2>1, <2>2, <2>3, <2>4
<1>12. QuietAfterCallback'
  <2>1. \A q \in Path : uv'[q].cb # "none" => q \in steps \cup J
    BY <1>2, IdleFacts DEF IInv, QuietAfterCallback, Pending
  <2> QED
    BY <1>1, <1>2, <2>1 DEF Closed, QuietAfterCallback, Pending
<1> QED
  BY <1>8, <1>9, <1>11, <1>12 DEF IInv

LEMMA LoopKeeps ==
  ASSUME IInv, NEW p \in Path, Loop(p)
  PROVE  IInv'
<1>1. uv[p].cb # "none" /\ uv[p].err \in Err /\ UNCHANGED outside
  BY DEF Loop, OnStatDir, OnStatFile, OnScandir, OnRename, OnRmdir, IInv, TypeOK, Request
<1>2. ASSUME NEW err \in Err, OnFinishedMaybe(p, err) PROVE IInv'
  BY <1>1, <1>2, OnFinishedMaybeKeeps DEF Pending
<1>3. ASSUME NEW cb \in Callbacks, Resubmit(p, cb) PROVE IInv'
  BY <1>1, <1>3, ResubmitKeeps
<1>4. CASE OnStatDir(p)
  <2> DEFINE err == IF uv[p].err = OK /\ ~uv[p].isdir THEN "ENOTDIR" ELSE uv[p].err
  <2>1. err \in Err
    BY <1>1 DEF Err
  <2> QED
    BY <1>2, <1>3, <1>4, <2>1 DEF OnStatDir, Callbacks
<1>5. CASE OnStatFile(p)
  <2>1. FileErr(p) \in Err
    BY <1>1 DEF FileErr, Err, OK
  <2> QED
    BY <1>2, <1>3, <1>5, <2>1 DEF OnStatFile, Callbacks
<1>6. CASE OnScandir(p)
  BY <1>1, <1>2, <1>3, <1>6, DescendKeeps DEF OnScandir, Callbacks
<1>7. CASE OnRename(p) \/ OnRmdir(p)
  BY <1>1, <1>2, <1>7 DEF OnRename, OnRmdir
<1> QED
  BY <1>4, <1>5, <1>6, <1>7 DEF Loop

LEMMA StutterKeeps ==
  ASSUME IInv, UNCHANGED vars
  PROVE  IInv'
BY WorkerKeeps DEF vars, IInv, TypeOK, ListsHoldEntries

-----------------------------------------------------------------------------
(* The theorems about steps and counts.                                    *)

(* What the steps of a merge, their counters and their requests have to do *)
(* with each other, in every state (src/merge.c:34-65, 112-162).           *)
THEOREM Invariance == Spec => []IInv
<1>1. Init => IInv
  BY InitEstablishes
<1>2. IInv /\ [Next]_vars => IInv'
  <2>1. SUFFICES ASSUME IInv, Next PROVE IInv'
    BY StutterKeeps
  <2>2. CASE Call
    BY <2>1, <2>2, CallKeeps
  <2>3. CASE \E p \in Path : Worker(p)
    BY <2>1, <2>3, WorkKeeps
  <2>4. CASE \E p \in Path : Loop(p)
    BY <2>1, <2>4, LoopKeeps
  <2>5. CASE \E p \in Path : OtherChanges(p)
    BY <2>1, <2>5, OtherKeeps
  <2> QED
    BY <2>1, <2>2, <2>3, <2>4, <2>5 DEF Next, Worker, Loop
<1> QED
  BY <1>1, <1>2, PTL DEF Spec

(* Every variable keeps its type; missing, a counter of children, never    *)
(* goes below zero (src/merge.c:51).                                       *)
THEOREM TypeCorrect == Spec => []TypeOK
<1>1. IInv => TypeOK
  BY DEF IInv
<1> QED
  BY <1>1, Invariance, PTL

(* A step counts exactly its live children, and has a request exactly      *)
(* while it has none (src/merge.c:43, 51-56, 131, 142, 159).               *)
THEOREM CountsAreExact == Spec => []MissingIsExact
<1>1. IInv => MissingIsExact
  BY DEF IInv
<1> QED
  BY <1>1, Invariance, PTL

(* The callback of the caller is the last thing that happens, happens at   *)
(* most once, and no request refers to a freed step (src/merge.c:28-65).   *)
THEOREM CallbackIsLast == Spec => []QuietAfterCallback
<1>1. IInv => QuietAfterCallback
  BY DEF IInv
<1> QED
  BY <1>1, Invariance, PTL

-----------------------------------------------------------------------------
(* The refinement of TreeMerge.                                            *)
(*                                                                         *)
(* A step decides with what a stat told it of onto, and acts in a later    *)
(* request.  What keeps that true in between: a pending request of a step  *)
(* excludes any request below it, so no rename of an ancestor can change   *)
(* the place it looked at.                                                 *)

(* Nothing has happened at p yet, or p is where it belongs.                *)
Agrees(p) == base[p] = before.base[p] /\ onto[p] = before.onto[p]
Merged(p) == base[p] = Missing /\ onto[p] = Merging!Overlay(p)
Settled == \A p \in Path \ touched : Agrees(p) \/ Merged(p)

Stats == {"on_stat_dir", "on_stat_file"}

(* What a stat found is still so when its callback runs.                   *)
StatIsCurrent ==
  \A p \in Path \ touched : uv[p].cb \in Stats /\ uv[p].done =>
    /\ uv[p].err = OK <=> onto[p] # Missing
    /\ uv[p].isdir <=> onto[p] = Dir

(* A step that lists its directory, waits for its children or removes it   *)
(* has found a directory in onto.                                          *)
Entered(p) == uv[p].cb \in {"none", "on_scandir", "on_rmdir"}
EnteredAreDirs == \A p \in steps \ touched : Entered(p) => onto[p] = Dir

(* What a rename may take the place of.                                    *)
MayMove(p) == onto[p] = Missing \/ (onto[p] \in File /\ replace)
RenamesYield ==
  \A p \in Path \ touched : uv[p].cb = "on_rename" /\ ~uv[p].done => MayMove(p)

(* The last system call of a step.                                         *)
Gone(p) == uv[p].cb \in {"on_rename", "on_rmdir"} /\ uv[p].done
TopIsGone ==
  Gone(Top) /\ uv[Top].err = OK => \A p \in Path \ touched : base[p] = Missing

RInv ==
  /\ WellFormed(base) /\ WellFormed(onto)
  /\ Settled /\ StatIsCurrent /\ EnteredAreDirs /\ RenamesYield /\ TopIsGone

Refines == RInv' /\ [Merging!Next]_Merging!vars

(* The trees TreeMerge speaks of are those of fs_merge.                    *)
LEMMA SameTree ==
  /\ Merging!OK = OK /\ Merging!Missing = Missing /\ Merging!Dir = Dir
  /\ Merging!Kind = Kind /\ Merging!Tree = Tree
  /\ \A t : Merging!WellFormed(t) = WellFormed(t)
  /\ \A t, p : /\ Merging!Children(t, p) = Children(t, p)
               /\ Merging!Without(t, p) = Without(t, p)
               /\ Merging!Pruned(t, p) = Pruned(t, p)
  /\ \A b, o, p : /\ Merging!RenameErr(b, o, p, OK) = RenameErr(b, o, p, OK)
                  /\ Merging!Grafted(b, o, p) = Grafted(b, o, p)
<1>1. /\ Merging!OK = OK /\ Merging!Missing = Missing /\ Merging!Dir = Dir
      /\ Merging!Top = Top /\ Merging!Entry = Entry /\ Merging!Kind = Kind
  BY DEF Merging!OK, OK, Merging!Missing, Missing, Merging!Dir, Dir, Merging!Top, Top,
         Merging!Entry, Entry, Merging!Kind, Kind
<1>2. /\ \A p : Merging!Parent(p) = Parent(p)
      /\ \A q, p : Merging!IsPrefix(q, p) = IsPrefix(q, p)
  BY DEF Merging!Parent, Parent, Merging!IsPrefix, IsPrefix
<1>3. Merging!Tree = Tree
  BY <1>1 DEF Merging!Tree, Tree
<1>4. \A t : Merging!WellFormed(t) = WellFormed(t) /\ Merging!Files(t) = Files(t)
  BY <1>1, <1>2 DEF Merging!WellFormed, WellFormed, Merging!Files, Files
<1>5. \A t, p : /\ Merging!Children(t, p) = Children(t, p)
                /\ Merging!Without(t, p) = Without(t, p)
                /\ Merging!Pruned(t, p) = Pruned(t, p)
  BY <1>1, <1>2 DEF Merging!Children, Children, Merging!Without, Without,
                    Merging!Pruned, Pruned
<1>6. \A b, o, p : Merging!Grafted(b, o, p) = Grafted(b, o, p)
  BY <1>2 DEF Merging!Grafted, Grafted
<1>7. \A t, p : Merging!LookupErr(t, p) = LookupErr(t, p)
  BY <1>1, <1>2, <1>4 DEF Merging!LookupErr, LookupErr
<1>8. \A b, o, p : Merging!RenameErr(b, o, p, OK) = RenameErr(b, o, p, OK)
  BY <1>1, <1>2, <1>5, <1>7 DEF Merging!RenameErr, RenameErr
<1> QED
  BY <1>1, <1>3, <1>4, <1>5, <1>6, <1>8

(* The loop thread leaves the trees alone, and every request it submits is *)
(* one its callback was entitled to.                                       *)
LEMMA TreesStand ==
  ASSUME RInv, UNCHANGED <<base, onto, before, touched, replace>>,
         \A q \in Path :
            \/ uv'[q] = uv[q] /\ (q \in steps' => q \in steps)
            \/ /\ ~uv'[q].done
               /\ q \in steps' \ touched /\ Entered(q)' => onto[q] = Dir
               /\ q \notin touched /\ uv'[q].cb = "on_rename" => MayMove(q),
         steps' \subseteq Path, Top \in Path
  PROVE  RInv'
<1>1. (WellFormed(base) /\ WellFormed(onto))' /\ \A q : MayMove(q)' = MayMove(q)
  BY DEF RInv, MayMove
<1>2. Settled'
  BY DEF RInv, Settled, Agrees, Merged, Merging!Overlay
<1>3. StatIsCurrent'
  BY DEF RInv, StatIsCurrent
<1>4. EnteredAreDirs'
  BY DEF RInv, EnteredAreDirs, Entered
<1>5. RenamesYield'
  BY <1>1 DEF RInv, RenamesYield
<1>6. TopIsGone'
  BY DEF RInv, TopIsGone, Gone
<1> QED
  BY <1>1, <1>2, <1>3, <1>4, <1>5, <1>6 DEF RInv

LEMMA Hidden ==
  ASSUME UNCHANGED <<base, onto, before, touched, replace, started, calls, status>>
  PROVE  UNCHANGED Merging!vars
BY DEF Merging!vars

-----------------------------------------------------------------------------
(* The steps keep RInv, and are steps of TreeMerge or stutter.             *)

(* A system call that changes no tree: a stat, a listing, or one that      *)
(* fails.                                                                  *)
LEMMA IdleWorkerRefines ==
  ASSUME IInv, RInv, NEW p \in Path,
         UNCHANGED <<base, onto, before, touched, replace, started, steps, calls, status>>,
         uv'[p].cb = uv[p].cb, uv'[p].done,
         \A q \in Path : q # p => uv'[q] = uv[q],
         uv[p].cb \in Stats => /\ uv'[p].err = OK <=> onto[p] # Missing
                               /\ uv'[p].isdir <=> onto[p] = Dir,
         uv[p].cb \in {"on_rename", "on_rmdir"} => uv'[p].err # OK
  PROVE  Refines
<1>1. (WellFormed(base) /\ WellFormed(onto))' /\ \A q : MayMove(q)' = MayMove(q)
  BY DEF RInv, MayMove
<1>2. Settled'
  BY DEF RInv, Settled, Agrees, Merged, Merging!Overlay
<1>3. StatIsCurrent'
  BY DEF RInv, StatIsCurrent
<1>4. EnteredAreDirs'
  BY DEF RInv, EnteredAreDirs, Entered, IInv, TypeOK
<1>5. RenamesYield'
  BY <1>1 DEF RInv, RenamesYield
<1>6. TopIsGone'
  BY PathAssumption DEF RInv, TopIsGone, Gone
<1>7. UNCHANGED Merging!vars
  BY Hidden
<1> QED
  BY <1>1, <1>2, <1>3, <1>4, <1>5, <1>6, <1>7 DEF RInv, Refines

LEMMA LookingWorkerRefines ==
  ASSUME IInv, RInv, NEW p \in Path, WorkStat(p) \/ WorkScandir(p)
  PROVE  Refines
<1>1. UNCHANGED <<base, onto, before, touched, replace, started, steps, calls, status>>
  BY DEF WorkStat, WorkScandir, outside
<1>2. CASE WorkStat(p)
  <2>1. uv[p].cb \in Stats
    BY <1>2 DEF WorkStat, Stats
  <2>2. LookupErr(onto, p) = OK <=> onto[p] # Missing
    BY DEF LookupErr, OK
  <2> QED
    BY <1>1, <1>2, <2>1, <2>2, StatStores, IdleWorkerRefines DEF Stats
<1>3. CASE WorkScandir(p)
  <2>1. uv[p].cb \notin Stats \cup {"on_rename", "on_rmdir"}
    BY <1>3 DEF WorkScandir, Stats
  <2> QED
    BY <1>1, <1>3, <2>1, ScandirStores, IdleWorkerRefines
<1> QED
  BY <1>2, <1>3

(* What a rename of p changes is below p, where no other step is.          *)
LEMMA RenamingWorkerRefines ==
  ASSUME IInv, RInv, NEW p \in Path, WorkRename(p)
  PROVE  Refines
<1> DEFINE err == RenameErr(base, onto, p, env.deny[p])
<1>1. /\ uv[p].cb = "on_rename" /\ ~uv[p].done
      /\ uv' = Ran(p, err)
      /\ base' = (IF err = OK THEN Pruned(base, p) ELSE base)
      /\ onto' = (IF err = OK THEN Grafted(base, onto, p) ELSE onto)
      /\ UNCHANGED <<before, env, touched, replace, started, steps, missing,
                    result, calls, status>>
  BY DEF WorkRename
<1>2. err \in Err
  BY ErrTypes DEF IInv, TypeOK
<1>3. /\ uv'[p].cb = "on_rename" /\ uv'[p].done /\ uv'[p].err = err
      /\ \A q \in Path : q # p => uv'[q] = uv[q]
  <2> HIDE DEF err
  <2> QED
    BY <1>1, <1>2, RanStores
<1>4. /\ base \in Tree /\ onto \in Tree /\ WellFormed(base) /\ WellFormed(onto)
      /\ p \in steps /\ started /\ calls = 0 /\ steps \subseteq Path
      /\ \A q \in steps : IsPrefix(p, q) => q = p
      /\ \A q \in Path : uv[q].cb # "none" => q \in steps
  BY <1>1, RequestFacts DEF IInv, TypeOK, RInv
<1>5. CASE err # OK
  <2>1. uv[p].cb \notin Stats /\ UNCHANGED <<base, onto>>
    BY <1>1, <1>5 DEF Stats
  <2> HIDE DEF err
  <2> QED
    BY <1>1, <1>3, <1>5, <2>1, IdleWorkerRefines
<1>6. CASE err = OK
  <2>1. /\ base[p] # Missing
        /\ p # Top => onto[Parent(p)] = Dir
        /\ RenameErr(base, onto, p, OK) = OK
        /\ \A q \in Path : IsPrefix(p, q) /\ q # p => onto[q] = Missing
    BY <1>4, <1>6, RenameFacts
  <2>2. base' = Pruned(base, p) /\ onto' = Grafted(base, onto, p)
    BY <1>1, <1>6
  <2>3. /\ \A q \in Path : base'[q] = IF IsPrefix(p, q) THEN Missing ELSE base[q]
        /\ \A q \in Path : onto'[q] = IF IsPrefix(p, q) THEN base[q] ELSE onto[q]
    BY <2>2 DEF Pruned, Grafted
  <2>4. WellFormed(base') /\ WellFormed(onto')
    BY <1>4, <2>1, <2>2, PrunedForm, GraftedForm
  <2>5. MayMove(p) \/ p \in touched
    BY <1>1 DEF RInv, RenamesYield
  <2>6. Merging!Move(p)
    BY <1>1, <1>4, <2>1, <2>2, <2>5, SameTree
       DEF Merging!Move, Merging!Running, Merging!Yields, MayMove
  <2>7. Settled'
    <3>1. SUFFICES ASSUME NEW q \in Path \ touched PROVE Agrees(q)' \/ Merged(q)'
      BY <1>1 DEF Settled
    <3>2. (Agrees(q) \/ Merged(q)) /\ Merging!Overlay(q)' = Merging!Overlay(q)
      BY <1>1 DEF RInv, Settled, Merging!Overlay
    <3>3. CASE ~IsPrefix(p, q)
      BY <1>1, <2>3, <3>2, <3>3 DEF Agrees, Merged
    <3>4. CASE q = p
      <4>1. Agrees(p) /\ Merging!Overlay(p) = base[p] /\ IsPrefix(p, p)
        BY <2>1, <3>2, <3>4, SameTree, TrivialPrefixes DEF Merged, Agrees, Merging!Overlay
      <4> QED
        BY <2>3, <3>2, <3>4, <4>1 DEF Merged
    <3>5. CASE IsPrefix(p, q) /\ q # p
      <4>1. onto[q] = Missing
        BY <2>1, <3>5
      <4>2. base[q] = Merging!Overlay(q)
        BY <3>2, <4>1, SameTree DEF Agrees, Merged, Merging!Overlay
      <4> QED
        BY <2>3, <3>2, <3>5, <4>2 DEF Merged
    <3> QED
      BY <3>3, <3>4, <3>5
  <2>8. \A q \in steps : q # p => onto'[q] = onto[q]
    BY <1>4, <2>3
  <2>9. StatIsCurrent'
    BY <1>1, <1>3, <1>4, <2>8 DEF RInv, StatIsCurrent, Stats
  <2>10. EnteredAreDirs'
    BY <1>1, <1>3, <1>4, <2>8 DEF RInv, EnteredAreDirs, Entered
  <2>11. RenamesYield'
    BY <1>1, <1>3, <1>4, <2>8 DEF RInv, RenamesYield, MayMove
  <2>12. TopIsGone'
    <3>1. CASE p = Top
      BY <2>3, <3>1, TrivialPrefixes DEF TopIsGone
    <3>2. CASE p # Top
      <4>1. uv[Top].cb = "none"
        BY <1>4, <3>2, RequestFacts, TrivialPrefixes
      <4> QED
        BY <1>3, <3>2, <4>1, TrivialPrefixes DEF TopIsGone, Gone
    <3> QED
      BY <3>1, <3>2
  <2> QED
    BY <2>4, <2>6, <2>7, <2>9, <2>10, <2>11, <2>12 DEF RInv, Refines, Merging!Next
<1> QED
  BY <1>5, <1>6

LEMMA RemovingWorkerRefines ==
  ASSUME IInv, RInv, NEW p \in Path, WorkRmdir(p)
  PROVE  Refines
<1> DEFINE err == RmdirErr(base, p, env.deny[p])
<1>1. /\ uv[p].cb = "on_rmdir" /\ ~uv[p].done
      /\ uv' = Ran(p, err)
      /\ base' = (IF err = OK THEN Without(base, p) ELSE base)
      /\ UNCHANGED <<onto, before, env, touched, replace, started, steps, missing,
                    result, calls, status>>
  BY DEF WorkRmdir
<1>2. err \in Err
  BY ErrTypes DEF IInv, TypeOK
<1>3. /\ uv'[p].cb = "on_rmdir" /\ uv'[p].done /\ uv'[p].err = err
      /\ \A q \in Path : q # p => uv'[q] = uv[q]
  <2> HIDE DEF err
  <2> QED
    BY <1>1, <1>2, RanStores
<1>4. /\ base \in Tree /\ WellFormed(base) /\ WellFormed(onto)
      /\ p \in steps /\ started /\ calls = 0 /\ steps \subseteq Path
  BY <1>1, RequestFacts DEF IInv, TypeOK, RInv
<1>5. CASE err # OK
  <2>1. uv[p].cb \notin Stats /\ UNCHANGED base
    BY <1>1, <1>5 DEF Stats
  <2> HIDE DEF err
  <2> QED
    BY <1>1, <1>3, <1>5, <2>1, IdleWorkerRefines
<1>6. CASE err = OK
  <2>1. base[p] = Dir /\ Children(base, p) = {}
    BY <1>6 DEF RmdirErr, LookupErr, OK
  <2>2. base' = Without(base, p)
    BY <1>1, <1>6
  <2>3. /\ base'[p] = Missing
        /\ \A q \in Path : q # p => base'[q] = base[q]
    BY <1>4, <2>2 DEF Without, Tree
  <2>4. WellFormed(base')
    BY <1>4, <2>1, <2>2, ChangeKeepsForm DEF Without, Kind
  <2>5. onto[p] = Dir \/ p \in touched
    BY <1>1, <1>4 DEF RInv, EnteredAreDirs, Entered
  <2>6. Merging!Drop(p)
    BY <1>1, <1>4, <2>1, <2>2, <2>5, SameTree DEF Merging!Drop, Merging!Running
  <2>7. Settled'
    <3>1. SUFFICES ASSUME NEW q \in Path \ touched PROVE Agrees(q)' \/ Merged(q)'
      BY <1>1 DEF Settled
    <3>2. (Agrees(q) \/ Merged(q)) /\ Merging!Overlay(q)' = Merging!Overlay(q)
      BY <1>1 DEF RInv, Settled, Merging!Overlay
    <3>3. CASE q # p
      BY <1>1, <2>3, <3>2, <3>3 DEF Agrees, Merged
    <3>4. CASE q = p
      <4>1. Merging!Overlay(p) = Dir
        BY <2>1, <3>2, <3>4, SameTree, KindFacts DEF Merged, Agrees, Merging!Overlay
      <4> QED
        BY <1>1, <2>3, <2>5, <3>2, <3>4, <4>1 DEF Merged
    <3> QED
      BY <3>3, <3>4
  <2>8. StatIsCurrent' /\ EnteredAreDirs' /\ RenamesYield'
    BY <1>1, <1>3, <1>4
       DEF RInv, StatIsCurrent, Stats, EnteredAreDirs, Entered, RenamesYield, MayMove
  <2>9. TopIsGone'
    <3>1. CASE p = Top
      <4>1. \A q \in Path : base'[q] = Missing
        BY <2>3, <2>4, <3>1, TrivialPrefixes, NothingBelowLeaf, KindFacts
      <4> QED
        BY <4>1 DEF TopIsGone
    <3>2. CASE p # Top
      <4>1. uv[Top].cb = "none"
        BY <1>4, <3>2, RequestFacts, TrivialPrefixes
      <4> QED
        BY <1>3, <3>2, <4>1, TrivialPrefixes DEF TopIsGone, Gone
    <3> QED
      BY <3>1, <3>2
  <2> QED
    BY <1>1, <1>4, <2>4, <2>6, <2>7, <2>8, <2>9 DEF RInv, Refines, Merging!Next
<1> QED
  BY <1>5, <1>6

LEMMA OtherRefines ==
  ASSUME IInv, RInv, NEW p \in Path, OtherChanges(p)
  PROVE  Refines
<1>1. /\ base \in Tree /\ onto \in Tree /\ WellFormed(base) /\ WellFormed(onto)
      /\ started /\ calls = 0 /\ touched' = touched \cup {p} /\ Top \in Path
      /\ UNCHANGED <<before, replace, started, steps, uv, calls, status>>
  BY PathAssumption DEF OtherChanges, IInv, TypeOK, RInv, Running
<1>2. ASSUME NEW t \in Tree, WellFormed(t), NEW u \in Changed(t, p)
      PROVE  /\ WellFormed(u) /\ \A q \in Path : q # p => u[q] = t[q]
             /\ u \in {[t EXCEPT ![p] = k] : k \in Kind \ {t[p]}}
  <2>1. PICK k \in Kind : /\ u = [t EXCEPT ![p] = k] /\ k # t[p]
                          /\ p = Top \/ t[Parent(p)] = Dir
                          /\ Children(t, p) = {}
    BY DEF Changed
  <2>2. WellFormed([t EXCEPT ![p] = k])
    BY <1>2, <2>1, ChangeKeepsForm
  <2>3. WellFormed(u)
    BY <2>1, <2>2
  <2>4. \A q \in Path : q # p => [t EXCEPT ![p] = k][q] = t[q]
    BY DEF Tree
  <2>5. k \in Kind \ {t[p]}
    BY <2>1
  <2> QED
    BY <2>1, <2>3, <2>4, <2>5
<1>3. /\ WellFormed(base') /\ WellFormed(onto')
      /\ \A q \in Path : q # p => base'[q] = base[q] /\ onto'[q] = onto[q]
      /\ \/ /\ base' \in {[base EXCEPT ![p] = k] : k \in Kind \ {base[p]}}
            /\ UNCHANGED onto
         \/ /\ onto' \in {[onto EXCEPT ![p] = k] : k \in Kind \ {onto[p]}}
            /\ UNCHANGED base
  <2>1. CASE base' \in Changed(base, p) /\ UNCHANGED onto
    BY <1>1, <1>2, <2>1
  <2>2. CASE onto' \in Changed(onto, p) /\ UNCHANGED base
    BY <1>1, <1>2, <2>2
  <2> QED
    BY <2>1, <2>2 DEF OtherChanges
<1>4. Merging!Interfere(p)
  BY <1>1, <1>3, SameTree DEF Merging!Interfere, Merging!Running
<1>5. Settled'
  BY <1>1, <1>3 DEF RInv, Settled, Agrees, Merged, Merging!Overlay
<1>6. StatIsCurrent' /\ EnteredAreDirs' /\ RenamesYield'
  <2>1. steps \subseteq Path
    BY DEF IInv, TypeOK
  <2> QED
    BY <1>1, <1>3, <2>1
       DEF RInv, StatIsCurrent, EnteredAreDirs, Entered, RenamesYield, MayMove
<1>7. TopIsGone'
  BY <1>1, <1>3 DEF RInv, TopIsGone, Gone
<1> QED
  BY <1>3, <1>4, <1>5, <1>6, <1>7 DEF RInv, Refines, Merging!Next

LEMMA CallRefines ==
  ASSUME IInv, RInv, Call
  PROVE  Refines
<1>1. /\ Top \in Path /\ steps' = {Top} /\ uv \in [Path -> Request]
      /\ UNCHANGED <<base, onto, before, touched, replace, calls, status>>
      /\ ~started /\ started'
  BY PathAssumption DEF Call, IInv, TypeOK
<1>2. Submit("on_stat_dir").cb = "on_stat_dir" /\ ~Submit("on_stat_dir").done
  BY SubmitFacts DEF Callbacks
<1>3. /\ uv'[Top].cb = "on_stat_dir" /\ ~uv'[Top].done
      /\ \A q \in Path : q # Top => uv'[q] = uv[q]
  BY <1>1, <1>2 DEF Call
<1>4. RInv'
  BY <1>1, <1>3, TreesStand DEF Entered
<1>5. Merging!Start
  BY <1>1 DEF Merging!Start
<1> QED
  BY <1>4, <1>5 DEF Refines, Merging!Next

(* The end of a step; for the root, of the merge.                          *)
LEMMA OnFinishedMaybeRefines ==
  ASSUME IInv, RInv, NEW p \in Path, uv[p].cb # "none", NEW err \in Err,
         err = OK => Gone(p) /\ uv[p].err = OK,
         OnFinishedMaybe(p, err), UNCHANGED outside
  PROVE  Refines
<1>1. /\ p \in steps /\ steps \subseteq Path /\ Closed(steps) /\ started /\ calls = 0
      /\ missing[p] = 0 /\ uv \in [Path -> Request] /\ Top \in Path
      /\ missing \in [Path -> Nat]
      /\ UNCHANGED <<base, onto, before, touched, replace, started>>
  BY RequestFacts, PathAssumption DEF IInv, TypeOK, outside
<1>2. Idle.cb = "none" /\ ~Idle.done /\ Drained(missing, p)
  BY <1>1, IdleFacts DEF Drained
<1>3. CASE p = Top
  <2>1. /\ steps' = steps \ {p} /\ uv' = [uv EXCEPT ![p] = Idle]
        /\ calls' = 1 /\ status' = result' /\ result' = Retain(err)
    BY <1>1, <1>2, <1>3 DEF OnFinishedMaybe, OnFinished
  <2>2. RInv'
    BY <1>1, <1>2, <2>1, TreesStand
  <2>3. CASE result' = OK
    <3>1. Gone(Top) /\ uv[Top].err = OK
      BY <1>3, <2>1, <2>3 DEF Retain
    <3>2. \A q \in Path \ touched : base[q] = Missing /\ onto[q] = Merging!Overlay(q)
      BY <3>1, SameTree DEF RInv, TopIsGone, Settled, Agrees, Merged, Merging!Overlay
    <3>3. Merging!Succeed
      BY <1>1, <2>1, <2>3, <3>2, SameTree DEF Merging!Succeed, Merging!Running
    <3> QED
      BY <2>2, <3>3 DEF Refines, Merging!Next
  <2>4. CASE result' # OK
    <3>1. result' \in Err
      BY <2>1 DEF Retain, IInv, TypeOK
    <3>2. result' # "none"
      BY <3>1 DEF Err, OK
    <3>3. Merging!Fail
      BY <1>1, <2>1, <2>4, <3>2, SameTree DEF Merging!Fail, Merging!Running
    <3> QED
      BY <2>2, <3>3 DEF Refines, Merging!Next
  <2> QED
    BY <2>3, <2>4
<1>4. CASE p # Top
  <2> DEFINE d == Parent(p)
             new == Submit("on_rmdir")
  <2>1. /\ steps' = steps \ {p} /\ UNCHANGED <<calls, status>>
        /\ uv' = IF missing'[d] = 0 THEN [uv EXCEPT ![p] = Idle, ![d] = new]
                 ELSE [uv EXCEPT ![p] = Idle]
    BY <1>2, <1>4 DEF OnFinishedMaybe, Drained
  <2>2. new.cb = "on_rmdir" /\ ~new.done
    BY SubmitFacts DEF Callbacks
  <2> HIDE DEF new
  <2>3. d \in steps /\ d \in Path /\ d # p
    BY <1>1, <1>4, ParentFacts DEF Closed, Entry
  <2>4. uv[d].cb = "none"
    BY <1>1, <1>4, <2>3, RequestFacts DEF ChildSteps
  <2>5. d \notin touched => onto[d] = Dir
    BY <2>3, <2>4 DEF RInv, EnteredAreDirs, Entered
  <2>6. ASSUME NEW q \in Path
        PROVE  \/ uv'[q] = uv[q] /\ (q \in steps' => q \in steps)
               \/ /\ ~uv'[q].done
                  /\ q \in steps' \ touched /\ Entered(q)' => onto[q] = Dir
                  /\ q \notin touched /\ uv'[q].cb = "on_rename" => MayMove(q)
    <3>1. CASE q = p
      BY <1>1, <1>2, <2>1, <2>3, <3>1
    <3>2. CASE q = d /\ missing'[d] = 0
      BY <1>1, <2>1, <2>2, <2>3, <2>5, <3>2
    <3>3. CASE q # p /\ ~(q = d /\ missing'[d] = 0)
      BY <1>1, <2>1, <2>3, <3>3
    <3> QED
      BY <3>1, <3>2, <3>3
  <2>7. steps' \subseteq Path
    BY <1>1, <2>1
  <2>8. RInv'
    BY <1>1, <2>6, <2>7, TreesStand
  <2> QED
    BY <1>1, <2>1, <2>8, Hidden DEF Refines
<1> QED
  BY <1>3, <1>4

(* A step goes on with another request it is entitled to.                  *)
LEMMA ResubmitRefines ==
  ASSUME IInv, RInv, NEW p \in Path, uv[p].cb # "none",
         NEW cb \in {"on_scandir", "on_rename", "on_rmdir"},
         cb # "on_rename" /\ p \notin touched => onto[p] = Dir,
         cb = "on_rename" /\ p \notin touched => MayMove(p),
         Resubmit(p, cb), UNCHANGED outside
  PROVE  Refines
<1>1. /\ uv \in [Path -> Request] /\ p \in steps /\ steps \subseteq Path /\ Top \in Path
      /\ UNCHANGED <<base, onto, before, touched, replace, started, steps, calls, status>>
  BY RequestFacts, PathAssumption DEF IInv, TypeOK, outside, Resubmit
<1>2. Submit(cb).cb = cb /\ ~Submit(cb).done
  BY SubmitFacts DEF Callbacks
<1>3. uv'[p].cb = cb /\ ~uv'[p].done /\ \A q \in Path : q # p => uv'[q] = uv[q]
  BY <1>1, <1>2 DEF Resubmit
<1>4. Entered(p)' => cb # "on_rename"
  BY <1>3 DEF Entered
<1>5. RInv'
  BY <1>1, <1>3, <1>4, TreesStand
<1> QED
  BY <1>1, <1>5, Hidden DEF Refines

LEMMA DescendRefines ==
  ASSUME IInv, RInv, NEW p \in Path, uv[p].cb = "on_scandir", Descend(p),
         UNCHANGED outside
  PROVE  Refines
<1> DEFINE J == Joined(uv[p].list)
<1>1. /\ p \in steps /\ steps \subseteq Path /\ Top \in Path
      /\ UNCHANGED <<base, onto, before, touched, replace, started, calls, status>>
  BY RequestFacts, PathAssumption DEF IInv, TypeOK, outside, Descend
<1>2. /\ steps' = steps \cup J
      /\ \A q \in J : /\ q \in Path /\ q # p
                      /\ uv'[q] = Submit(IF q \in uv[p].dirs THEN "on_stat_dir"
                                                           ELSE "on_stat_file")
      /\ uv'[p] = Idle
      /\ \A q \in Path : q # p /\ q \notin J => uv'[q] = uv[q]
  BY DescendFacts
<1>3. /\ Submit("on_stat_dir").cb = "on_stat_dir" /\ ~Submit("on_stat_dir").done
      /\ Submit("on_stat_file").cb = "on_stat_file" /\ ~Submit("on_stat_file").done
      /\ Idle.cb = "none" /\ ~Idle.done
  BY SubmitFacts, IdleFacts DEF Callbacks
<1>4. \A q \in J : uv'[q].cb \in Stats /\ ~uv'[q].done
  BY <1>2, <1>3 DEF Stats
<1>5. p \notin touched => onto[p] = Dir
  BY <1>1 DEF RInv, EnteredAreDirs, Entered
<1>6. ASSUME NEW q \in Path
      PROVE  \/ uv'[q] = uv[q] /\ (q \in steps' => q \in steps)
             \/ /\ ~uv'[q].done
                /\ q \in steps' \ touched /\ Entered(q)' => onto[q] = Dir
                /\ q \notin touched /\ uv'[q].cb = "on_rename" => MayMove(q)
  <2>1. CASE q = p
    BY <1>2, <1>3, <1>5, <2>1
  <2>2. CASE q \in J
    BY <1>4, <2>2 DEF Entered, Stats
  <2>3. CASE q # p /\ q \notin J
    BY <1>2, <2>3
  <2> QED
    BY <2>1, <2>2, <2>3
<1>7. RInv'
  BY <1>1, <1>2, <1>6, TreesStand
<1> QED
  BY <1>1, <1>7, Hidden DEF Refines

LEMMA LoopRefines ==
  ASSUME IInv, RInv, NEW p \in Path, Loop(p)
  PROVE  Refines
<1>1. /\ uv[p].cb # "none" /\ uv[p].done /\ uv[p].err \in Err /\ UNCHANGED outside
      /\ p \in steps /\ onto[p] \in Kind
  <2>1. /\ uv[p].cb # "none" /\ uv[p].done /\ uv[p].err \in Err /\ UNCHANGED outside
    BY DEF Loop, OnStatDir, OnStatFile, OnScandir, OnRename, OnRmdir, IInv, TypeOK, Request
  <2> QED
    BY <2>1, RequestFacts DEF IInv, TypeOK, Tree
<1>2. CASE OnStatDir(p)
  <2> DEFINE err == IF uv[p].err = OK /\ ~uv[p].isdir THEN "ENOTDIR" ELSE uv[p].err
  <2>1. uv[p].cb = "on_stat_dir" /\ err \in Err
    BY <1>1, <1>2 DEF OnStatDir, Err
  <2>2. /\ err = OK /\ p \notin touched => onto[p] = Dir
        /\ err = "ENOENT" /\ p \notin touched => onto[p] = Missing
    BY <1>1, <2>1 DEF RInv, StatIsCurrent, Stats, OK
  <2>3. \/ err = OK /\ Resubmit(p, "on_scandir")
        \/ DirMoves(err) /\ Resubmit(p, "on_rename")
        \/ err # OK /\ ~DirMoves(err) /\ OnFinishedMaybe(p, err)
    BY <1>2 DEF OnStatDir
  <2> HIDE DEF err
  <2>4. CASE err = OK /\ Resubmit(p, "on_scandir")
    BY <1>1, <2>2, <2>4, ResubmitRefines
  <2>5. CASE DirMoves(err) /\ Resubmit(p, "on_rename")
    BY <1>1, <2>2, <2>5, ResubmitRefines DEF DirMoves, MayMove
  <2>6. CASE err # OK /\ OnFinishedMaybe(p, err)
    BY <1>1, <2>1, <2>6, OnFinishedMaybeRefines
  <2> QED
    BY <2>3, <2>4, <2>5, <2>6
<1>3. CASE OnStatFile(p)
  <2>1. uv[p].cb = "on_stat_file" /\ FileErr(p) \in Err
    BY <1>1, <1>3 DEF OnStatFile, FileErr, Err, OK
  <2>2. FileErr(p) \in {OK, "ENOENT"} /\ p \notin touched => MayMove(p)
    BY <1>1, <2>1 DEF RInv, StatIsCurrent, Stats, OK, FileErr, MayMove, Kind
  <2>3. CASE FileErr(p) \in {OK, "ENOENT"} /\ Resubmit(p, "on_rename")
    BY <1>1, <2>2, <2>3, ResubmitRefines
  <2>4. CASE FileErr(p) \notin {OK, "ENOENT"} /\ OnFinishedMaybe(p, FileErr(p))
    BY <1>1, <2>1, <2>4, OnFinishedMaybeRefines
  <2> QED
    BY <1>3, <2>3, <2>4 DEF OnStatFile
<1>4. CASE OnScandir(p)
  <2>1. uv[p].cb = "on_scandir" /\ (p \notin touched => onto[p] = Dir)
    BY <1>1, <1>4 DEF OnScandir, RInv, EnteredAreDirs, Entered
  <2>2. CASE uv[p].err # OK /\ OnFinishedMaybe(p, uv[p].err)
    BY <1>1, <2>2, OnFinishedMaybeRefines
  <2>3. CASE Resubmit(p, "on_rmdir")
    BY <1>1, <2>1, <2>3, ResubmitRefines
  <2>4. CASE Descend(p)
    BY <1>1, <2>1, <2>4, DescendRefines
  <2> QED
    BY <1>4, <2>2, <2>3, <2>4 DEF OnScandir
<1>5. CASE OnRename(p) \/ OnRmdir(p)
  <2>1. Gone(p) /\ OnFinishedMaybe(p, uv[p].err)
    BY <1>5 DEF OnRename, OnRmdir, Gone
  <2> QED
    BY <1>1, <2>1, OnFinishedMaybeRefines
<1> QED
  BY <1>2, <1>3, <1>4, <1>5 DEF Loop

LEMMA StutterRefines ==
  ASSUME IInv, RInv, UNCHANGED vars
  PROVE  Refines
<1>1. UNCHANGED <<base, onto, before, touched, replace, started, steps, uv, calls, status>>
  BY DEF vars
<1>2. RInv'
  BY <1>1, TreesStand, PathAssumption DEF IInv, TypeOK
<1> QED
  BY <1>1, <1>2, Hidden DEF Refines

LEMMA InitRefines == Init => RInv /\ Merging!Init
<1> SUFFICES ASSUME Init PROVE RInv /\ Merging!Init
  OBVIOUS
<1>1. /\ base \in Tree /\ onto \in Tree /\ WellFormed(base) /\ WellFormed(onto)
      /\ before.base = base /\ before.onto = onto /\ steps = {}
      /\ Top \in Path /\ \A p \in Path : uv[p].cb = "none"
  BY MergeAssumption, PathAssumption, IdleFacts DEF Init
<1>2. RInv
  BY <1>1 DEF RInv, Settled, Agrees, StatIsCurrent, Stats, EnteredAreDirs, RenamesYield,
              TopIsGone, Gone
<1>3. Merging!Init
  BY <1>1, SameTree DEF Init, Merging!Init
<1> QED
  BY <1>2, <1>3

LEMMA NextRefines == IInv /\ RInv /\ [Next]_vars => RInv' /\ [Merging!Next]_Merging!vars
<1>1. SUFFICES ASSUME IInv, RInv, Next PROVE Refines
  BY StutterRefines DEF Refines
<1>2. CASE Call
  BY <1>1, <1>2, CallRefines
<1>3. CASE \E p \in Path : WorkStat(p) \/ WorkScandir(p)
  BY <1>1, <1>3, LookingWorkerRefines
<1>4. CASE \E p \in Path : WorkRename(p)
  BY <1>1, <1>4, RenamingWorkerRefines
<1>5. CASE \E p \in Path : WorkRmdir(p)
  BY <1>1, <1>5, RemovingWorkerRefines
<1>6. CASE \E p \in Path : Loop(p)
  BY <1>1, <1>6, LoopRefines
<1>7. CASE \E p \in Path : OtherChanges(p)
  BY <1>1, <1>7, OtherRefines
<1> QED
  BY <1>1, <1>2, <1>3, <1>4, <1>5, <1>6, <1>7 DEF Next, Loop

(* At every moment of a merge an entry nobody else touched is where it was *)
(* before the call, or where it belongs; and what the stat of a step found *)
(* in onto is still so when the step acts on it, in its callback or in the *)
(* rename it submits (src/merge.c:165-228).                                *)
THEOREM TreesAreKept == Spec => []RInv
<1>1. Init => RInv
  BY InitRefines
<1>2. IInv /\ RInv /\ [Next]_vars => RInv'
  BY NextRefines
<1> QED
  BY <1>1, <1>2, Invariance, PTL DEF Spec

(* fs_merge keeps the promise of TreeMerge: however the requests of the    *)
(* steps and the changes of others interleave, entries only move to their  *)
(* place, nothing is replaced that replace does not allow, directories are *)
(* dropped only when empty and present in onto, and a status of OK means   *)
(* that base is gone and onto the overlay of both (src/merge.c:28-65,      *)
(* 87-247).                                                                *)
THEOREM MergeIsRefined == Spec => RefinesMerge
<1>1. Init => Merging!Init
  BY InitRefines
<1>2. IInv /\ RInv /\ [Next]_vars => [Merging!Next]_Merging!vars
  BY NextRefines
<1> QED
  BY <1>1, <1>2, Invariance, TreesAreKept, PTL DEF Spec, RefinesMerge, Merging!Spec

-----------------------------------------------------------------------------
(* A merge nothing stands in the way of succeeds.                          *)
(*                                                                         *)
(* Then every system call ends as its step expects.  The rmdir of base is  *)
(* the one that needs an argument: it finds the directory empty because    *)
(* every entry listed became a step, and none ends before its entry is     *)
(* gone.                                                                   *)

(* What is known of the step of p in an undisturbed merge.                 *)
Expected(p) ==
  /\ uv[p].cb = "on_stat_file" => before.base[p] \in File
  /\ uv[p].cb = "on_stat_dir" /\ p # Top => before.base[p] = Dir
  /\ Entered(p) => before.base[p] = Dir
  /\ Gone(p) => uv[p].err = OK /\ base[p] = Missing
  /\ ~Gone(p) => base[p] # Missing
  /\ uv[p].cb \in Stats /\ uv[p].done => uv[p].err \in {OK, "ENOENT"}
  /\ uv[p].cb = "on_scandir" /\ uv[p].done =>
        /\ uv[p].err = OK /\ uv[p].list = Children(base, p)
        /\ uv[p].dirs = {q \in uv[p].list : base[q] = Dir}
  /\ uv[p].cb \in {"none", "on_rmdir"} => Children(base, p) \subseteq steps

MInv ==
  /\ ~started => base = before.base /\ result = OK
  /\ Mergeable /\ started =>
       /\ result = OK
       /\ calls > 0 => status = OK
       /\ \A p \in steps : Expected(p)

(* What Mergeable says of the trees as they are.                           *)
LEMMA MergeableFacts ==
  ASSUME IInv, RInv, Mergeable
  PROVE  /\ touched = {} /\ env.typed /\ env.unreadable = {} /\ env.toolong = {}
         /\ \A p \in Path : env.deny[p] = OK
         /\ before.base[Top] # Missing
         /\ \A p \in Path : base[p] # Missing =>
              /\ base[p] = before.base[p] /\ base[p] \in Kind /\ onto[p] \in Kind
              /\ onto[p] # Missing => /\ base[p] = Dir <=> onto[p] = Dir
                                      /\ base[p] = Dir \/ replace
                                      /\ p = Top => base[p] = Dir
<1>1. /\ touched = {} /\ env.typed /\ env.unreadable = {} /\ env.toolong = {}
      /\ \A p \in Path : env.deny[p] = OK
      /\ before.base[Top] # Missing
  BY DEF Mergeable
<1>2. SUFFICES ASSUME NEW p \in Path, base[p] # Missing
               PROVE  /\ base[p] = before.base[p] /\ base[p] \in Kind /\ onto[p] \in Kind
                      /\ onto[p] # Missing => /\ base[p] = Dir <=> onto[p] = Dir
                                              /\ base[p] = Dir \/ replace
                                              /\ p = Top => base[p] = Dir
  BY <1>1
<1>3. base[p] = before.base[p] /\ onto[p] = before.onto[p]
  BY <1>1, <1>2 DEF RInv, Settled, Agrees, Merged
<1>4. base[p] \in Kind /\ onto[p] \in Kind
  BY DEF IInv, TypeOK, Tree
<1>5. CASE onto[p] # Missing
  <2>1. p \in {q \in Path : before.base[q] # Missing /\ before.onto[q] # Missing}
    BY <1>2, <1>3, <1>5
  <2>2. /\ before.base[p] = Dir <=> before.onto[p] = Dir
        /\ before.base[p] = Dir \/ replace
        /\ p = Top => before.base[p] = Dir
    BY <2>1 DEF Mergeable
  <2> QED
    BY <1>3, <1>4, <2>2
<1> QED
  BY <1>3, <1>4, <1>5

(* The parent of a step waits for it, and so onto has a directory there.   *)
LEMMA ParentWaits ==
  ASSUME IInv, RInv, touched = {}, NEW p \in steps, p # Top
  PROVE  /\ p \in Entry /\ Parent(p) \in steps /\ uv[Parent(p)].cb = "none"
         /\ onto[Parent(p)] = Dir
<1>1. p \in Entry /\ Parent(p) \in steps /\ Parent(p) \in Path
  BY ParentFacts DEF IInv, TypeOK, QuietAfterCallback, Entry
<1>2. uv[Parent(p)].cb = "none"
  BY <1>1, RequestFacts DEF ChildSteps
<1> QED
  BY <1>1, <1>2 DEF RInv, EnteredAreDirs, Entered

(* A step that nothing happened to.                                        *)
LEMMA ExpectedStays ==
  ASSUME NEW q, Expected(q), uv'[q] = uv[q], UNCHANGED <<base, before>>,
         \A c \in Children(base, q) : c \in steps => c \in steps'
  PROVE  Expected(q)'
BY DEF Expected, Entered, Gone

(* ... although another one ended with its entry.                          *)
LEMMA ExpectedBeside ==
  ASSUME IInv, NEW p \in Path, uv[p].cb # "none", base' \in Tree,
         \A q \in Path : ~IsPrefix(p, q) => base'[q] = base[q],
         \A q \in Path : base'[q] \in {base[q], Missing},
         UNCHANGED <<before, steps>>,
         NEW q \in steps, q # p, Expected(q), uv'[q] = uv[q]
  PROVE  Expected(q)'
<1>1. /\ steps \subseteq Path /\ p \in steps /\ ChildSteps(q) \subseteq steps
      /\ q \in Path /\ ~IsPrefix(p, q)
  BY RequestFacts DEF ChildSteps
<1>2. base'[q] = base[q]
  BY <1>1
<1>3. Children(base', q) \subseteq Children(base, q)
  BY DEF Children, Entry
<1>4. ASSUME uv[q].cb = "on_scandir", uv[q].done
      PROVE  /\ Children(base', q) = Children(base, q)
             /\ \A c \in Children(base, q) : base'[c] = base[c]
  <2>1. ChildSteps(q) = {}
    BY <1>1, <1>4, RequestFacts
  <2>2. ASSUME NEW c \in Entry, Parent(c) = q PROVE ~IsPrefix(p, c)
    <3>1. c # p
      BY <1>1, <2>1, <2>2 DEF ChildSteps, Entry
    <3> QED
      BY <1>1, <2>2, <3>1, PrefixThroughParent
  <2>3. \A c \in Entry : Parent(c) = q => base'[c] = base[c]
    BY <2>2 DEF Entry
  <2> QED
    BY <2>3 DEF Children
<1>5. /\ uv'[q].cb = "on_stat_file" => before'.base[q] \in File
      /\ uv'[q].cb = "on_stat_dir" /\ q # Top => before'.base[q] = Dir
      /\ Entered(q)' => before'.base[q] = Dir
      /\ Gone(q)' => uv'[q].err = OK /\ base'[q] = Missing
      /\ ~Gone(q)' => base'[q] # Missing
      /\ uv'[q].cb \in Stats /\ uv'[q].done => uv'[q].err \in {OK, "ENOENT"}
  BY <1>2 DEF Expected, Entered, Gone
<1>6. uv'[q].cb = "on_scandir" /\ uv'[q].done =>
        /\ uv'[q].err = OK /\ uv'[q].list = Children(base', q)
        /\ uv'[q].dirs = {c \in uv'[q].list : base'[c] = Dir}
  BY <1>4 DEF Expected
<1>7. uv'[q].cb \in {"none", "on_rmdir"} => Children(base', q) \subseteq steps'
  BY <1>3 DEF Expected
<1> QED
  BY <1>5, <1>6, <1>7 DEF Expected

LEMMA StatExpected ==
  ASSUME IInv, RInv, Mergeable, NEW p \in Path, Expected(p), WorkStat(p)
  PROVE  Expected(p)'
<1>1. /\ uv[p].cb \in Stats /\ ~uv[p].done
      /\ UNCHANGED <<base, onto, before, steps>>
  BY DEF WorkStat, outside, Stats
<1>2. uv'[p].cb = uv[p].cb /\ uv'[p].done /\ uv'[p].err = LookupErr(onto, p)
  BY StatStores
<1>3. p \in steps /\ touched = {} /\ WellFormed(onto)
  BY <1>1, RequestFacts, MergeableFacts DEF Stats, RInv
<1>4. LookupErr(onto, p) # "ENOTDIR"
  <2> SUFFICES ASSUME onto[p] = Missing, NEW q \in Files(onto), IsPrefix(q, p) PROVE FALSE
    BY DEF LookupErr, OK
  <2>1. q \in Path /\ q # p /\ onto[q] # Dir
    BY KindFacts DEF Files
  <2>2. CASE p = Top
    <3>1. Len(Top) = 0 /\ Len(q) \in Nat /\ SubSeq(q, 1, Len(q)) = q /\ SubSeq(Top, 1, 0) = Top
      BY <2>1, <2>2, WholePrefix, EmptySeq DEF Top
    <3>2. Len(q) <= Len(Top) /\ SubSeq(Top, 1, Len(q)) = q
      BY <2>1, <2>2, PrefixIsCut
    <3>3. Len(q) = 0
      BY <3>1, <3>2
    <3> QED
      BY <2>1, <2>2, <3>1, <3>2, <3>3
  <2>3. CASE p # Top
    <3>1. p \in Entry /\ Parent(p) \in Path /\ onto[Parent(p)] = Dir
      BY <1>3, <2>3, ParentWaits, ParentFacts
    <3>2. IsPrefix(q, Parent(p))
      BY <2>1, <3>1, PrefixThroughParent
    <3> QED
      BY <1>3, <2>1, <3>1, <3>2, AboveIsDir, KindFacts
  <2> QED
    BY <2>2, <2>3
<1>5. uv'[p].err \in {OK, "ENOENT"}
  BY <1>2, <1>4 DEF LookupErr
<1> QED
  BY <1>1, <1>2, <1>5 DEF Expected, Entered, Gone, Stats

LEMMA ScandirExpected ==
  ASSUME IInv, RInv, Mergeable, NEW p \in Path, Expected(p), WorkScandir(p)
  PROVE  Expected(p)'
<1>1. /\ uv[p].cb = "on_scandir" /\ ~uv[p].done
      /\ UNCHANGED <<base, onto, before, steps>>
  BY DEF WorkScandir, outside
<1>2. base[p] = Dir
  BY <1>1, MergeableFacts DEF Expected, Gone, Entered
<1>3. ScandirErr(base, p, p \notin env.unreadable) = OK
  BY <1>2, MergeableFacts, KindFacts DEF ScandirErr, LookupErr
<1>4. /\ uv'[p].cb = "on_scandir" /\ uv'[p].done /\ uv'[p].err = OK
      /\ uv'[p].list = Children(base, p)
      /\ uv'[p].dirs = {q \in uv'[p].list : env.typed /\ base[q] = Dir}
  BY <1>1, <1>3, ScandirStores
<1>5. uv'[p].dirs = {q \in uv'[p].list : base[q] = Dir}
  BY <1>4, MergeableFacts
<1> QED
  BY <1>1, <1>4, <1>5 DEF Expected, Entered, Gone, Stats

LEMMA RenameExpected ==
  ASSUME IInv, RInv, Mergeable, NEW p \in Path, Expected(p), WorkRename(p)
  PROVE  /\ Expected(p)' /\ base' \in Tree
         /\ \A q \in Path : ~IsPrefix(p, q) => base'[q] = base[q]
         /\ \A q \in Path : base'[q] \in {base[q], Missing}
         /\ \A q \in Path : q # p => uv'[q] = uv[q]
<1>1. /\ uv[p].cb = "on_rename" /\ ~uv[p].done /\ before' = before
  BY DEF WorkRename
<1>2. /\ p \in steps /\ touched = {} /\ env.deny[p] = OK /\ base[p] # Missing
      /\ MayMove(p)
  BY <1>1, RequestFacts, MergeableFacts DEF RInv, RenamesYield, Expected, Gone
<1>3. p # Top => onto[Parent(p)] = Dir
  BY <1>2, ParentWaits
<1>4. RenameErr(base, onto, p, env.deny[p]) = OK
  <2>1. onto[p] # Missing => base[p] # Dir /\ onto[p] # Dir
    BY <1>2, MergeableFacts, KindFacts DEF MayMove
  <2> QED
    BY <1>2, <1>3, <2>1 DEF RenameErr, LookupErr
<1>5. uv' = Ran(p, OK) /\ base' = Pruned(base, p)
  BY <1>4 DEF WorkRename
<1>6. /\ uv'[p].cb = "on_rename" /\ uv'[p].done /\ uv'[p].err = OK
      /\ \A q \in Path : q # p => uv'[q] = uv[q]
  BY <1>1, <1>5, RanStores DEF Err
<1>7. /\ base' \in Tree /\ base'[p] = Missing
      /\ \A q \in Path : base'[q] = IF IsPrefix(p, q) THEN Missing ELSE base[q]
  BY <1>5, PrunedForm, TrivialPrefixes DEF Pruned, IInv, TypeOK, RInv
<1>8. Expected(p)'
  BY <1>1, <1>6, <1>7 DEF Expected, Entered, Gone, Stats
<1> QED
  BY <1>6, <1>7, <1>8

LEMMA RmdirExpected ==
  ASSUME IInv, RInv, Mergeable, NEW p \in Path, Expected(p), WorkRmdir(p)
  PROVE  /\ Expected(p)' /\ base' \in Tree
         /\ \A q \in Path : ~IsPrefix(p, q) => base'[q] = base[q]
         /\ \A q \in Path : base'[q] \in {base[q], Missing}
         /\ \A q \in Path : q # p => uv'[q] = uv[q]
<1>1. /\ uv[p].cb = "on_rmdir" /\ ~uv[p].done /\ before' = before /\ steps' = steps
  BY DEF WorkRmdir
<1>2. /\ env.deny[p] = OK /\ base[p] # Missing /\ base[p] = Dir /\ before.base[p] = Dir
  BY <1>1, MergeableFacts DEF Expected, Gone, Entered
<1>3. Children(base, p) = {}
  <2>1. Children(base, p) \subseteq steps /\ ChildSteps(p) = {}
    BY <1>1, RequestFacts DEF Expected
  <2> QED
    BY <2>1 DEF Children, ChildSteps, Entry
<1>4. RmdirErr(base, p, env.deny[p]) = OK
  BY <1>2, <1>3 DEF RmdirErr, LookupErr
<1>5. uv' = Ran(p, OK) /\ base' = Without(base, p)
  BY <1>4 DEF WorkRmdir
<1>6. /\ uv'[p].cb = "on_rmdir" /\ uv'[p].done /\ uv'[p].err = OK
      /\ \A q \in Path : q # p => uv'[q] = uv[q]
  BY <1>1, <1>5, RanStores DEF Err
<1>7. /\ base' \in Tree /\ base'[p] = Missing
      /\ \A q \in Path : q # p => base'[q] = base[q]
  BY <1>5 DEF Without, Tree, Kind, IInv, TypeOK
<1>8. Children(base', p) \subseteq steps'
  BY <1>3, <1>7, ParentFacts DEF Children, Entry
<1>9. Expected(p)'
  BY <1>1, <1>2, <1>6, <1>7, <1>8 DEF Expected, Entered, Gone, Stats
<1> QED
  BY <1>6, <1>7, <1>9, TrivialPrefixes

(* Nothing but a change made by another process alters what is expected.   *)
LEMMA MergeableStays ==
  ASSUME UNCHANGED <<before, env, touched, replace>>
  PROVE  Mergeable' <=> Mergeable
BY DEF Mergeable

(* What is left to show of a step of a merge under way.                    *)
LEMMA Undisturbed ==
  ASSUME MInv, started, UNCHANGED <<before, env, touched, replace, started>>,
         Mergeable => /\ result' = OK
                      /\ calls' > 0 => status' = OK
                      /\ \A q \in steps' : Expected(q)'
  PROVE  MInv'
BY MergeableStays DEF MInv

LEMMA CallMerges ==
  ASSUME IInv, RInv, MInv, Call
  PROVE  MInv'
<1>1. SUFFICES ASSUME Mergeable
               PROVE  result = OK /\ calls = 0 /\ \A q \in {Top} : Expected(q)'
  BY MergeableStays DEF MInv, Call, IInv, NothingBeforeCall
<1>2. result = OK /\ calls = 0 /\ base = before.base /\ Top \in Path
  BY PathAssumption DEF MInv, Call, IInv, NothingBeforeCall
<1>3. uv'[Top] = Submit("on_stat_dir") /\ before' = before /\ base' = base
  BY <1>2 DEF Call, IInv, TypeOK
<1>4. uv'[Top].cb = "on_stat_dir" /\ ~uv'[Top].done
  BY <1>3, SubmitFacts DEF Callbacks
<1>5. base[Top] # Missing
  BY <1>1, <1>2 DEF Mergeable
<1>6. Expected(Top)'
  BY <1>3, <1>4, <1>5 DEF Expected, Entered, Gone, Stats
<1> QED
  BY <1>2, <1>6

LEMMA WorkMerges ==
  ASSUME IInv, RInv, MInv, NEW p \in Path, Worker(p)
  PROVE  MInv'
<1>1. uv[p].cb # "none" /\ UNCHANGED <<before, env, touched, replace, started, steps, result, calls, status>>
  BY DEF Worker, WorkStat, WorkScandir, WorkRename, WorkRmdir, outside
<1>2. p \in steps /\ steps \subseteq Path /\ started /\ calls = 0
  BY <1>1, RequestFacts
<1>3. SUFFICES ASSUME Mergeable PROVE \A q \in steps : Expected(q)'
  BY <1>1, <1>2, Undisturbed DEF MInv
<1>4. \A q \in steps : Expected(q)
  BY <1>2, <1>3 DEF MInv
<1>5. CASE WorkStat(p) \/ WorkScandir(p)
  <2>1. Expected(p)'
    BY <1>2, <1>3, <1>4, <1>5, StatExpected, ScandirExpected
  <2>2. base' = base /\ \A q \in Path : q # p => uv'[q] = uv[q]
    BY <1>5, StatStores, ScandirStores DEF WorkStat, WorkScandir, outside
  <2>3. ASSUME NEW q \in steps, q # p PROVE Expected(q)'
    BY <1>1, <1>2, <1>4, <2>2, <2>3, ExpectedStays
  <2> QED
    BY <2>1, <2>3
<1>6. CASE WorkRename(p) \/ WorkRmdir(p)
  <2>1. /\ Expected(p)' /\ base' \in Tree
        /\ \A q \in Path : ~IsPrefix(p, q) => base'[q] = base[q]
        /\ \A q \in Path : base'[q] \in {base[q], Missing}
        /\ \A q \in Path : q # p => uv'[q] = uv[q]
    BY <1>2, <1>3, <1>4, <1>6, RenameExpected, RmdirExpected
  <2>2. ASSUME NEW q \in steps, q # p PROVE Expected(q)'
    <3>1. uv'[q] = uv[q] /\ Expected(q)
      BY <1>2, <1>4, <2>1, <2>2
    <3> QED
      BY <1>1, <2>1, <2>2, <3>1, ExpectedBeside
  <2> QED
    BY <2>1, <2>2
<1> QED
  BY <1>5, <1>6 DEF Worker

(* The next request of a step.                                             *)
LEMMA ResubmitMerges ==
  ASSUME IInv, RInv, MInv, Mergeable, NEW p \in Path, uv[p].cb # "none", ~Gone(p),
         NEW cb \in {"on_scandir", "on_rename", "on_rmdir"}, Resubmit(p, cb),
         UNCHANGED outside,
         cb # "on_rename" => before.base[p] = Dir,
         cb = "on_rmdir" => Children(base, p) \subseteq steps
  PROVE  MInv'
<1>1. /\ p \in steps /\ steps \subseteq Path /\ started /\ calls = 0
      /\ uv \in [Path -> Request]
      /\ UNCHANGED <<base, before, env, touched, replace, started, steps, result, calls, status>>
  BY RequestFacts DEF outside, Resubmit, IInv, TypeOK
<1>2. result = OK /\ \A q \in steps : Expected(q)
  BY <1>1 DEF MInv
<1>3. cb # "none" /\ Submit(cb).cb = cb /\ ~Submit(cb).done
  BY SubmitFacts DEF Callbacks
<1>4. uv'[p].cb = cb /\ ~uv'[p].done /\ \A q \in Path : q # p => uv'[q] = uv[q]
  BY <1>1, <1>3 DEF Resubmit
<1>5. base[p] # Missing
  BY <1>1, <1>2 DEF Expected
<1>6. Expected(p)'
  BY <1>1, <1>4, <1>5 DEF Expected, Entered, Gone, Stats
<1>7. ASSUME NEW q \in steps, q # p PROVE Expected(q)'
  BY <1>1, <1>2, <1>4, <1>7, ExpectedStays
<1> QED
  BY <1>1, <1>2, <1>6, <1>7, Undisturbed

(* The child steps of a listing.                                           *)
LEMMA DescendMerges ==
  ASSUME IInv, RInv, MInv, Mergeable, NEW p \in Path,
         uv[p].cb = "on_scandir", uv[p].done, Descend(p), UNCHANGED outside
  PROVE  MInv'
<1> DEFINE J == Joined(uv[p].list)
<1>1. /\ p \in steps /\ steps \subseteq Path /\ started /\ calls = 0
      /\ UNCHANGED <<base, before, env, touched, replace, started, result, calls, status>>
  BY RequestFacts DEF outside, Descend
<1>2. result = OK /\ \A q \in steps : Expected(q)
  BY <1>1 DEF MInv
<1>3. /\ before.base[p] = Dir /\ base[p] # Missing
      /\ uv[p].list = Children(base, p)
      /\ uv[p].dirs = {q \in Children(base, p) : base[q] = Dir}
  BY <1>1, <1>2 DEF Expected, Entered, Gone
<1>4. J = Children(base, p)
  BY <1>3, MergeableFacts DEF Joined
<1>5. /\ steps' = steps \cup J
      /\ \A q \in J : /\ q \in Path /\ q # p
                      /\ uv'[q] = Submit(IF q \in uv[p].dirs THEN "on_stat_dir"
                                                           ELSE "on_stat_file")
      /\ uv'[p] = Idle
      /\ \A q \in Path : q # p /\ q \notin J => uv'[q] = uv[q]
  BY <1>1, DescendFacts
<1>6. Expected(p)'
  BY <1>1, <1>3, <1>4, <1>5, IdleFacts DEF Expected, Entered, Gone, Stats
<1>7. ASSUME NEW q \in J PROVE Expected(q)'
  <2>1. base[q] # Missing /\ q \in Path
    BY <1>4, <1>5, <1>7 DEF Children
  <2>2. base[q] = before.base[q] /\ base[q] \in Kind
    BY <2>1, MergeableFacts
  <2>3. CASE base[q] = Dir
    <3>1. uv'[q] = Submit("on_stat_dir")
      BY <1>3, <1>4, <1>5, <1>7, <2>3
    <3>2. uv'[q].cb = "on_stat_dir" /\ ~uv'[q].done
      BY <3>1, SubmitFacts DEF Callbacks
    <3> QED
      BY <1>1, <2>1, <2>2, <2>3, <3>2 DEF Expected, Entered, Gone, Stats
  <2>4. CASE base[q] # Dir
    <3>1. uv'[q] = Submit("on_stat_file")
      BY <1>3, <1>5, <1>7, <2>4
    <3>2. uv'[q].cb = "on_stat_file" /\ ~uv'[q].done
      BY <3>1, SubmitFacts DEF Callbacks
    <3>3. before.base[q] \in File
      BY <2>1, <2>2, <2>4, KindFacts DEF Kind
    <3> QED
      BY <1>1, <2>1, <3>2, <3>3 DEF Expected, Entered, Gone, Stats
  <2> QED
    BY <2>3, <2>4
<1>8. ASSUME NEW q \in steps, q # p, q \notin J PROVE Expected(q)'
  BY <1>1, <1>2, <1>5, <1>8, ExpectedStays
<1> QED
  BY <1>1, <1>2, <1>5, <1>6, <1>7, <1>8, Undisturbed

(* The end of a step, with its entry gone.                                 *)
LEMMA FinishMerges ==
  ASSUME IInv, RInv, MInv, Mergeable, NEW p \in Path, Gone(p),
         OnFinishedMaybe(p, uv[p].err), UNCHANGED outside
  PROVE  MInv'
<1>1. /\ p \in steps /\ steps \subseteq Path /\ Closed(steps) /\ started /\ calls = 0
      /\ missing[p] = 0 /\ ChildSteps(p) = {}
      /\ \A q \in steps : IsPrefix(p, q) => q = p
      /\ uv \in [Path -> Request] /\ missing \in [Path -> Nat]
      /\ UNCHANGED <<base, before, env, touched, replace, started>>
  BY RequestFacts DEF Gone, outside, IInv, TypeOK
<1>2. result = OK /\ \A q \in steps : Expected(q)
  BY <1>1 DEF MInv
<1>3. uv[p].err = OK /\ base[p] = Missing
  BY <1>1, <1>2 DEF Expected
<1>4. result' = OK /\ Drained(missing, p)
  BY <1>1, <1>2, <1>3 DEF OnFinishedMaybe, Retain, Drained
<1>5. CASE p = Top /\ steps' = steps \ {p} /\ OnFinished
  <2>1. steps' = {}
    BY <1>1, <1>5, TrivialPrefixes
  <2> QED
    BY <1>1, <1>4, <1>5, <2>1, Undisturbed DEF OnFinished
<1>6. CASE /\ p # Top
           /\ steps' = steps \ {p}
           /\ missing' = Discount(Parent(p))
           /\ uv' = IF Drained(missing', Parent(p))
                    THEN [uv EXCEPT ![p] = Idle, ![Parent(p)] = Submit("on_rmdir")]
                    ELSE [uv EXCEPT ![p] = Idle]
           /\ UNCHANGED <<calls, status>>
  <2> DEFINE d == Parent(p)
             new == Submit("on_rmdir")
  <2>1. p \in Entry /\ d \in steps /\ d \in Path /\ d # p /\ uv[d].cb = "none"
    BY <1>1, <1>6, ParentFacts, RequestFacts DEF Closed, Entry, ChildSteps
  <2>2. new.cb = "on_rmdir" /\ ~new.done
    BY SubmitFacts DEF Callbacks
  <2>3. /\ uv'[d] \in {uv[d], new}
        /\ \A q \in Path : q # p /\ q # d => uv'[q] = uv[q]
    <3>1. \/ uv' = [uv EXCEPT ![p] = Idle, ![d] = new]
          \/ uv' = [uv EXCEPT ![p] = Idle]
      BY <1>6
    <3> HIDE DEF new
    <3> QED
      BY <1>1, <2>1, <3>1
  <2> HIDE DEF new
  <2>4. \A q \in Path : \A c \in Children(base, q) : c \in steps => c \in steps'
    BY <1>3, <1>6 DEF Children
  <2>5. ASSUME NEW q \in steps, q # p, uv'[q] = uv[q] PROVE Expected(q)'
    BY <1>1, <1>2, <2>4, <2>5, ExpectedStays
  <2>6. ASSUME uv'[d] = new PROVE Expected(d)'
    <3>1. /\ before.base[d] = Dir /\ base[d] # Missing
          /\ Children(base, d) \subseteq steps
      BY <1>2, <2>1 DEF Expected, Entered, Gone
    <3>2. Children(base, d) \subseteq steps'
      BY <2>1, <2>4, <3>1
    <3> QED
      BY <1>1, <2>2, <2>6, <3>1, <3>2 DEF Expected, Entered, Gone, Stats
  <2>7. \A q \in steps' : Expected(q)'
    BY <1>1, <1>6, <2>1, <2>3, <2>5, <2>6
  <2> QED
    BY <1>1, <1>4, <1>6, <2>7, Undisturbed
<1> QED
  BY <1>4, <1>5, <1>6 DEF OnFinishedMaybe

LEMMA LoopMerges ==
  ASSUME IInv, RInv, MInv, NEW p \in Path, Loop(p)
  PROVE  MInv'
<1>1. uv[p].cb # "none" /\ uv[p].done /\ UNCHANGED outside
  BY DEF Loop, OnStatDir, OnStatFile, OnScandir, OnRename, OnRmdir
<1>2. /\ p \in steps /\ started
      /\ UNCHANGED <<before, env, touched, replace, started>>
  BY <1>1, RequestFacts DEF outside
<1>3. SUFFICES ASSUME Mergeable PROVE MInv'
  BY <1>2, Undisturbed
<1>4. Expected(p) /\ touched = {} /\ p \notin touched
  BY <1>2, <1>3, MergeableFacts DEF MInv
<1>5. CASE OnStatDir(p)
  <2>1. uv[p].cb = "on_stat_dir" /\ ~Gone(p) /\ uv[p].err \in {OK, "ENOENT"}
    BY <1>1, <1>4, <1>5 DEF OnStatDir, Expected, Gone, Stats
  <2>2. /\ uv[p].err = OK <=> onto[p] # Missing
        /\ uv[p].isdir <=> onto[p] = Dir
        /\ base[p] # Missing
    BY <1>1, <1>4, <2>1 DEF RInv, StatIsCurrent, Stats, Expected
  <2>3. CASE uv[p].err = OK
    <3>1. base[p] = Dir /\ before.base[p] = Dir
      BY <1>3, <1>4, <2>1, <2>2, <2>3, MergeableFacts DEF Expected
    <3>2. uv[p].isdir
      BY <1>3, <2>2, <2>3, <3>1, MergeableFacts
    <3>3. Resubmit(p, "on_scandir")
      BY <1>5, <2>3, <3>2 DEF OnStatDir, DirMoves, OK
    <3> QED
      BY <1>1, <1>3, <2>1, <3>1, <3>3, ResubmitMerges
  <2>4. CASE uv[p].err = "ENOENT"
    <3>1. Resubmit(p, "on_rename")
      BY <1>5, <2>4 DEF OnStatDir, DirMoves, OK
    <3> QED
      BY <1>1, <1>3, <2>1, <3>1, ResubmitMerges
  <2> QED
    BY <2>1, <2>3, <2>4
<1>6. CASE OnStatFile(p)
  <2>1. uv[p].cb = "on_stat_file" /\ ~Gone(p) /\ uv[p].err \in {OK, "ENOENT"}
    BY <1>1, <1>4, <1>6 DEF OnStatFile, Expected, Gone, Stats
  <2>2. /\ uv[p].err = OK <=> onto[p] # Missing
        /\ uv[p].isdir <=> onto[p] = Dir
        /\ base[p] # Missing /\ before.base[p] \in File
    BY <1>1, <1>4, <2>1 DEF RInv, StatIsCurrent, Stats, Expected
  <2>3. base[p] # Dir
    BY <1>3, <2>2, MergeableFacts, KindFacts
  <2>4. FileErr(p) \in {OK, "ENOENT"}
    <3>1. onto[p] # Missing => onto[p] # Dir /\ replace
      BY <1>3, <2>2, <2>3, MergeableFacts
    <3> QED
      BY <2>1, <2>2, <3>1 DEF FileErr
  <2>5. Resubmit(p, "on_rename")
    BY <1>6, <2>4 DEF OnStatFile
  <2> QED
    BY <1>1, <1>3, <2>1, <2>5, ResubmitMerges
<1>7. CASE OnScandir(p)
  <2>1. uv[p].cb = "on_scandir" /\ ~Gone(p) /\ uv[p].err = OK /\ before.base[p] = Dir
        /\ uv[p].list = Children(base, p)
    BY <1>1, <1>4, <1>7 DEF OnScandir, Expected, Gone, Entered
  <2>2. CASE uv[p].list = {} /\ Resubmit(p, "on_rmdir")
    BY <1>1, <1>3, <2>1, <2>2, ResubmitMerges
  <2>3. CASE Descend(p)
    BY <1>1, <1>3, <2>1, <2>3, DescendMerges
  <2> QED
    BY <1>7, <2>1, <2>2, <2>3 DEF OnScandir
<1>8. CASE OnRename(p) \/ OnRmdir(p)
  <2>1. Gone(p) /\ OnFinishedMaybe(p, uv[p].err)
    BY <1>8 DEF OnRename, OnRmdir, Gone
  <2> QED
    BY <1>1, <1>3, <2>1, FinishMerges
<1> QED
  BY <1>5, <1>6, <1>7, <1>8 DEF Loop

LEMMA NextMerges == IInv /\ RInv /\ MInv /\ [Next]_vars => MInv'
<1>1. ASSUME IInv, RInv, MInv, Next PROVE MInv'
  <2>1. CASE Call
    BY <1>1, <2>1, CallMerges
  <2>2. CASE \E p \in Path : Worker(p)
    BY <1>1, <2>2, WorkMerges
  <2>3. CASE \E p \in Path : Loop(p)
    BY <1>1, <2>3, LoopMerges
  <2>4. CASE \E p \in Path : OtherChanges(p)
    BY <1>1, <2>4 DEF OtherChanges, Running, MInv, Mergeable
  <2> QED
    BY <1>1, <2>1, <2>2, <2>3, <2>4 DEF Next, Worker, Loop
<1>2. ASSUME MInv, UNCHANGED vars PROVE MInv'
  BY <1>2 DEF vars, MInv, Mergeable, Expected, Gone, Entered
<1> QED
  BY <1>1, <1>2

(* A merge nothing stands in the way of succeeds: the trees agree in kind  *)
(* where both have an entry, files may be replaced where both have one,    *)
(* nothing is refused and nobody interferes (src/merge.c:28-65, 87-247).   *)
THEOREM MergeableSucceeds == Spec => []MergeableIsMerged
<1>1. Init => MInv
  BY DEF Init, MInv
<1>2. IInv /\ MInv => MergeableIsMerged
  BY DEF IInv, TypeOK, NothingBeforeCall, MInv, MergeableIsMerged
<1> QED
  BY <1>1, <1>2, NextMerges, Invariance, TreesAreKept, PTL DEF Spec
=============================================================================
