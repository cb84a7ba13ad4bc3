---------------------------- MODULE MkdirProofs ----------------------------
(***************************************************************************)
(* Proofs about Mkdir, for any number of concurrent calls, any tree and    *)
(* any number of changes by other processes.                               *)
(*                                                                         *)
(* That a reported success is true is not inductive by itself: the answer  *)
(* travels from the worker through the request to the callback, and the    *)
(* tree changes under it.  The invariant IInv says of each finished        *)
(* request what its answer still means (AnswersHold).                      *)
(***************************************************************************)
EXTENDS Mkdir, FileTreeProofs

-----------------------------------------------------------------------------
(* The inductive invariant.                                                *)

(* There is a directory at p, or somebody else removed it.                 *)
Made(p) == tree[p] = Dir \/ p \in gone

(* What a request works on, and what its answer means from then on.        *)
AnswersHold ==
  \A r \in Req :
     /\ uv[r].cb \in {"on_mkdir", "on_stat"} => uv[r].path = target[r]
     /\ /\ uv[r].cb \in {"on_mkdir", "on_mkdir_recursive"}
        /\ uv[r].done /\ uv[r].err = OK
        => Made(uv[r].path)
     /\ uv[r].cb = "on_stat" /\ uv[r].done /\ uv[r].isdir => Made(target[r])

(* Before the call rec->next is NULL and nothing is submitted.             *)
Fresh == \A r \in Req : mode[r] = "none" => cuts[r] = {} /\ uv[r].cb = "none"

IInv ==
  /\ TypeOK
  /\ CutsAreContiguous
  /\ AnswersHold
  /\ Fresh
  /\ SuccessMeansDirectory

-----------------------------------------------------------------------------
(* Small facts.                                                            *)

LEMMA SubmitFacts ==
  ASSUME NEW cb \in Callbacks \cup {"none"}, NEW p \in Path
  PROVE  /\ Submit(cb, p) \in Request
         /\ Submit(cb, p).cb = cb /\ Submit(cb, p).path = p /\ ~Submit(cb, p).done
BY DEF Submit, Request, Err, OK

LEMMA IdleFacts == Idle \in Request /\ Idle.cb = "none"
BY PathAssumption, SubmitFacts DEF Idle

(* The string at rec->next when exactly the separators from the n-th on    *)
(* are overwritten: the first n components.                                *)
LEMMA NextPathFacts ==
  ASSUME TypeOK, NEW r \in Req, NEW n \in Nat, n <= Len(target[r]),
         NEW cut, cut = n .. Len(target[r]) - 1
  PROVE  /\ NextPath(r, cut) = SubSeq(target[r], 1, n)
         /\ NextPath(r, cut) \in Path
         /\ Len(NextPath(r, cut)) = n
<1>1. target[r] \in Path /\ Len(target[r]) \in Nat
  BY ParentFacts DEF TypeOK, Entry
<1> DEFINE l == Len(target[r])
<1>2. n \in cut \cup {l} /\ \A m \in cut \cup {l} : m \in Nat /\ n <= m
  <2>1. l \in Nat /\ n <= l
    BY <1>1
  <2> HIDE DEF l
  <2> QED
    BY <2>1 DEF l
<1>3. n = CHOOSE k \in cut \cup {l} : \A m \in cut \cup {l} : k <= m
  <2>1. \A k \in cut \cup {l} : (\A m \in cut \cup {l} : k <= m) => k = n
    BY <1>2
  <2> QED
    BY <1>2, <2>1
<1>4. NextPath(r, cut) = SubSeq(target[r], 1, n)
  BY <1>3 DEF NextPath
<1>5. n \in 0 .. Len(target[r])
  BY <1>1
<1> QED
  BY <1>1, <1>4, <1>5, PrefixFacts

(* What is made stays made, or was removed by somebody else.               *)
LEMMA MadeStays ==
  ASSUME \A p \in Path : tree[p] = Dir => tree'[p] = Dir \/ p \in gone',
         gone \subseteq gone',
         NEW p \in Path, Made(p)
  PROVE  Made(p)'
BY DEF Made

-----------------------------------------------------------------------------
(* Each kind of step keeps the invariant.                                  *)

LEMMA InitEstablishes == Init => IInv
<1> SUFFICES ASSUME Init PROVE IInv
  OBVIOUS
<1>1. TypeOK
  BY MkdirAssumption, IdleFacts DEF Init, TypeOK, Err
<1>2. CutsAreContiguous /\ AnswersHold /\ Fresh /\ SuccessMeansDirectory
  BY IdleFacts DEF Init, CutsAreContiguous, AnswersHold, Fresh, SuccessMeansDirectory, OK
<1> QED
  BY <1>1, <1>2 DEF IInv

LEMMA CallKeeps ==
  ASSUME IInv, NEW r \in Req, NEW recursive \in BOOLEAN, Call(r, recursive)
  PROVE  IInv'
<1> DEFINE cb  == IF recursive THEN "on_mkdir_recursive" ELSE "on_mkdir"
           new == Submit(cb, target[r])
<1>1. target[r] \in Entry /\ target[r] \in Path /\ uv \in [Req -> Request]
  BY DEF IInv, TypeOK, Entry
<1>2. new \in Request /\ new.cb = cb /\ new.path = target[r] /\ ~new.done
  BY <1>1, SubmitFacts DEF Callbacks
<1>3. /\ uv' = [uv EXCEPT ![r] = new]
      /\ cuts[r] = {} /\ mode'[r] # "none"
      /\ mode' \in [Req -> {"none", "plain", "recursive"}]
      /\ \A q \in Req : q # r => mode'[q] = mode[q]
      /\ UNCHANGED <<tree, deny, target, cuts, status, others, gone, meddled>>
  BY DEF Call, IInv, TypeOK, Fresh
<1> HIDE DEF new
<1>4. /\ uv' \in [Req -> Request] /\ uv'[r] = new
      /\ \A q \in Req : q # r => uv'[q] = uv[q]
  BY <1>1, <1>2, <1>3
<1>5. TypeOK'
  BY <1>3, <1>4 DEF IInv, TypeOK
<1>6. CutsAreContiguous'
  <2>1. /\ target[r] = SubSeq(target[r], 1, Len(target[r]))
        /\ Len(target[r]) .. Len(target[r]) - 1 = {}
    BY <1>1, WholePrefix
  <2>2. LET n == Len(uv'[r].path) IN
          /\ n <= Len(target[r]) /\ uv'[r].path = SubSeq(target[r], 1, n)
          /\ cuts[r] = n .. Len(target[r]) - 1
    BY <1>2, <1>3, <1>4, <2>1
  <2> QED
    BY <1>3, <1>4, <2>2 DEF IInv, CutsAreContiguous
<1>7. (AnswersHold /\ Fresh /\ SuccessMeansDirectory)'
  BY <1>2, <1>3, <1>4 DEF IInv, AnswersHold, Fresh, SuccessMeansDirectory, Made
<1> QED
  BY <1>5, <1>6, <1>7 DEF IInv

LEMMA ErrTypes ==
  ASSUME deny \in Denial, NEW p \in Path
  PROVE  MkdirErr(tree, p, deny[p]) \in Err /\ LookupErr(tree, p) \in Err
BY DEF Denial, MkdirErr, LookupErr, Err, OK

LEMMA WorkMkdirKeeps ==
  ASSUME IInv, NEW r \in Req, WorkMkdir(r)
  PROVE  IInv'
<1> DEFINE p   == uv[r].path
           err == MkdirErr(tree, p, deny[p])
<1>1. p \in Path /\ uv \in [Req -> Request] /\ err \in Err /\ tree \in Tree
  BY ErrTypes DEF IInv, TypeOK, Request
<1>2. err = OK => tree[p] # Dir
  BY DEF MkdirErr, Missing, Dir, OK
<1>3. /\ uv' = [uv EXCEPT ![r].done = TRUE, ![r].err = err]
      /\ tree' = IF err = OK THEN [tree EXCEPT ![p] = Dir] ELSE tree
      /\ meddled' \subseteq meddled \cup Req
      /\ uv[r].cb \in {"on_mkdir", "on_mkdir_recursive"}
      /\ UNCHANGED <<deny, mode, target, cuts, status, others, gone>>
  BY DEF WorkMkdir, Under
<1> HIDE DEF err
<1>4. /\ uv' \in [Req -> Request]
      /\ uv'[r].done /\ uv'[r].err = err
      /\ \A q \in Req : uv'[q].cb = uv[q].cb /\ uv'[q].path = uv[q].path
      /\ \A q \in Req : q # r => uv'[q] = uv[q]
  BY <1>1, <1>3 DEF Request
<1>5. /\ tree' \in Tree
      /\ \A q \in Path : tree[q] = Dir => tree'[q] = Dir
      /\ err = OK => tree'[p] = Dir
  BY <1>1, <1>3 DEF Tree, Kind
<1>6. TypeOK'
  BY <1>3, <1>4, <1>5 DEF IInv, TypeOK
<1>7. (CutsAreContiguous /\ Fresh)'
  BY <1>3, <1>4 DEF IInv, CutsAreContiguous, Fresh
<1>8. \A q \in Path : Made(q) => Made(q)'
  BY <1>3, <1>5 DEF Made
<1>9. SuccessMeansDirectory'
  BY <1>3, <1>8 DEF IInv, TypeOK, Entry, SuccessMeansDirectory, Made
<1>10. AnswersHold'
  <2>1. SUFFICES ASSUME NEW q \in Req
                 PROVE  /\ uv'[q].cb \in {"on_mkdir", "on_stat"} => uv'[q].path = target[q]
                        /\ /\ uv'[q].cb \in {"on_mkdir", "on_mkdir_recursive"}
                           /\ uv'[q].done /\ uv'[q].err = OK
                           => Made(uv[q].path)'
                        /\ uv'[q].cb = "on_stat" /\ uv'[q].done /\ uv'[q].isdir =>
                             Made(target[q])'
    BY <1>3 DEF AnswersHold
  <2>2. uv[q].path \in Path /\ target[q] \in Path
    BY DEF IInv, TypeOK, Request, Entry
  <2>3. CASE q = r
    BY <1>3, <1>4, <1>5, <2>3 DEF IInv, AnswersHold, Made
  <2>4. CASE q # r
    <3>1. uv'[q] = uv[q] /\ target'[q] = target[q]
      BY <1>3, <1>4, <2>4
    <3>2. (Made(uv[q].path) => Made(uv[q].path)') /\ (Made(target[q]) => Made(target[q])')
      BY <1>3, <1>5, <2>2, <3>1 DEF Made
    <3> QED
      BY <3>1, <3>2 DEF IInv, AnswersHold
  <2> QED
    BY <2>3, <2>4
<1> QED
  BY <1>6, <1>7, <1>9, <1>10 DEF IInv

LEMMA WorkStatKeeps ==
  ASSUME IInv, NEW r \in Req, WorkStat(r)
  PROVE  IInv'
<1> DEFINE err   == LookupErr(tree, uv[r].path)
           isdir == tree[uv[r].path] = Dir
<1>1. /\ uv \in [Req -> Request] /\ err \in Err /\ uv[r].cb = "on_stat"
      /\ isdir \in BOOLEAN
  BY ErrTypes DEF IInv, TypeOK, Request, WorkStat
<1>2. /\ uv' = [uv EXCEPT ![r].done = TRUE, ![r].err = err,
                         ![r].isdir = isdir]
      /\ UNCHANGED <<tree, deny, mode, target, cuts, status, others, gone, meddled>>
  BY DEF WorkStat
<1> HIDE DEF err, isdir
<1>3. /\ uv' \in [Req -> Request]
      /\ uv'[r].isdir = isdir
      /\ \A q \in Req : uv'[q].cb = uv[q].cb /\ uv'[q].path = uv[q].path
      /\ \A q \in Req : q # r => uv'[q] = uv[q]
  BY <1>1, <1>2 DEF Request
<1>4. TypeOK'
  BY <1>2, <1>3 DEF IInv, TypeOK
<1>5. (CutsAreContiguous /\ Fresh /\ SuccessMeansDirectory)'
  BY <1>2, <1>3 DEF IInv, CutsAreContiguous, Fresh, SuccessMeansDirectory
<1>6. AnswersHold'
  <2>1. isdir => Made(target[r])
    BY <1>1 DEF IInv, AnswersHold, Made, isdir
  <2>2. \A p : Made(p)' <=> Made(p)
    BY <1>2 DEF Made
  <2> QED
    BY <1>1, <1>2, <1>3, <2>1, <2>2 DEF IInv, AnswersHold
<1> QED
  BY <1>4, <1>5, <1>6 DEF IInv

(* A callback that ends the call with err.                                 *)
LEMMA OnFinishedKeeps ==
  ASSUME IInv, NEW r \in Req, NEW err \in Err, OnFinished(r, err),
         err = OK => Made(target[r]),
         UNCHANGED <<tree, deny, mode, target, others, gone, meddled>>
  PROVE  IInv'
<1>1. /\ uv \in [Req -> Request] /\ status \in [Req -> Err \cup {"none"}]
      /\ uv' = [uv EXCEPT ![r] = Idle] /\ status' = [status EXCEPT ![r] = err]
      /\ UNCHANGED cuts
  BY DEF IInv, TypeOK, OnFinished
<1>2. /\ uv' \in [Req -> Request] /\ uv'[r].cb = "none"
      /\ \A q \in Req : q # r => uv'[q] = uv[q]
  BY <1>1, IdleFacts
<1>3. TypeOK'
  BY <1>1, <1>2 DEF IInv, TypeOK
<1>4. (CutsAreContiguous /\ AnswersHold /\ Fresh)'
  BY <1>1, <1>2 DEF IInv, CutsAreContiguous, AnswersHold, Fresh, Made
<1>5. SuccessMeansDirectory'
  BY <1>1 DEF IInv, SuccessMeansDirectory, Made
<1> QED
  BY <1>3, <1>4, <1>5 DEF IInv

(* A callback that tries the first n components next.                      *)
LEMMA TryNextKeeps ==
  ASSUME IInv, NEW r \in Req, NEW n \in Nat, n <= Len(target[r]),
         TryNext(r, n .. Len(target[r]) - 1), mode[r] # "none",
         UNCHANGED <<tree, deny, mode, target, others, gone, meddled>>
  PROVE  IInv'
<1> DEFINE cut == n .. Len(target[r]) - 1
           new == Submit("on_mkdir_recursive", NextPath(r, cut))
<1>1. /\ NextPath(r, cut) = SubSeq(target[r], 1, n)
      /\ NextPath(r, cut) \in Path /\ Len(NextPath(r, cut)) = n
  BY NextPathFacts DEF IInv
<1>2. /\ new \in Request /\ new.cb = "on_mkdir_recursive" /\ ~new.done
      /\ new.path = SubSeq(target[r], 1, n) /\ Len(new.path) = n
  BY <1>1, SubmitFacts DEF Callbacks
<1>3. /\ cuts' = [cuts EXCEPT ![r] = cut] /\ uv' = [uv EXCEPT ![r] = new] /\ UNCHANGED status
      /\ uv \in [Req -> Request] /\ cuts \in [Req -> SUBSET Nat]
  BY DEF TryNext, IInv, TypeOK
<1>4. Len(target[r]) \in Nat
  BY ParentFacts DEF IInv, TypeOK
<1>5. cut \in SUBSET Nat /\ \A m \in cut : m < Len(target[r])
  <2> DEFINE l == Len(target[r])
  <2>1. l \in Nat
    BY <1>4
  <2> HIDE DEF l
  <2> QED
    BY <2>1 DEF l
<1> HIDE DEF cut, new
<1>6. /\ uv' \in [Req -> Request] /\ uv'[r] = new /\ cuts'[r] = cut
      /\ cuts' \in [Req -> SUBSET Nat]
      /\ \A q \in Req : q # r => uv'[q] = uv[q] /\ cuts'[q] = cuts[q]
  BY <1>2, <1>3, <1>5
<1>7. TypeOK'
  BY <1>3, <1>5, <1>6 DEF IInv, TypeOK
<1>8. CutsAreContiguous'
  BY <1>2, <1>6 DEF IInv, CutsAreContiguous, cut
<1>9. (AnswersHold /\ Fresh /\ SuccessMeansDirectory)'
  BY <1>2, <1>3, <1>6 DEF IInv, AnswersHold, Fresh, SuccessMeansDirectory, Made
<1> QED
  BY <1>7, <1>8, <1>9 DEF IInv

LEMMA OnMkdirRecursiveKeeps ==
  ASSUME IInv, NEW r \in Req, OnMkdirRecursive(r)
  PROVE  IInv'
<1> DEFINE p == uv[r].path
           n == Len(p)
           l == Len(target[r])
<1>1. /\ p \in Path /\ uv[r].err \in Err /\ uv \in [Req -> Request]
      /\ uv[r].cb = "on_mkdir_recursive" /\ uv[r].done
      /\ target[r] \in Entry /\ target[r] \in Path /\ l \in Nat /\ n \in Nat
      /\ mode[r] # "none"
      /\ UNCHANGED <<tree, deny, mode, target, others, gone, meddled>>
  BY ParentFacts, WholePrefix DEF IInv, TypeOK, Fresh, Request, OnMkdirRecursive, Entry
<1>2. p = SubSeq(target[r], 1, n) /\ cuts[r] = n .. l - 1
  BY <1>1 DEF IInv, CutsAreContiguous
<1>3. n <= l
  BY <1>1 DEF IInv, CutsAreContiguous
<1>4. CASE uv[r].err \in Final /\ OnFinished(r, uv[r].err)
  BY <1>1, <1>4, OnFinishedKeeps DEF Final, OK
<1>5. CASE uv[r].err = OK /\ cuts[r] = {} /\ OnFinished(r, OK)
  <2>0. n = l
    <3> HIDE DEF n, l
    <3>1. n < l => n \in n .. l - 1
      BY <1>1
    <3>2. n .. l - 1 = {}
      BY <1>2, <1>5
    <3>3. n \in Nat /\ l \in Nat /\ n <= l
      BY <1>1, <1>3
    <3> QED
      BY <3>1, <3>2, <3>3
  <2>1. p = target[r]
    BY <1>1, <1>2, <2>0, WholePrefix
  <2>2. Made(target[r])
    BY <1>1, <1>5, <2>1 DEF IInv, AnswersHold
  <2> QED
    BY <1>1, <1>5, <2>2, OnFinishedKeeps
<1>6. CASE uv[r].err = OK /\ cuts[r] # {} /\ TryNext(r, Restored(r))
  <2>1. n < l
    BY <1>1, <1>2, <1>3, <1>6
  <2>2. Len(NextPath(r, cuts[r])) = n
    BY <1>1, <1>2, <1>3, NextPathFacts DEF IInv
  <2>3. Restored(r) = (n + 1) .. l - 1
    <3> HIDE DEF n, l
    <3> QED
      BY <1>1, <1>2, <2>1, <2>2 DEF Restored
  <2>4. n + 1 \in Nat /\ n + 1 <= l
    BY <1>1, <2>1
  <2> QED
    BY <1>1, <1>6, <2>3, <2>4, TryNextKeeps
<1>7. CASE uv[r].err = "ENOENT" /\ OnFinished(r, uv[r].err)
  BY <1>1, <1>7, OnFinishedKeeps DEF OK
<1>8. CASE uv[r].err = "ENOENT" /\ ~IsRoot(p)
           /\ TryNext(r, cuts[r] \cup {CutOff(p)})
  <2>1. n > 0
    BY <1>1, <1>8, ParentFacts DEF IsRoot, Entry
  <2>2. cuts[r] \cup {CutOff(p)} = (n - 1) .. l - 1
    <3>1. CutOff(p) = n - 1
      BY DEF CutOff
    <3> HIDE DEF n, l
    <3> QED
      BY <1>1, <1>2, <1>3, <2>1, <3>1
  <2>3. n - 1 \in Nat /\ n - 1 <= l
    BY <1>1, <1>3, <2>1
  <2> QED
    BY <1>1, <1>8, <2>2, <2>3, TryNextKeeps
<1>9. CASE /\ uv' = [uv EXCEPT ![r] = Submit("on_stat", target[r])]
           /\ UNCHANGED <<cuts, status>>
  <2> DEFINE new == Submit("on_stat", target[r])
  <2>1. new \in Request /\ new.cb = "on_stat" /\ new.path = target[r] /\ ~new.done
    BY <1>1, SubmitFacts DEF Callbacks
  <2> HIDE DEF new
  <2>2. /\ uv' \in [Req -> Request] /\ uv'[r] = new
        /\ \A q \in Req : q # r => uv'[q] = uv[q]
    BY <1>1, <1>9, <2>1 DEF new
  <2>3. TypeOK'
    BY <1>1, <1>9, <2>2 DEF IInv, TypeOK
  <2>4. (CutsAreContiguous /\ AnswersHold /\ Fresh /\ SuccessMeansDirectory)'
    BY <1>1, <1>9, <2>1, <2>2
       DEF IInv, CutsAreContiguous, AnswersHold, Fresh, SuccessMeansDirectory, Made
  <2> QED
    BY <2>3, <2>4 DEF IInv
<1> QED
  BY <1>4, <1>5, <1>6, <1>7, <1>8, <1>9 DEF OnMkdirRecursive

LEMMA OnStatKeeps ==
  ASSUME IInv, NEW r \in Req, OnStat(r)
  PROVE  IInv'
<1>1. /\ uv[r] \in Request /\ uv[r].cb = "on_stat" /\ uv[r].done
      /\ OnFinished(r, StatErr(r))
      /\ UNCHANGED <<tree, deny, mode, target, others, gone, meddled>>
  BY DEF IInv, TypeOK, OnStat
<1>2. StatErr(r) \in Err /\ (StatErr(r) = OK => uv[r].isdir)
  BY <1>1 DEF StatErr, Request, Err, OK
<1>3. StatErr(r) = OK => Made(target[r])
  BY <1>1, <1>2 DEF IInv, AnswersHold
<1> QED
  BY <1>1, <1>2, <1>3, OnFinishedKeeps

LEMMA OnMkdirKeeps ==
  ASSUME IInv, NEW r \in Req, OnMkdir(r)
  PROVE  IInv'
<1>1. /\ uv[r].err \in Err /\ uv[r].cb = "on_mkdir" /\ uv[r].done
      /\ OnFinished(r, uv[r].err)
      /\ UNCHANGED <<tree, deny, mode, target, others, gone, meddled>>
  BY DEF IInv, TypeOK, Request, OnMkdir
<1>2. uv[r].err = OK => Made(target[r])
  BY <1>1 DEF IInv, AnswersHold
<1> QED
  BY <1>1, <1>2, OnFinishedKeeps

(* A change to the tree that no call makes.                                *)
LEMMA OthersKeep ==
  ASSUME IInv, NEW p \in Path,
         (\E k \in {Dir} \cup File : OtherCreates(p, k)) \/ OtherRemoves(p)
  PROVE  IInv'
<1>1. /\ tree' \in Tree /\ others' \in Nat /\ gone' \subseteq Path
      /\ meddled' \subseteq Req /\ gone \subseteq gone'
      /\ UNCHANGED <<deny, mode, target, cuts, uv, status>>
      /\ \A q \in Path : tree[q] = Dir => tree'[q] = Dir \/ q \in gone'
  <2>1. CASE OtherRemoves(p)
    BY <2>1 DEF OtherRemoves, Under, Without, IInv, TypeOK, Tree, Kind
  <2>2. CASE \E k \in {Dir} \cup File : OtherCreates(p, k)
    <3>1. PICK k \in {Dir} \cup File : OtherCreates(p, k)
      BY <2>2
    <3> QED
      BY <3>1 DEF OtherCreates, Under, IInv, TypeOK, Tree, Kind, Missing, Dir
  <2> QED
    BY <2>1, <2>2
<1>2. TypeOK'
  BY <1>1 DEF IInv, TypeOK
<1>3. (CutsAreContiguous /\ Fresh)'
  BY <1>1 DEF IInv, CutsAreContiguous, Fresh
<1>4. \A q \in Path : Made(q) => Made(q)'
  BY <1>1 DEF Made
<1>5. \A r \in Req : uv[r].path \in Path /\ target[r] \in Path
  BY DEF IInv, TypeOK, Request, Entry
<1>6. AnswersHold'
  <2>1. SUFFICES ASSUME NEW r \in Req
                 PROVE  /\ uv[r].cb \in {"on_mkdir", "on_stat"} => uv[r].path = target[r]
                        /\ /\ uv[r].cb \in {"on_mkdir", "on_mkdir_recursive"}
                           /\ uv[r].done /\ uv[r].err = OK
                           => Made(uv[r].path)'
                        /\ uv[r].cb = "on_stat" /\ uv[r].done /\ uv[r].isdir =>
                             Made(target[r])'
    BY <1>1 DEF AnswersHold
  <2>2. (Made(uv[r].path) => Made(uv[r].path)') /\ (Made(target[r]) => Made(target[r])')
    BY <1>1, <1>5 DEF Made
  <2> QED
    BY <2>2 DEF IInv, AnswersHold
<1>7. SuccessMeansDirectory'
  BY <1>1, <1>5 DEF IInv, SuccessMeansDirectory
<1> QED
  BY <1>2, <1>3, <1>6, <1>7 DEF IInv

-----------------------------------------------------------------------------
(* The theorems.                                                           *)

(* IInv holds in every state of every behaviour.                           *)
THEOREM Invariance == Spec => []IInv
<1>1. Init => IInv
  BY InitEstablishes
<1>2. IInv /\ [Next]_vars => IInv'
  <2>1. SUFFICES ASSUME IInv, [Next]_vars PROVE IInv'
    OBVIOUS
  <2>2. CASE \E r \in Req, recursive \in BOOLEAN : Call(r, recursive)
    BY <2>1, <2>2, CallKeeps
  <2>3. CASE \E r \in Req : WorkMkdir(r)
    BY <2>1, <2>3, WorkMkdirKeeps
  <2>4. CASE \E r \in Req : WorkStat(r)
    BY <2>1, <2>4, WorkStatKeeps
  <2>5. CASE \E r \in Req : OnMkdirRecursive(r)
    BY <2>1, <2>5, OnMkdirRecursiveKeeps
  <2>6. CASE \E r \in Req : OnStat(r)
    BY <2>1, <2>6, OnStatKeeps
  <2>7. CASE \E r \in Req : OnMkdir(r)
    BY <2>1, <2>7, OnMkdirKeeps
  <2>8. CASE \E p \in Path :
               (\E k \in {Dir} \cup File : OtherCreates(p, k)) \/ OtherRemoves(p)
    BY <2>1, <2>8, OthersKeep
  <2>9. CASE UNCHANGED vars
    BY <2>1, <2>9 DEF vars, IInv, TypeOK, CutsAreContiguous, AnswersHold, Fresh,
                      SuccessMeansDirectory, Made
  <2> QED
    BY <2>1, <2>2, <2>3, <2>4, <2>5, <2>6, <2>7, <2>8, <2>9 DEF Next
<1> QED
  BY <1>1, <1>2, PTL DEF Spec

(* Every variable keeps its type; no NUL is written outside the string     *)
(* (src/mkdir.c:66, 87).                                                   *)
THEOREM TypeCorrect == Spec => []TypeOK
<1>1. IInv => TypeOK
  BY DEF IInv
<1> QED
  BY <1>1, Invariance, PTL

(* The walk never loses its place (src/mkdir.c:60-70, 83-91).              *)
THEOREM WalkKeepsItsPlace == Spec => []CutsAreContiguous
<1>1. IInv => CutsAreContiguous
  BY DEF IInv
<1> QED
  BY <1>1, Invariance, PTL

(* A reported success is true (src/mkdir.c:26, 35, 121).                   *)
THEOREM SuccessIsTrue == Spec => []SuccessMeansDirectory
<1>1. IInv => SuccessMeansDirectory
  BY DEF IInv
<1> QED
  BY <1>1, Invariance, PTL

-----------------------------------------------------------------------------
(* Why a recursive call fails.                                             *)
(*                                                                         *)
(* The walk up leaves every directory behind that it found missing, and    *)
(* the walk down counts on finding them so.  What can go wrong is only     *)
(* that somebody else puts something there (WalkIsCurrent) - and what an   *)
(* answer says of the tree must keep its cause until the callback runs     *)
(* (AnswersHaveCause).                                                     *)

(* Permission to add a directory on the path of the call is denied.        *)
Denied(r, err) == \E p \in Path : IsPrefix(p, target[r]) /\ deny[p] = err

(* On the path there is a file, or there was one.                          *)
Blocked(r) == \E p \in Path : IsPrefix(p, target[r]) /\ p \in Files(tree) \cup gone

(* Nothing is there of the path from its n-th component on.                *)
Untouched(r, n) ==
  \A p \in Path : IsPrefix(p, target[r]) /\ n <= Len(p) /\ p # target[r] =>
    tree[p] = Missing

WalkIsCurrent(r) ==
  uv[r].cb = "on_mkdir_recursive" /\ r \notin meddled =>
    LET n == Len(uv[r].path) IN
      /\ ~uv[r].done => Untouched(r, n)
      /\ uv[r].done /\ uv[r].err = OK => Untouched(r, n + 1)
      /\ uv[r].done /\ uv[r].err = "ENOENT" => Untouched(r, n - 1)
      /\ uv[r].done /\ uv[r].err = "EEXIST" => tree[target[r]] # Missing

Refusal == {"EACCES", "EPERM", "ENOSPC", "EROFS"}

AnswersHaveCause(r) ==
  /\ uv[r].cb # "none" \/ mode[r] = "none" => status[r] = "none"
  /\ uv[r].cb = "on_mkdir" => mode[r] = "plain"
  /\ uv[r].cb = "on_mkdir_recursive" /\ uv[r].done =>
       /\ uv[r].err = "ENOTDIR" => Blocked(r)
       /\ uv[r].err \in Refusal => Denied(r, uv[r].err)
  /\ uv[r].cb = "on_stat" =>
       /\ r \in meddled \/ tree[target[r]] # Missing \/ Denied(r, "EROFS")
       /\ uv[r].done =>
            /\ uv[r].err \in {OK, "ENOENT", "ENOTDIR"}
            /\ uv[r].err = "ENOTDIR" \/ (uv[r].err = OK /\ ~uv[r].isdir) => Blocked(r)
            /\ uv[r].err = "ENOENT" => r \in meddled \/ Denied(r, "EROFS")

(* What a recursive call may report.                                       *)
Justified(r, st) ==
  /\ st \notin {"EEXIST", "EROFS"}
  /\ st = "ENOENT" => r \in meddled \/ tree[Top] = Missing \/ Denied(r, "EROFS")
  /\ st = "ENOTDIR" => r \in meddled \/ Blocked(r)
  /\ st \in Final \ {"ENOTDIR"} => Denied(r, st)

Explained(r) ==
  /\ WalkIsCurrent(r)
  /\ AnswersHaveCause(r)
  /\ mode[r] = "recursive" => Justified(r, status[r])

CInv == \A r \in Req : Explained(r)

LEMMA LongPrefix ==
  ASSUME NEW p \in Path, NEW t \in Path, IsPrefix(p, t), Len(t) <= Len(p)
  PROVE  p = t
<1>1. Len(p) \in Nat /\ Len(t) \in Nat /\ Len(p) <= Len(t) /\ SubSeq(t, 1, Len(p)) = p
      /\ SubSeq(t, 1, Len(t)) = t
  BY WholePrefix, PrefixIsCut
<1>2. Len(p) = Len(t)
  <2> DEFINE m == Len(p)
             n == Len(t)
  <2>1. m \in Nat /\ n \in Nat /\ m <= n /\ n <= m
    BY <1>1
  <2> HIDE DEF m, n
  <2>2. m = n
    BY <2>1
  <2> QED
    BY <2>2 DEF m, n
<1> QED
  BY <1>1, <1>2

(* Of two prefixes, the one a component shorter is the other's parent.     *)
LEMMA NextShorter ==
  ASSUME NEW t \in Path, NEW p \in Path, NEW q \in Path, IsPrefix(p, t), IsPrefix(q, t),
         Len(q) = Len(p) - 1
  PROVE  p \in Entry /\ q = Parent(p)
<1>1. /\ Len(p) \in Nat /\ Len(q) \in Nat /\ Len(t) \in Nat
      /\ Len(p) <= Len(t) /\ SubSeq(t, 1, Len(p)) = p /\ SubSeq(t, 1, Len(q)) = q
  BY WholePrefix, PrefixIsCut
<1>2. Len(p) \in 0 .. Len(t) /\ Len(q) \in 0 .. Len(p) /\ Len(p) # 0
  <2> DEFINE l == Len(t)
             m == Len(p)
             n == Len(q)
  <2>1. l \in Nat /\ m \in Nat /\ n \in Nat /\ m <= l /\ n = m - 1
    BY <1>1
  <2> HIDE DEF l, m, n
  <2>2. m \in 0 .. l /\ n \in 0 .. m /\ m # 0
    BY <2>1
  <2> QED
    BY <2>2 DEF l, m, n
<1>3. p # Top
  BY <1>2, EmptySeq DEF Top
<1>4. Parent(p) = SubSeq(SubSeq(t, 1, Len(p)), 1, Len(q))
  BY <1>1 DEF Parent
<1> QED
  BY <1>1, <1>2, <1>3, <1>4, CutOfCut DEF Entry

(* What a step of somebody else may do to the tree, as r sees it.          *)
Spares(r) ==
  /\ gone \subseteq gone' /\ meddled \subseteq meddled'
  /\ \A p \in Path :
       \/ tree'[p] = tree[p]
       \/ /\ p # Top
          /\ Running(r) /\ IsPrefix(p, target[r]) => r \in meddled'
          /\ tree[p] \in File => p \in gone'

LEMMA BlockedStays ==
  ASSUME NEW r \in Req, Spares(r), target' = target, Blocked(r)
  PROVE  Blocked(r)'
<1>1. PICK p \in Path : IsPrefix(p, target[r]) /\ p \in Files(tree) \cup gone
  BY DEF Blocked
<1>2. p \in Files(tree') \cup gone'
  BY <1>1 DEF Spares, Files
<1> QED
  BY <1>1, <1>2 DEF Blocked

LEMMA JustifiedStays ==
  ASSUME NEW r \in Req, Spares(r), UNCHANGED <<target, deny>>, NEW st, Justified(r, st)
  PROVE  Justified(r, st)'
<1>1. Blocked(r) => Blocked(r)'
  BY BlockedStays
<1>2. \A err : Denied(r, err)' <=> Denied(r, err)
  BY DEF Denied
<1>3. (r \in meddled => r \in meddled') /\ (tree[Top] = Missing => tree'[Top] = Missing)
  BY PathAssumption DEF Spares
<1> QED
  BY <1>1, <1>2, <1>3 DEF Justified

(* A call that does not take the step itself.                              *)
LEMMA ExplainedStays ==
  ASSUME IInv, NEW r \in Req, Explained(r), Spares(r),
         UNCHANGED <<target, deny>>,
         uv'[r] = uv[r], mode'[r] = mode[r], status'[r] = status[r]
  PROVE  Explained(r)'
<1>1. target[r] \in Path /\ Len(uv[r].path) \in Nat
  BY WholePrefix DEF IInv, TypeOK, Entry, Request
<1>2. uv[r].cb # "none" => Running(r)
  BY DEF IInv, Fresh, Explained, AnswersHaveCause, Running
<1>3. uv[r].cb # "none" /\ r \notin meddled' =>
        /\ r \notin meddled
        /\ \A p \in Path : IsPrefix(p, target[r]) => tree'[p] = tree[p]
  BY <1>2 DEF Spares
<1>4. WalkIsCurrent(r)'
  <2>1. SUFFICES ASSUME uv[r].cb = "on_mkdir_recursive", r \notin meddled'
                 PROVE  LET n == Len(uv[r].path) IN
                          /\ ~uv[r].done => Untouched(r, n)'
                          /\ uv[r].done /\ uv[r].err = OK => Untouched(r, n + 1)'
                          /\ uv[r].done /\ uv[r].err = "ENOENT" => Untouched(r, n - 1)'
                          /\ uv[r].done /\ uv[r].err = "EEXIST" => tree'[target[r]] # Missing
    BY DEF WalkIsCurrent, Untouched
  <2>2. r \notin meddled /\ \A p \in Path : IsPrefix(p, target[r]) => tree'[p] = tree[p]
    BY <1>3, <2>1
  <2>3. \A n \in Int : Untouched(r, n) => Untouched(r, n)'
    BY <2>2 DEF Untouched
  <2>4. tree'[target[r]] = tree[target[r]]
    BY <1>1, <2>2, TrivialPrefixes
  <2> QED
    BY <1>1, <2>1, <2>2, <2>3, <2>4 DEF Explained, WalkIsCurrent
<1>5. AnswersHaveCause(r)'
  <2>1. Blocked(r) => Blocked(r)'
    BY BlockedStays
  <2>2. \A err : Denied(r, err)' <=> Denied(r, err)
    BY DEF Denied
  <2>3. r \in meddled => r \in meddled'
    BY DEF Spares
  <2>4. uv[r].cb = "on_stat" =>
          r \in meddled' \/ tree'[target[r]] # Missing \/ Denied(r, "EROFS")'
    BY <1>1, <1>3, <2>2, TrivialPrefixes DEF Explained, AnswersHaveCause
  <2> QED
    BY <2>1, <2>2, <2>3, <2>4 DEF Explained, AnswersHaveCause
<1>6. mode'[r] = "recursive" => Justified(r, status[r])'
  <2>1. PICK st : st = status[r] /\ st = status'[r]
    OBVIOUS
  <2>2. mode[r] = "recursive" => Justified(r, st)'
    BY <2>1, JustifiedStays DEF Explained
  <2> QED
    BY <2>1, <2>2 DEF Justified
<1> QED
  BY <1>4, <1>5, <1>6 DEF Explained, Justified

LEMMA CallExplained ==
  ASSUME IInv, CInv, NEW r \in Req, NEW recursive \in BOOLEAN, Call(r, recursive)
  PROVE  CInv'
<1> DEFINE cb  == IF recursive THEN "on_mkdir_recursive" ELSE "on_mkdir"
           new == Submit(cb, target[r])
<1>1. /\ target[r] \in Path /\ uv \in [Req -> Request] /\ mode \in [Req -> {"none", "plain", "recursive"}]
      /\ mode[r] = "none" /\ status[r] = "none"
      /\ UNCHANGED <<tree, deny, target, cuts, status, others, gone, meddled>>
  BY DEF Call, IInv, TypeOK, Entry, CInv, Explained, AnswersHaveCause
<1>2. new.cb = cb /\ new.path = target[r] /\ ~new.done
  BY <1>1, SubmitFacts DEF Callbacks
<1>3. /\ uv'[r] = new /\ mode'[r] = IF recursive THEN "recursive" ELSE "plain"
      /\ \A q \in Req : q # r => uv'[q] = uv[q] /\ mode'[q] = mode[q]
  BY <1>1 DEF Call
<1> HIDE DEF new
<1>4. Untouched(r, Len(target[r]))
  BY <1>1, LongPrefix DEF Untouched
<1>5. Explained(r)'
  <2>1. WalkIsCurrent(r)'
    BY <1>1, <1>2, <1>3, <1>4 DEF WalkIsCurrent, Untouched
  <2>2. AnswersHaveCause(r)'
    BY <1>1, <1>2, <1>3 DEF AnswersHaveCause
  <2>3. Justified(r, status[r])'
    BY <1>1 DEF Justified, Final
  <2> QED
    BY <2>1, <2>2, <2>3 DEF Explained
<1>6. ASSUME NEW q \in Req, q # r PROVE Explained(q)'
  BY <1>1, <1>3, <1>6, ExplainedStays DEF CInv, Spares
<1> QED
  BY <1>5, <1>6 DEF CInv

(* What mkdir found.                                                       *)
LEMMA MkdirTells ==
  ASSUME IInv, NEW p \in Path, NEW err, err = MkdirErr(tree, p, deny[p])
  PROVE  /\ err \in {OK, "EEXIST", "ENOENT", "ENOTDIR"} \cup Refusal
         /\ err = OK => p # Top /\ tree[p] = Missing
         /\ err = "EEXIST" <=> tree[p] # Missing
         /\ err = "ENOENT" /\ p # Top => tree[Parent(p)] = Missing
         /\ err = "ENOTDIR" => \E q \in Path : IsPrefix(q, p) /\ q \in Files(tree)
         /\ err \in Refusal => deny[p] = err
<1>1. deny[p] \in {OK} \cup Refusal /\ tree \in Tree
  BY DEF IInv, TypeOK, Denial, Refusal
<1>2. p # Top => Parent(p) \in Path /\ IsPrefix(Parent(p), p) /\ tree[Parent(p)] \in Kind
  BY <1>1, ParentFacts, ParentIsPrefix DEF Entry, Tree
<1>3. LookupErr(tree, p) \in {OK, "ENOENT", "ENOTDIR"} /\ (LookupErr(tree, p) = OK <=> tree[p] # Missing)
      /\ (LookupErr(tree, p) = "ENOTDIR" => \E q \in Path : IsPrefix(q, p) /\ q \in Files(tree))
      /\ (LookupErr(tree, p) = "ENOENT" => \A q \in Files(tree) : ~IsPrefix(q, p))
  BY DEF LookupErr, OK, Files
<1>4. CASE tree[p] # Missing
  BY <1>4 DEF MkdirErr, OK, Refusal
<1>5. CASE tree[p] = Missing /\ p # Top /\ tree[Parent(p)] = Dir
  BY <1>1, <1>5 DEF MkdirErr, OK, Refusal
<1>6. CASE tree[p] = Missing /\ ~(p # Top /\ tree[Parent(p)] = Dir)
  <2>1. err = LookupErr(tree, p)
    BY <1>6 DEF MkdirErr
  <2>2. err = "ENOENT" /\ p # Top => tree[Parent(p)] \notin File
    BY <1>2, <1>3, <2>1 DEF Files
  <2>3. p # Top => tree[Parent(p)] \in {Missing} \cup File
    BY <1>2, <1>6 DEF Kind
  <2> QED
    BY <1>3, <1>6, <2>1, <2>2, <2>3 DEF Refusal, OK
<1> QED
  BY <1>4, <1>5, <1>6

LEMMA WorkMkdirExplained ==
  ASSUME IInv, CInv, NEW r \in Req, WorkMkdir(r)
  PROVE  CInv'
<1> DEFINE p == uv[r].path
           t == target[r]
<1>0. PICK n : n = Len(p)
  OBVIOUS
<1>1. PICK err : err = MkdirErr(tree, p, deny[p])
  OBVIOUS
<1>2. /\ p \in Path /\ uv \in [Req -> Request] /\ tree \in Tree /\ t \in Path
      /\ n \in Nat /\ err \in Err
  BY <1>0, <1>1, ErrTypes, WholePrefix DEF IInv, TypeOK, Request, Entry
<1>3. /\ uv' = [uv EXCEPT ![r].done = TRUE, ![r].err = err]
      /\ tree' = IF err = OK THEN [tree EXCEPT ![p] = Dir] ELSE tree
      /\ meddled' = IF err = OK THEN meddled \cup Under(p, {r}) ELSE meddled
      /\ uv[r].cb \in {"on_mkdir", "on_mkdir_recursive"} /\ ~uv[r].done
      /\ UNCHANGED <<deny, mode, target, cuts, status, others, gone>>
  BY <1>1 DEF WorkMkdir
<1>4. /\ uv'[r].done /\ uv'[r].err = err /\ uv'[r].cb = uv[r].cb /\ uv'[r].path = p
      /\ \A q \in Req : q # r => uv'[q] = uv[q]
  BY <1>0, <1>2, <1>3 DEF Request
<1>5. /\ err \in {OK, "EEXIST", "ENOENT", "ENOTDIR"} \cup Refusal
      /\ err = OK => p # Top /\ tree[p] = Missing
      /\ err = "EEXIST" <=> tree[p] # Missing
      /\ err = "ENOENT" /\ p # Top => tree[Parent(p)] = Missing
      /\ err = "ENOTDIR" => \E q \in Path : IsPrefix(q, p) /\ q \in Files(tree)
      /\ err \in Refusal => deny[p] = err
  BY <1>1, <1>2, MkdirTells
<1>6. \A q \in Path : tree'[q] = tree[q] \/ (q = p /\ err = OK)
  BY <1>0, <1>2, <1>3 DEF Tree
<1>7. ASSUME NEW q \in Req, q # r PROVE Explained(q)'
  <2>1. err = OK /\ Running(q) /\ IsPrefix(p, target[q]) => q \in meddled'
    BY <1>3, <1>7 DEF Under
  <2>2. Spares(q)
    BY <1>3, <1>5, <1>6, <2>1, KindFacts DEF Spares, Under
  <2> QED
    BY <1>3, <1>4, <1>7, <2>2, ExplainedStays DEF CInv
<1>8. uv[r].cb = "on_mkdir_recursive" =>
        IsPrefix(p, t) /\ (Untouched(r, n) \/ r \in meddled) /\ (n = Len(t) => p = t)
  <2> SUFFICES ASSUME uv[r].cb = "on_mkdir_recursive"
               PROVE  IsPrefix(p, t) /\ (Untouched(r, n) \/ r \in meddled) /\ (n = Len(t) => p = t)
    OBVIOUS
  <2>1. n <= Len(t) /\ p = SubSeq(t, 1, n)
    BY <1>0 DEF IInv, CutsAreContiguous
  <2>2. IsPrefix(p, t)
    BY <1>0, <1>2, <2>1, PrefixIsCut
  <2>3. n = Len(t) => p = t
    BY <1>0, <1>2, <2>1, WholePrefix
  <2>4. Untouched(r, n) \/ r \in meddled
    BY <1>0, <1>3 DEF CInv, Explained, WalkIsCurrent
  <2> QED
    BY <2>2, <2>3, <2>4
<1>9. WalkIsCurrent(r)'
  <2> HIDE DEF p, t
  <2>1. SUFFICES ASSUME uv[r].cb = "on_mkdir_recursive", r \notin meddled'
                 PROVE  /\ err = OK => Untouched(r, n + 1)'
                        /\ err = "ENOENT" => Untouched(r, n - 1)'
                        /\ err = "EEXIST" => tree'[t] # Missing
    BY <1>0, <1>3, <1>4 DEF WalkIsCurrent, Untouched, p, t
  <2>2. Untouched(r, n) /\ IsPrefix(p, t)
    BY <1>3, <1>8, <2>1
  <2>3. ASSUME err = OK PROVE Untouched(r, n + 1)'
    <3>1. SUFFICES ASSUME NEW q \in Path, IsPrefix(q, t), n + 1 <= Len(q), q # t
                   PROVE  tree'[q] = Missing
      BY <1>3 DEF Untouched, t
    <3>2. Len(q) \in Nat /\ n \in Nat
      BY <1>0, <1>2, WholePrefix
    <3>3. n <= Len(q) /\ n # Len(q)
      <4> DEFINE m == Len(q)
      <4> HIDE DEF m
      <4>1. m \in Nat /\ n + 1 <= m
        BY <3>1, <3>2 DEF m
      <4>2. n <= m /\ n # m
        BY <3>2, <4>1
      <4> QED
        BY <4>2 DEF m
    <3>4. q # p /\ tree[q] = Missing
      BY <1>0, <2>2, <3>1, <3>3 DEF Untouched, t
    <3> QED
      BY <1>6, <3>4
  <2>4. ASSUME err = "ENOENT" PROVE Untouched(r, n - 1)'
    <3>1. SUFFICES ASSUME NEW q \in Path, IsPrefix(q, t), n - 1 <= Len(q), q # t
                   PROVE  tree[q] = Missing
      BY <1>3, <1>6, <2>4 DEF Untouched, t, OK
    <3>2. CASE n <= Len(q)
      BY <2>2, <3>1, <3>2 DEF Untouched, t
    <3>3. CASE ~(n <= Len(q))
      <4>1. Len(q) = n - 1
        <5> DEFINE m == Len(q)
        <5>1. m \in Nat /\ n \in Nat /\ n - 1 <= m /\ ~(n <= m)
          BY <1>0, <1>2, <3>1, <3>3, WholePrefix
        <5> HIDE DEF m
        <5>2. m = n - 1
          BY <5>1
        <5> QED
          BY <5>2 DEF m
      <4>2. p \in Entry /\ q = Parent(p)
        BY <1>0, <1>2, <2>2, <3>1, <4>1, NextShorter DEF p, t
      <4> QED
        BY <1>5, <2>4, <4>2 DEF Entry
    <3> QED
      BY <3>2, <3>3
  <2>5. ASSUME err = "EEXIST" PROVE tree'[t] # Missing
    <3>1. tree[p] # Missing
      BY <1>5, <2>5
    <3>2. p = t
      BY <1>0, <1>2, <2>2, <3>1 DEF Untouched, t
    <3> QED
      BY <1>3, <2>5, <3>1, <3>2 DEF OK
  <2> QED
    BY <2>3, <2>4, <2>5
<1>10. AnswersHaveCause(r)'
  <2>1. mode[r] # "none" /\ status[r] = "none" /\ (uv[r].cb = "on_mkdir" => mode[r] = "plain")
    BY <1>3 DEF CInv, Explained, AnswersHaveCause, IInv, Fresh
  <2>2. uv[r].cb = "on_mkdir_recursive" =>
          /\ err = "ENOTDIR" => Blocked(r)'
          /\ err \in Refusal => Denied(r, err)'
    <3> SUFFICES ASSUME uv[r].cb = "on_mkdir_recursive"
                 PROVE  /\ err = "ENOTDIR" => Blocked(r)'
                        /\ err \in Refusal => Denied(r, err)'
      OBVIOUS
    <3>1. IsPrefix(p, t)
      BY <1>8
    <3>2. ASSUME err = "ENOTDIR" PROVE Blocked(r)'
      <4>1. PICK q \in Path : IsPrefix(q, p) /\ q \in Files(tree)
        BY <1>5, <3>2
      <4>2. IsPrefix(q, t)
        BY <1>0, <1>2, <3>1, <4>1, PrefixTransitive
      <4> QED
        BY <1>3, <3>2, <4>1, <4>2 DEF Blocked, OK
    <3>3. err \in Refusal => Denied(r, err)'
      BY <1>0, <1>2, <1>3, <1>5, <3>1 DEF Denied
    <3> QED
      BY <3>2, <3>3
  <2> QED
    BY <1>3, <1>4, <2>1, <2>2 DEF AnswersHaveCause
<1>11. mode[r] = "recursive" => Justified(r, status[r])'
  <2>1. status[r] = "none"
    BY <1>3 DEF CInv, Explained, AnswersHaveCause
  <2> QED
    BY <1>3, <2>1 DEF Justified, Final
<1> QED
  BY <1>3, <1>7, <1>9, <1>10, <1>11 DEF CInv, Explained

(* What stat found.                                                        *)
LEMMA WorkStatExplained ==
  ASSUME IInv, CInv, NEW r \in Req, WorkStat(r)
  PROVE  CInv'
<1> DEFINE t == target[r]
           isdir == tree[t] = Dir
<1>1. PICK err : err = LookupErr(tree, t)
  OBVIOUS
<1>2. /\ uv \in [Req -> Request] /\ uv[r].cb = "on_stat" /\ uv[r].path = t
      /\ t \in Path /\ tree[t] \in Kind /\ IsPrefix(t, t)
  BY TrivialPrefixes DEF IInv, TypeOK, Entry, Tree, AnswersHold, WorkStat
<1>3. /\ uv' = [uv EXCEPT ![r].done = TRUE, ![r].err = err, ![r].isdir = isdir]
      /\ UNCHANGED <<tree, deny, mode, target, cuts, status, others, gone, meddled>>
  BY <1>1, <1>2 DEF WorkStat
<1>4. /\ uv'[r].cb = "on_stat" /\ uv'[r].done /\ uv'[r].err = err /\ uv'[r].isdir = isdir
      /\ \A q \in Req : q # r => uv'[q] = uv[q]
  <2> HIDE DEF isdir
  <2> QED
    BY <1>2, <1>3 DEF Request
<1>5. /\ err \in {OK, "ENOENT", "ENOTDIR"}
      /\ err = OK <=> tree[t] # Missing
      /\ err = "ENOTDIR" => \E q \in Path : IsPrefix(q, t) /\ q \in Files(tree)
  BY <1>1 DEF LookupErr, OK, Files
<1>6. ASSUME NEW q \in Req, q # r PROVE Explained(q)'
  BY <1>3, <1>4, <1>6, ExplainedStays DEF CInv, Spares
<1>7. AnswersHaveCause(r)'
  <2>1. /\ mode[r] # "none" /\ status[r] = "none"
        /\ r \in meddled \/ tree[t] # Missing \/ Denied(r, "EROFS")
    BY <1>2 DEF CInv, Explained, AnswersHaveCause, IInv, Fresh
  <2>2. err = "ENOTDIR" \/ (err = OK /\ ~isdir) => Blocked(r)
    BY <1>2, <1>5, KindFacts DEF Blocked, Files, Kind, OK
  <2>3. err = "ENOENT" => r \in meddled \/ Denied(r, "EROFS")
    BY <1>5, <2>1 DEF OK
  <2>4. (Blocked(r) => Blocked(r)') /\ (Denied(r, "EROFS") => Denied(r, "EROFS")')
    BY <1>3 DEF Blocked, Denied
  <2> QED
    BY <1>3, <1>4, <1>5, <2>1, <2>2, <2>3, <2>4 DEF AnswersHaveCause
<1>8. WalkIsCurrent(r)'
  BY <1>4 DEF WalkIsCurrent
<1>9. mode[r] = "recursive" => Justified(r, status[r])'
  <2>1. status[r] = "none"
    BY <1>2 DEF CInv, Explained, AnswersHaveCause
  <2> QED
    BY <1>3, <2>1 DEF Justified, Final
<1> QED
  BY <1>3, <1>6, <1>7, <1>8, <1>9 DEF CInv, Explained

(* A callback that ends the call.                                          *)
LEMMA OnFinishedExplained ==
  ASSUME IInv, CInv, NEW r \in Req, mode[r] # "none", NEW err \in Err, OnFinished(r, err),
         mode[r] = "recursive" => Justified(r, err),
         UNCHANGED <<tree, deny, mode, target, others, gone, meddled>>
  PROVE  CInv'
<1>1. /\ uv'[r] = Idle /\ status'[r] = err /\ Idle.cb = "none"
      /\ \A q \in Req : q # r => uv'[q] = uv[q] /\ status'[q] = status[q]
  BY IdleFacts DEF IInv, TypeOK, OnFinished
<1>2. ASSUME NEW q \in Req, q # r PROVE Explained(q)'
  BY <1>1, <1>2, ExplainedStays DEF CInv, Spares
<1>3. (WalkIsCurrent(r) /\ AnswersHaveCause(r))'
  BY <1>1 DEF WalkIsCurrent, AnswersHaveCause
<1>4. mode[r] = "recursive" => Justified(r, status[r])'
  BY <1>1 DEF Justified, Denied, Blocked
<1> QED
  BY <1>2, <1>3, <1>4 DEF CInv, Explained

(* A callback that tries the first n components next.                      *)
LEMMA TryNextExplained ==
  ASSUME IInv, CInv, NEW r \in Req, NEW n \in Nat, n <= Len(target[r]),
         TryNext(r, n .. Len(target[r]) - 1), mode[r] # "none", status[r] = "none",
         r \in meddled \/ Untouched(r, n),
         UNCHANGED <<tree, deny, mode, target, others, gone, meddled>>
  PROVE  CInv'
<1> DEFINE cut == n .. Len(target[r]) - 1
           new == Submit("on_mkdir_recursive", NextPath(r, cut))
<1>1. NextPath(r, cut) \in Path /\ Len(NextPath(r, cut)) = n
  BY NextPathFacts DEF IInv
<1>2. new.cb = "on_mkdir_recursive" /\ ~new.done /\ Len(new.path) = n
  BY <1>1, SubmitFacts DEF Callbacks
<1>3. /\ uv' = [uv EXCEPT ![r] = new] /\ UNCHANGED status
      /\ uv \in [Req -> Request]
  BY DEF TryNext, IInv, TypeOK
<1> HIDE DEF cut, new
<1>4. uv'[r] = new /\ \A q \in Req : q # r => uv'[q] = uv[q]
  BY <1>3
<1>5. ASSUME NEW q \in Req, q # r PROVE Explained(q)'
  BY <1>3, <1>4, <1>5, ExplainedStays DEF CInv, Spares
<1>6. WalkIsCurrent(r)'
  <2>1. uv'[r].cb = "on_mkdir_recursive" /\ ~uv'[r].done /\ Len(uv'[r].path) = n
    BY <1>2, <1>4
  <2>2. r \notin meddled => Untouched(r, n)'
    BY DEF Untouched
  <2> QED
    BY <2>1, <2>2 DEF WalkIsCurrent, Untouched
<1>7. AnswersHaveCause(r)'
  BY <1>2, <1>3, <1>4 DEF AnswersHaveCause
<1>8. mode[r] = "recursive" => Justified(r, status[r])'
  BY <1>3 DEF Justified, Final
<1> QED
  BY <1>5, <1>6, <1>7, <1>8 DEF CInv, Explained

LEMMA OnMkdirRecursiveExplained ==
  ASSUME IInv, CInv, NEW r \in Req, OnMkdirRecursive(r)
  PROVE  CInv'
<1> DEFINE p == uv[r].path
           n == Len(p)
           l == Len(target[r])
<1>1. /\ p \in Path /\ uv[r].err \in Err /\ uv \in [Req -> Request]
      /\ uv[r].cb = "on_mkdir_recursive" /\ uv[r].done
      /\ target[r] \in Entry /\ target[r] \in Path /\ l \in Nat /\ n \in Nat
      /\ mode[r] # "none" /\ status[r] = "none"
      /\ UNCHANGED <<tree, deny, mode, target, others, gone, meddled>>
  BY ParentFacts, WholePrefix
     DEF IInv, TypeOK, Fresh, Request, OnMkdirRecursive, Entry, CInv, Explained,
         AnswersHaveCause
<1>2. p = SubSeq(target[r], 1, n) /\ cuts[r] = n .. l - 1 /\ n <= l
  BY <1>1 DEF IInv, CutsAreContiguous
<1>3. /\ uv[r].err = "ENOTDIR" => Blocked(r)
      /\ uv[r].err \in Refusal => Denied(r, uv[r].err)
      /\ r \notin meddled =>
           /\ uv[r].err = OK => Untouched(r, n + 1)
           /\ uv[r].err = "ENOENT" => Untouched(r, n - 1)
           /\ uv[r].err = "EEXIST" => tree[target[r]] # Missing
  BY <1>1 DEF CInv, Explained, AnswersHaveCause, WalkIsCurrent
<1>4. CASE uv[r].err \in Final /\ OnFinished(r, uv[r].err)
  <2>1. Justified(r, uv[r].err)
    BY <1>3, <1>4 DEF Justified, Final, Refusal
  <2> QED
    BY <1>1, <1>4, <2>1, OnFinishedExplained
<1>5. CASE uv[r].err = OK /\ cuts[r] = {} /\ OnFinished(r, OK)
  <2>1. Justified(r, OK) /\ OK \in Err
    BY DEF Justified, Final, OK, Err
  <2> QED
    BY <1>1, <1>5, <2>1, OnFinishedExplained
<1>6. CASE uv[r].err = OK /\ cuts[r] # {} /\ TryNext(r, Restored(r))
  <2>1. n < l
    BY <1>1, <1>2, <1>6
  <2>2. Len(NextPath(r, cuts[r])) = n
    BY <1>1, <1>2, NextPathFacts DEF IInv
  <2>3. Restored(r) = (n + 1) .. l - 1
    <3> HIDE DEF n, l
    <3> QED
      BY <1>1, <1>2, <2>1, <2>2 DEF Restored
  <2>4. n + 1 \in Nat /\ n + 1 <= l
    BY <1>1, <2>1
  <2> QED
    BY <1>1, <1>3, <1>6, <2>3, <2>4, TryNextExplained
<1>7. CASE uv[r].err = "ENOENT" /\ IsRoot(p) /\ OnFinished(r, uv[r].err)
  <2>1. n = 0
    BY <1>7, EmptySeq DEF IsRoot, Top
  <2>2. r \notin meddled => tree[Top] = Missing
    <3>1. Untouched(r, n - 1) /\ n - 1 <= n => tree[p] = Missing
      BY <1>1, <1>7, TrivialPrefixes DEF Untouched, IsRoot, Entry
    <3> QED
      BY <1>3, <1>7, <2>1, <3>1 DEF IsRoot
  <2>3. Justified(r, "ENOENT")
    BY <2>2 DEF Justified, Final
  <2> QED
    BY <1>1, <1>7, <2>3, OnFinishedExplained
<1>8. CASE uv[r].err = "ENOENT" /\ ~IsRoot(p)
           /\ TryNext(r, cuts[r] \cup {CutOff(p)})
  <2>1. n > 0
    BY <1>1, <1>8, ParentFacts DEF IsRoot, Entry
  <2>2. cuts[r] \cup {CutOff(p)} = (n - 1) .. l - 1
    <3>1. CutOff(p) = n - 1
      BY DEF CutOff
    <3> HIDE DEF n, l
    <3> QED
      BY <1>1, <1>2, <2>1, <3>1
  <2>3. n - 1 \in Nat /\ n - 1 <= l
    BY <1>1, <1>2, <2>1
  <2> QED
    BY <1>1, <1>3, <1>8, <2>2, <2>3, TryNextExplained
<1>9. CASE /\ uv[r].err \notin Final \cup {OK, "ENOENT"}
           /\ uv' = [uv EXCEPT ![r] = Submit("on_stat", target[r])]
           /\ UNCHANGED <<cuts, status>>
  <2> DEFINE new == Submit("on_stat", target[r])
  <2>1. new.cb = "on_stat" /\ ~new.done
    BY <1>1, SubmitFacts DEF Callbacks
  <2>2. uv'[r] = new /\ \A q \in Req : q # r => uv'[q] = uv[q]
    BY <1>1, <1>9
  <2> HIDE DEF new
  <2>3. uv[r].err \in {"EEXIST", "EROFS"}
    BY <1>1, <1>9 DEF Err, Final, OK
  <2>4. r \in meddled \/ tree[target[r]] # Missing \/ Denied(r, "EROFS")
    BY <1>3, <2>3 DEF Refusal
  <2>5. AnswersHaveCause(r)'
    BY <1>1, <1>9, <2>1, <2>2, <2>4 DEF AnswersHaveCause, Denied
  <2>6. WalkIsCurrent(r)'
    BY <2>1, <2>2 DEF WalkIsCurrent
  <2>7. Justified(r, status[r])'
    BY <1>1, <1>9 DEF Justified, Final
  <2>8. ASSUME NEW q \in Req, q # r PROVE Explained(q)'
    BY <1>1, <1>9, <2>2, <2>8, ExplainedStays DEF CInv, Spares
  <2> QED
    BY <2>5, <2>6, <2>7, <2>8 DEF CInv, Explained
<1> QED
  BY <1>4, <1>5, <1>6, <1>7, <1>8, <1>9 DEF OnMkdirRecursive

LEMMA OnStatExplained ==
  ASSUME IInv, CInv, NEW r \in Req, OnStat(r)
  PROVE  CInv'
<1>1. /\ uv[r].cb = "on_stat" /\ uv[r].done /\ OnFinished(r, StatErr(r)) /\ mode[r] # "none"
      /\ UNCHANGED <<tree, deny, mode, target, others, gone, meddled>>
  BY DEF OnStat, IInv, Fresh
<1>2. /\ uv[r].err \in {OK, "ENOENT", "ENOTDIR"}
      /\ uv[r].err = "ENOTDIR" \/ (uv[r].err = OK /\ ~uv[r].isdir) => Blocked(r)
      /\ uv[r].err = "ENOENT" => r \in meddled \/ Denied(r, "EROFS")
  BY <1>1 DEF CInv, Explained, AnswersHaveCause
<1>3. StatErr(r) \in Err /\ Justified(r, StatErr(r))
  BY <1>2 DEF StatErr, Justified, Final, Err, OK
<1> QED
  BY <1>1, <1>3, OnFinishedExplained

LEMMA OnMkdirExplained ==
  ASSUME IInv, CInv, NEW r \in Req, OnMkdir(r)
  PROVE  CInv'
<1>1. /\ uv[r].err \in Err /\ mode[r] = "plain" /\ OnFinished(r, uv[r].err)
      /\ UNCHANGED <<tree, deny, mode, target, others, gone, meddled>>
  BY DEF OnMkdir, IInv, TypeOK, Request, CInv, Explained, AnswersHaveCause
<1> QED
  BY <1>1, OnFinishedExplained

LEMMA OthersExplained ==
  ASSUME IInv, CInv, NEW p \in Path,
         (\E k \in {Dir} \cup File : OtherCreates(p, k)) \/ OtherRemoves(p)
  PROVE  CInv'
<1>1. /\ p # Top /\ gone \subseteq gone' /\ meddled' = meddled \cup Under(p, {})
      /\ UNCHANGED <<deny, mode, target, cuts, uv, status>>
      /\ \A q \in Path : q # p => tree'[q] = tree[q]
      /\ tree[p] = Missing \/ p \in gone'
  BY DEF OtherCreates, OtherRemoves, Without, IInv, TypeOK, Tree
<1>2. ASSUME NEW r \in Req PROVE Spares(r)
  <2>1. Running(r) /\ IsPrefix(p, target[r]) => r \in meddled'
    BY <1>1 DEF Under
  <2> QED
    BY <1>1, <2>1, KindFacts DEF Spares
<1> QED
  BY <1>1, <1>2, ExplainedStays DEF CInv

(* A recursive call fails only for a reason: a permission denied or a file *)
(* on its path, or somebody else who changed the tree under it; a volume   *)
(* that is missing or read-only gives ENOENT, and an entry that is already *)
(* there is never an error (src/mkdir.c:41-103).                           *)
THEOREM FailuresHaveCause == Spec => []FailureHasCause
<1>1. Init => CInv
  BY IdleFacts
     DEF Init, CInv, Explained, WalkIsCurrent, AnswersHaveCause
<1>2. IInv /\ CInv /\ [Next]_vars => CInv'
  <2>1. ASSUME IInv, CInv, Next PROVE CInv'
    BY <2>1, CallExplained, WorkMkdirExplained, WorkStatExplained, OnMkdirRecursiveExplained,
       OnStatExplained, OnMkdirExplained, OthersExplained DEF Next
  <2>2. ASSUME IInv, CInv, UNCHANGED vars PROVE CInv'
    BY <2>2, ExplainedStays DEF vars, CInv, Spares
  <2> QED
    BY <2>1, <2>2
<1>3. CInv => FailureHasCause
  BY DEF CInv, Explained, Justified, FailureHasCause, Denied, Blocked
<1> QED
  BY <1>1, <1>2, <1>3, Invariance, PTL DEF Spec
=============================================================================
