---------------------------- MODULE RmdirProofs ----------------------------
(***************************************************************************)
(* Proofs about Rmdir, for every set of paths, every surroundings and any  *)
(* number of entries created meanwhile.                                    *)
(*                                                                         *)
(* Everything follows from one inductive invariant, IInv.  The counting    *)
(* part, missing = Cardinality(Outstanding), is not inductive by itself:   *)
(* that a freed step leaves nothing behind needs that every ancestor of a  *)
(* live step is live (ClosedSteps), which is what turns "no child is       *)
(* outstanding" into "no descendant is".                                   *)
(***************************************************************************)
EXTENDS Rmdir, FileTreeProofs

-----------------------------------------------------------------------------
(* The inductive invariant.                                                *)

(* Before the call nothing is allocated or counted, and a plain call       *)
(* allocates no step.                                                      *)
Phases ==
  /\ mode = "idle" => /\ calls = 0 /\ missing[Top] = 0
                      /\ \A p \in Path : ~Pending(p)
  /\ mode # "recursive" => steps = {}

(* Which requests there are: the unlink of an entry belongs to a live step *)
(* and to no step of its own, the others belong to the live step of their  *)
(* path, and on_rmdir to the plain call.                                   *)
RequestsHaveSteps ==
  \A p \in Path :
     /\ uv[p].cb = "on_unlink" =>
          p \in Entry /\ Parent(p) \in steps /\ p \notin steps
     /\ uv[p].cb \in {"on_scandir", "on_rmdir_recursive"} => p \in steps
     /\ uv[p].cb = "on_rmdir" => p = Top /\ mode = "plain"

(* A listing holds entries of the directory that was listed.               *)
ListsHoldEntries ==
  \A p \in Path : uv[p].cb = "on_scandir" =>
     \A q \in uv[p].list : q \in Entry /\ Parent(q) = p

(* Every prefix of a live step is a live step.                             *)
ClosedSteps ==
  \A d \in steps : \A n \in 0 .. Len(d) : SubSeq(d, 1, n) \in steps

IInv ==
  /\ TypeOK
  /\ Phases
  /\ RequestsHaveSteps
  /\ ListsHoldEntries
  /\ ClosedSteps
  /\ MissingIsExact
  /\ FreesOnlyHeap
  /\ QuietAfterCallback

-----------------------------------------------------------------------------
(* Small facts.                                                            *)

(* What Submit and Idle build.                                             *)
LEMMA SubmitFacts ==
  /\ Idle \in Request /\ Idle.cb = "none"
  /\ \A cb \in Callbacks, buf \in {"embedded", "heap"} :
       /\ Submit(cb, buf) \in Request
       /\ Submit(cb, buf).cb = cb /\ Submit(cb, buf).buf = buf
       /\ Submit(cb, buf).list = {} /\ ~Submit(cb, buf).done
BY DEF Idle, Submit, Request, Callbacks, Err, OK

(* The parent of a live step is live, and so is the root of any.           *)
LEMMA ParentIsLive ==
  ASSUME TypeOK, ClosedSteps, NEW d \in steps
  PROVE  Top \in steps /\ (d # Top => d \in Entry /\ Parent(d) \in steps)
<1>1. d \in Path /\ SubSeq(d, 1, 0) = Top /\ Len(d) \in Nat
  BY WholePrefix DEF TypeOK
<1>2. Top \in steps
  <2>1. 0 \in 0 .. Len(d)
    BY <1>1
  <2>2. SubSeq(d, 1, 0) \in steps
    BY <2>1 DEF ClosedSteps
  <2> QED
    BY <1>1, <2>2
<1>3. ASSUME d # Top PROVE d \in Entry /\ Parent(d) \in steps
  <2>1. d \in Entry
    BY <1>1, <1>3 DEF Entry
  <2>2. Len(d) - 1 \in 0 .. Len(d)
    BY <2>1, ParentFacts
  <2> QED
    BY <2>1, <2>2 DEF ClosedSteps, Parent
<1> QED
  BY <1>2, <1>3

(* A step with no outstanding entry has no live step below it: any live    *)
(* path through d goes on through a child of d, which is live too.         *)
LEMMA NothingBelow ==
  ASSUME TypeOK, ClosedSteps, NEW d \in steps,
         \A q \in Entry : Parent(q) = d => q \notin steps,
         NEW e \in steps, NEW n \in 0 .. Len(e), SubSeq(e, 1, n) = d
  PROVE  e = d
<1>1. e \in Path /\ Len(e) \in Nat /\ SubSeq(e, 1, Len(e)) = e
  BY WholePrefix DEF TypeOK
<1>2. CASE n = Len(e)
  BY <1>1, <1>2
<1>3. CASE n # Len(e)
  <2> DEFINE l == Len(e)
  <2>0. l \in Nat /\ n \in 0 .. l /\ n # l
    BY <1>1, <1>3
  <2>1. n \in 0 .. (l - 1) /\ n + 1 \in 0 .. l
    <3> HIDE DEF l
    <3> QED
      BY <2>0
  <2>2. SubSeq(e, 1, n + 1) \in steps
    BY <2>1 DEF ClosedSteps
  <2>3. SubSeq(e, 1, n + 1) \in Path
    BY <2>2 DEF TypeOK
  <2>4. /\ SubSeq(e, 1, n + 1) \in Entry
        /\ Parent(SubSeq(e, 1, n + 1)) = d
    BY <1>1, <2>1, <2>3, ChildTowards
  <2> QED
    BY <2>2, <2>4
<1> QED
  BY <1>2, <1>3

-----------------------------------------------------------------------------
(* on_finished_maybe keeps the invariant, when missing was left at the     *)
(* number of entries still outstanding without the one that reports.       *)
LEMMA OnFinishedMaybeKeeps ==
  ASSUME IInv, mode = "recursive",
         NEW p \in Path, Pending(p),
         NEW d \in steps, d = StepOf(p),
         NEW err \in Err,
         NEW count,
         count = [missing EXCEPT ![d] = Cardinality(Outstanding(d) \ {p})],
         OnFinishedMaybe(p, d, err, count),
         UNCHANGED <<tree, env, created, mode>>
  PROVE  IInv'
<1> USE DEF Pending
<1>0. /\ d \in Path /\ calls = 0
      /\ uv[p].cb = "on_unlink" => p \in Entry /\ d = Parent(p) /\ p \notin steps
      /\ uv[p].cb # "on_unlink" => p = d
      /\ uv \in [Path -> Request] /\ uv[p] \in Request
  BY DEF IInv, TypeOK, QuietAfterCallback, RequestsHaveSteps, StepOf, Request, Callbacks
<1>1. /\ count \in [Path -> Nat]
      /\ \A e \in Path : e # d => count[e] = missing[e]
      /\ count[d] = Cardinality(Outstanding(d) \ {p})
      /\ count[d] = 0 => Outstanding(d) \subseteq {p}
  <2>1. Outstanding(d) \ {p} \in SUBSET Path
    BY DEF Outstanding, Entry
  <2>2. /\ Cardinality(Outstanding(d) \ {p}) \in Nat
        /\ Cardinality(Outstanding(d) \ {p}) = 0 <=> Outstanding(d) \ {p} = {}
    BY <2>1, PathSets
  <2>3. missing \in [Path -> Nat]
    BY DEF IInv, TypeOK
  <2> QED
    BY <1>0, <2>2, <2>3
<1>2. result' \in Err
  BY DEF OnFinishedMaybe, Retain, IInv, TypeOK
<1>3. CASE /\ ~Drained(count, d)
           /\ missing' = count
           /\ uv' = [uv EXCEPT ![p] = Idle]
           /\ UNCHANGED <<steps, calls, status>>
  <2>0. /\ uv' \in [Path -> Request]
        /\ uv'[p].cb = "none"
        /\ \A q \in Path : q # p => uv'[q] = uv[q]
    BY <1>0, <1>3, SubmitFacts
  <2>1. uv[p].cb = "on_unlink"
    <3>1. SUFFICES ASSUME uv[p].cb # "on_unlink" PROVE FALSE
      OBVIOUS
    <3>2. p = d /\ missing[d] = 0 /\ Cardinality(Outstanding(d)) = 0
      BY <1>0, <3>1 DEF IInv, MissingIsExact
    <3>3. Outstanding(d) \in SUBSET Path
      BY DEF Outstanding, Entry
    <3>4. Outstanding(d) = {}
      BY <3>2, <3>3, PathSets
    <3> QED
      BY <1>1, <1>3, <3>4, FS_EmptySet DEF Drained
  <2>2. TypeOK'
    BY <1>1, <1>2, <1>3, <2>0 DEF IInv, TypeOK
  <2>3. (Phases /\ RequestsHaveSteps /\ ListsHoldEntries /\ ClosedSteps)'
    BY <1>3, <2>0 DEF IInv, Phases, RequestsHaveSteps, ListsHoldEntries, ClosedSteps
  <2>4. (FreesOnlyHeap /\ QuietAfterCallback)'
    BY <1>0, <1>3, <2>0 DEF IInv, FreesOnlyHeap, QuietAfterCallback, StepOf
  <2>5. MissingIsExact'
    <3>1. SUFFICES ASSUME NEW e \in steps
                   PROVE  /\ count[e] = Cardinality(Outstanding(e)')
                          /\ uv'[e].cb # "none" => count[e] = 0
      BY <1>3 DEF MissingIsExact
    <3>2. Outstanding(e)' = Outstanding(e) \ {p}
      BY <1>0, <1>3, <2>0, <2>1 DEF Outstanding, Entry
    <3>3. CASE e = d
      <4>1. p \in Outstanding(d)
        BY <1>0, <2>1 DEF Outstanding
      <4>2. Outstanding(d) \in SUBSET Path
        BY DEF Outstanding, Entry
      <4>3. missing[d] # 0
        BY <4>1, <4>2, PathSets DEF IInv, MissingIsExact
      <4>4. uv[d].cb = "none"
        BY <4>3 DEF IInv, MissingIsExact
      <4> QED
        BY <1>0, <1>1, <2>0, <2>1, <3>2, <3>3, <4>4
    <3>4. CASE e # d
      <4>1. p \notin Outstanding(e) /\ e # p
        BY <1>0, <2>1, <3>4 DEF Outstanding
      <4>2. Outstanding(e)' = Outstanding(e)
        BY <3>2, <4>1
      <4>3. e \in Path
        BY DEF IInv, TypeOK
      <4> QED
        BY <1>1, <2>0, <3>4, <4>1, <4>2, <4>3 DEF IInv, MissingIsExact
    <3> QED
      BY <3>3, <3>4
  <2> QED
    BY <2>2, <2>3, <2>4, <2>5 DEF IInv
<1>4. CASE /\ Drained(count, d) /\ d = Top
           /\ steps' = steps \ {d}
           /\ missing' = count
           /\ uv' = [uv EXCEPT ![p] = Idle]
           /\ OnFinished
  <2>0. /\ uv' \in [Path -> Request]
        /\ uv'[p].cb = "none"
        /\ \A q \in Path : q # p => uv'[q] = uv[q]
    BY <1>0, <1>4, SubmitFacts
  <2>1. Outstanding(Top) \subseteq {p}
    BY <1>1, <1>4 DEF Drained
  <2>2. \A q \in Entry : Parent(q) = Top => q \notin steps
    <3>1. SUFFICES ASSUME NEW q \in Entry, Parent(q) = Top, q \in steps PROVE FALSE
      OBVIOUS
    <3>2. q \in Outstanding(Top)
      BY <3>1 DEF Outstanding
    <3>3. q = p
      BY <2>1, <3>2
    <3> QED
      BY <1>0, <1>4, <3>1, <3>3 DEF Entry
  <2>3. steps' = {}
    <3>1. SUFFICES ASSUME NEW e \in steps PROVE e = Top
      BY <1>4
    <3>2. e \in Path /\ Len(e) \in Nat /\ SubSeq(e, 1, 0) = Top
      BY WholePrefix DEF IInv, TypeOK
    <3>3. 0 \in 0 .. Len(e)
      BY <3>2
    <3>4. TypeOK /\ ClosedSteps
      BY DEF IInv
    <3> QED
      BY <1>4, <2>2, <3>2, <3>3, <3>4, NothingBelow
  <2>4. \A q \in Path : uv'[q].cb = "none"
    <3>1. SUFFICES ASSUME NEW q \in Path, q # p, uv[q].cb # "none" PROVE FALSE
      BY <2>0
    <3>2. uv[q].cb # "on_rmdir"
      BY DEF IInv, RequestsHaveSteps
    <3>3. CASE uv[q].cb = "on_unlink"
      <4>1. q \in Entry /\ Parent(q) = Top
        BY <1>4, <2>3, <3>3 DEF IInv, RequestsHaveSteps
      <4> QED
        BY <2>1, <3>1, <3>3, <4>1 DEF Outstanding
    <3>4. CASE uv[q].cb \in {"on_scandir", "on_rmdir_recursive"}
      <4>1. q = Top
        BY <1>4, <2>3, <3>4 DEF IInv, RequestsHaveSteps
      <4>2. missing[Top] = 0 /\ Cardinality(Outstanding(Top)) = 0
        BY <1>4, <3>1, <4>1 DEF IInv, MissingIsExact
      <4>3. Outstanding(Top) \in SUBSET Path
        BY DEF Outstanding, Entry
      <4>4. p \notin Outstanding(Top)
        BY <4>2, <4>3, PathSets
      <4>5. uv[p].cb = "on_unlink"
        BY <1>0, <1>4, <3>1, <4>1
      <4> QED
        BY <1>0, <1>4, <4>4, <4>5 DEF Outstanding
    <3> QED
      BY <1>0, <3>1, <3>2, <3>3, <3>4 DEF Request, Callbacks
  <2>5. calls' = 1 /\ status' \in Err
    BY <1>0, <1>2, <1>4 DEF OnFinished
  <2>6. TypeOK'
    BY <1>1, <1>2, <1>4, <2>0, <2>3, <2>5 DEF IInv, TypeOK
  <2>7. (Phases /\ RequestsHaveSteps /\ ListsHoldEntries /\ ClosedSteps)'
    BY <1>4, <2>3, <2>4 DEF IInv, Phases, RequestsHaveSteps, ListsHoldEntries, ClosedSteps
  <2>8. (MissingIsExact /\ FreesOnlyHeap /\ QuietAfterCallback)'
    BY <2>3, <2>4, <2>5 DEF MissingIsExact, FreesOnlyHeap, QuietAfterCallback
  <2> QED
    BY <2>6, <2>7, <2>8 DEF IInv
<1>5. CASE /\ Drained(count, d) /\ d # Top
           /\ steps' = steps \ {d}
           /\ missing' = [count EXCEPT ![Parent(d)] = @ - 1]
           /\ uv' = IF Drained(missing', Parent(d))
                    THEN [uv EXCEPT ![p] = Idle, ![Parent(d)] = HandedOn(p)]
                    ELSE [uv EXCEPT ![p] = Idle]
           /\ UNCHANGED <<calls, status>>
  <2> DEFINE e == Parent(d)
  <2>1. /\ d \in Entry /\ e \in steps /\ e \in Path /\ e # d
    BY <1>0, <1>5, ParentIsLive, ParentFacts DEF IInv
  <2>2. Outstanding(d) \subseteq {p}
    BY <1>1, <1>5 DEF Drained
  <2>3. /\ uv[p].buf = "heap"
        /\ HandedOn(p) \in Request
        /\ HandedOn(p).cb = "on_rmdir_recursive" /\ HandedOn(p).buf = "heap"
    <3>1. uv[p].buf = "heap"
      BY <1>0, <1>5 DEF IInv, FreesOnlyHeap, Request, Entry
    <3> QED
      BY <3>1, SubmitFacts DEF HandedOn, Callbacks
  <2>4. \A q \in Path :
          uv'[q] = IF q = e /\ missing'[e] = 0 THEN HandedOn(p)
                   ELSE IF q = p THEN Idle ELSE uv[q]
    BY <1>0, <1>5, <2>1 DEF Drained
  <2>5. uv' \in [Path -> Request]
    BY <1>0, <1>5, <2>3, <2>1, SubmitFacts
  <2>6. uv[e].cb # "on_unlink"
    BY <2>1 DEF IInv, RequestsHaveSteps
  <2>7. Outstanding(e)' = Outstanding(e) \ {d}
    <3>1. SUFFICES ASSUME NEW q \in Entry, Parent(q) = e
                   PROVE  (uv'[q].cb = "on_unlink" \/ q \in steps')
                          <=> (uv[q].cb = "on_unlink" \/ q \in steps) /\ q # d
      BY DEF Outstanding
    <3>2. q \in Path /\ q # e
      BY <3>1, ParentFacts
    <3>3. CASE q = p
      <4>1. p = d
        BY <1>0, <2>1, <3>1, <3>3
      <4> QED
        BY <1>5, <2>4, <3>2, <3>3, <4>1, SubmitFacts
    <3>4. CASE q # p
      <4>1. uv'[q] = uv[q]
        BY <2>4, <3>2, <3>4
      <4>2. uv[d].cb # "on_unlink"
        BY <1>0 DEF IInv, RequestsHaveSteps
      <4> QED
        BY <1>5, <4>1, <4>2
    <3> QED
      BY <3>3, <3>4
  <2>8. \A f \in steps : f # e /\ f # d => Outstanding(f)' = Outstanding(f)
    <3>1. SUFFICES ASSUME NEW f \in steps, f # e, f # d,
                          NEW q \in Entry, Parent(q) = f
                   PROVE  uv'[q].cb = "on_unlink" \/ q \in steps'
                          <=> uv[q].cb = "on_unlink" \/ q \in steps
      BY DEF Outstanding
    <3>2. q # d /\ q \in Path
      BY <3>1 DEF Entry
    <3>3. q # p
      BY <1>0, <3>1, <3>2
    <3> QED
      BY <1>5, <2>3, <2>4, <2>6, <3>2, <3>3
  <2>9. d \in Outstanding(e)
    BY <2>1 DEF Outstanding
  <2>10. /\ Cardinality(Outstanding(e)) \in Nat /\ Cardinality(Outstanding(e)) # 0
         /\ Cardinality(Outstanding(e) \ {d}) = Cardinality(Outstanding(e)) - 1
    <3>1. Outstanding(e) \in SUBSET Path
      BY DEF Outstanding, Entry
    <3> QED
      BY <2>9, <3>1, PathSets, FS_RemoveElement
  <2>11. /\ count[e] = Cardinality(Outstanding(e)) /\ uv[e].cb = "none"
    BY <1>1, <2>1, <2>10 DEF IInv, MissingIsExact
  <2>12. /\ missing' \in [Path -> Nat]
         /\ missing'[e] = Cardinality(Outstanding(e)')
         /\ \A f \in Path : f # e => missing'[f] = count[f]
    BY <1>1, <1>5, <2>1, <2>7, <2>10, <2>11
  <2>13. TypeOK'
    BY <1>2, <1>5, <2>5, <2>12 DEF IInv, TypeOK
  <2>14. MissingIsExact'
    <3>1. SUFFICES ASSUME NEW f \in steps, f # d
                   PROVE  /\ missing'[f] = Cardinality(Outstanding(f)')
                          /\ uv'[f].cb # "none" => missing'[f] = 0
      BY <1>5 DEF MissingIsExact
    <3>2. f \in Path
      BY DEF IInv, TypeOK
    <3>3. CASE f = e
      BY <2>4, <2>11, <2>12, <3>2, <3>3, SubmitFacts
    <3>4. CASE f # e
      <4>1. /\ missing'[f] = missing[f]
            /\ Outstanding(f)' = Outstanding(f)
        BY <1>1, <2>8, <2>12, <3>1, <3>2, <3>4
      <4>2. uv'[f].cb # "none" => uv[f].cb # "none"
        BY <2>4, <3>2, <3>4, SubmitFacts
      <4> QED
        BY <4>1, <4>2 DEF IInv, MissingIsExact
    <3> QED
      BY <3>3, <3>4
  <2>15. \A q \in Entry : Parent(q) = d => q \notin steps
    <3>1. SUFFICES ASSUME NEW q \in Entry, Parent(q) = d, q \in steps PROVE FALSE
      OBVIOUS
    <3>2. q \in Outstanding(d)
      BY <3>1 DEF Outstanding
    <3>3. q = p /\ q # d
      BY <2>2, <3>1, <3>2, ParentFacts
    <3> QED
      BY <1>0, <3>1, <3>3
  <2>16. ClosedSteps'
    <3>1. SUFFICES ASSUME NEW f \in steps, f # d, NEW n \in 0 .. Len(f)
                   PROVE  SubSeq(f, 1, n) \in steps \ {d}
      BY <1>5 DEF ClosedSteps
    <3>2. SubSeq(f, 1, n) \in steps
      BY DEF IInv, ClosedSteps
    <3> QED
      BY <2>15, <3>1, <3>2, NothingBelow DEF IInv
  <2>17. RequestsHaveSteps'
    <3>1. SUFFICES ASSUME NEW q \in Path
                   PROVE  /\ uv'[q].cb = "on_unlink" =>
                               q \in Entry /\ Parent(q) \in steps \ {d} /\ q \notin steps \ {d}
                          /\ uv'[q].cb \in {"on_scandir", "on_rmdir_recursive"} =>
                               q \in steps \ {d}
                          /\ uv'[q].cb = "on_rmdir" => q = Top /\ mode' = "plain"
      BY <1>5 DEF RequestsHaveSteps
    <3>2. CASE q = e /\ missing'[e] = 0
      BY <2>1, <2>3, <2>4, <3>2
    <3>3. CASE q = p /\ ~(q = e /\ missing'[e] = 0)
      BY <2>4, <3>3, SubmitFacts
    <3>4. CASE q # p /\ ~(q = e /\ missing'[e] = 0)
      <4>1. uv'[q] = uv[q]
        BY <2>4, <3>4
      <4>2. CASE uv[q].cb = "on_unlink"
        <5>1. q \in Entry /\ Parent(q) \in steps /\ q \notin steps
          BY <4>2 DEF IInv, RequestsHaveSteps
        <5>2. Parent(q) # d
          BY <2>2, <3>4, <4>2, <5>1 DEF Outstanding
        <5> QED
          BY <4>1, <4>2, <5>1, <5>2
      <4>3. CASE uv[q].cb \in {"on_scandir", "on_rmdir_recursive"}
        <5>1. q \in steps
          BY <4>3 DEF IInv, RequestsHaveSteps
        <5>2. q # d
          <6>1. SUFFICES ASSUME q = d PROVE FALSE
            OBVIOUS
          <6>2. uv[p].cb = "on_unlink"
            BY <1>0, <3>4, <6>1
          <6>3. p \in Outstanding(d)
            BY <1>0, <6>2 DEF Outstanding
          <6>4. Cardinality(Outstanding(d)) = 0
            BY <4>3, <6>1 DEF IInv, MissingIsExact
          <6>5. Outstanding(d) \in SUBSET Path
            BY DEF Outstanding, Entry
          <6> QED
            BY <6>3, <6>4, <6>5, PathSets
        <5> QED
          BY <4>1, <4>3, <5>1, <5>2
      <4>4. uv[q].cb # "on_rmdir"
        BY DEF IInv, RequestsHaveSteps
      <4> QED
        BY <4>1, <4>2, <4>3, <4>4
    <3> QED
      BY <3>2, <3>3, <3>4
  <2>18. (Phases /\ ListsHoldEntries)'
    <3>1. Phases'
      BY <1>5 DEF Phases
    <3>2. ASSUME NEW q \in Path, uv'[q].cb = "on_scandir" PROVE uv'[q] = uv[q]
      BY <2>3, <2>4, <3>2, SubmitFacts
    <3> QED
      BY <3>1, <3>2 DEF IInv, ListsHoldEntries
  <2>19. (FreesOnlyHeap /\ QuietAfterCallback)'
    BY <1>0, <1>5, <2>3, <2>4, SubmitFacts
       DEF IInv, FreesOnlyHeap, QuietAfterCallback, StepOf
  <2> QED
    BY <2>13, <2>14, <2>16, <2>17, <2>18, <2>19 DEF IInv
<1> QED
  BY <1>3, <1>4, <1>5 DEF OnFinishedMaybe

-----------------------------------------------------------------------------
(* The steps of the specification keep it.                                 *)

LEMMA InitEstablishes == Init => IInv
<1> SUFFICES ASSUME Init PROVE IInv
  OBVIOUS
<1> USE DEF Init
<1>1. TypeOK
  BY RmdirAssumption, SubmitFacts DEF TypeOK, Err, OK
<1>2. \A p \in Path : uv[p].cb = "none"
  BY SubmitFacts
<1>3. Phases
  BY <1>2, PathAssumption DEF Phases, Pending
<1>4. /\ RequestsHaveSteps /\ ListsHoldEntries /\ ClosedSteps
      /\ MissingIsExact /\ FreesOnlyHeap /\ QuietAfterCallback
  BY <1>2 DEF RequestsHaveSteps, ListsHoldEntries, ClosedSteps, MissingIsExact,
              FreesOnlyHeap, QuietAfterCallback, Pending
<1> QED
  BY <1>1, <1>3, <1>4 DEF IInv

(* A step that only changes the tree, the entries created meanwhile, and   *)
(* what a worker stores in a request keeps it.                             *)
LEMMA WorkerKeeps ==
  ASSUME IInv,
         tree' \in Tree, created' \subseteq Path,
         uv' \in [Path -> Request],
         \A q \in Path : /\ uv'[q].cb = uv[q].cb
                         /\ uv'[q].buf = uv[q].buf
                         /\ uv[q].cb = "on_scandir" =>
                              \A r \in uv'[q].list : r \in Entry /\ Parent(r) = q,
         UNCHANGED <<env, mode, steps, missing, result, calls, status>>
  PROVE  IInv'
<1>1. TypeOK'
  BY DEF IInv, TypeOK
<1>2. (Phases /\ RequestsHaveSteps /\ ListsHoldEntries /\ ClosedSteps)'
  BY DEF IInv, Phases, RequestsHaveSteps, ListsHoldEntries, ClosedSteps, Pending
<1>3. \A d : Outstanding(d)' = Outstanding(d)
  BY DEF Outstanding, Entry
<1>4. MissingIsExact'
  BY <1>3 DEF IInv, TypeOK, MissingIsExact, Pending
<1>5. (FreesOnlyHeap /\ QuietAfterCallback)'
  BY DEF IInv, FreesOnlyHeap, QuietAfterCallback, Pending, StepOf
<1> QED
  BY <1>1, <1>2, <1>4, <1>5 DEF IInv

(* The errors of the system calls are among those of the model.            *)
LEMMA ErrTypes ==
  ASSUME env \in EnvType, NEW p \in Path, NEW t
  PROVE  /\ UnlinkErr(t, p, env.deny[p], env.onDir) \in Err
         /\ RmdirErr(t, p, env.deny[p]) \in Err
         /\ ScandirErr(t, p, p \notin env.unreadable) \in Err
<1>1. env.deny[p] \in Err /\ env.onDir \in Err
  BY DEF EnvType, Err, OK
<1>2. LookupErr(t, p) \in Err
  BY DEF LookupErr, Err
<1>3. UnlinkErr(t, p, env.deny[p], env.onDir) \in Err
  BY <1>1, <1>2 DEF UnlinkErr, Err, OK
<1>4. RmdirErr(t, p, env.deny[p]) \in Err
  BY <1>1, <1>2 DEF RmdirErr, Err, OK
<1>5. ScandirErr(t, p, p \notin env.unreadable) \in Err
  BY <1>2 DEF ScandirErr, Err, OK
<1> QED
  BY <1>3, <1>4, <1>5

(* What a worker stores in a request.                                      *)
LEMMA RanFacts ==
  ASSUME uv \in [Path -> Request], NEW p \in Path, NEW err \in Err,
         NEW list \in SUBSET Entry
  PROVE  /\ Ran(p, err, list) \in [Path -> Request]
         /\ \A q \in Path : /\ Ran(p, err, list)[q].cb = uv[q].cb
                            /\ Ran(p, err, list)[q].buf = uv[q].buf
                            /\ q # p => Ran(p, err, list)[q].list = uv[q].list
         /\ Ran(p, err, list)[p].list = list
BY DEF Ran, Request

LEMMA TreeFacts ==
  ASSUME NEW t \in Tree, NEW p \in Path
  PROVE  /\ Without(t, p) \in Tree
         /\ \A k \in Kind : [t EXCEPT ![p] = k] \in Tree
         /\ Children(t, p) \in SUBSET Entry
         /\ \A q \in Children(t, p) : q \in Entry /\ Parent(q) = p
BY DEF Tree, Without, Kind, Children

LEMMA WorkKeeps ==
  ASSUME IInv, NEW p \in Path, Worker(p)
  PROVE  IInv'
<1>1. tree \in Tree /\ env \in EnvType /\ uv \in [Path -> Request] /\ created \subseteq Path
  BY DEF IInv, TypeOK
<1>2. CASE WorkUnlink(p)
  <2> DEFINE err == UnlinkErr(tree, p, env.deny[p], env.onDir)
  <2>1. err \in Err
    BY <1>1, ErrTypes
  <2>2. uv[p].cb = "on_unlink" /\ uv' = Ran(p, err, {}) /\ tree' \in Tree
    BY <1>1, <1>2, TreeFacts DEF WorkUnlink
  <2> HIDE DEF err
  <2> QED
    BY <1>1, <1>2, <2>1, <2>2, RanFacts, WorkerKeeps DEF WorkUnlink, IInv, ListsHoldEntries
<1>3. CASE WorkRmdir(p)
  <2> DEFINE err == RmdirErr(tree, p, env.deny[p])
  <2>1. err \in Err
    BY <1>1, ErrTypes
  <2>2. uv[p].cb # "on_scandir" /\ uv' = Ran(p, err, {}) /\ tree' \in Tree
    BY <1>1, <1>3, TreeFacts DEF WorkRmdir
  <2> HIDE DEF err
  <2> QED
    BY <1>1, <1>3, <2>1, <2>2, RanFacts, WorkerKeeps DEF WorkRmdir, IInv, ListsHoldEntries
<1>4. CASE WorkScandir(p)
  <2> DEFINE err == ScandirErr(tree, p, p \notin env.unreadable)
             list == IF err = OK THEN Children(tree, p) ELSE {}
  <2>1. err \in Err
    BY <1>1, ErrTypes
  <2>2. list \in SUBSET Entry /\ \A r \in list : r \in Entry /\ Parent(r) = p
    BY <1>1, TreeFacts
  <2>3. uv' = Ran(p, err, list)
    BY <1>4 DEF WorkScandir
  <2> HIDE DEF err, list
  <2> QED
    BY <1>1, <1>4, <2>1, <2>2, <2>3, RanFacts, WorkerKeeps
       DEF WorkScandir, IInv, ListsHoldEntries
<1> QED
  BY <1>2, <1>3, <1>4 DEF Worker

(* Another process keeps it.                                               *)
LEMMA OthersKeep ==
  ASSUME IInv, NEW p \in Path,
         (\E k \in {Dir} \cup File : OtherCreates(p, k)) \/ OtherRemoves(p)
  PROVE  IInv'
<1>1. tree \in Tree /\ uv \in [Path -> Request] /\ created \subseteq Path
  BY DEF IInv, TypeOK
<1>2. /\ tree' \in Tree /\ created' \subseteq Path /\ uv' = uv
      /\ UNCHANGED <<env, mode, steps, missing, result, calls, status>>
  <2>1. CASE OtherRemoves(p)
    BY <1>1, <2>1, TreeFacts DEF OtherRemoves
  <2>2. CASE \E k \in {Dir} \cup File : OtherCreates(p, k)
    <3>1. PICK k \in {Dir} \cup File : OtherCreates(p, k)
      BY <2>2
    <3>2. k \in Kind
      BY DEF Kind
    <3> QED
      BY <1>1, <3>1, <3>2, TreeFacts DEF OtherCreates
  <2> QED
    BY <2>1, <2>2
<1> QED
  BY <1>1, <1>2, WorkerKeeps DEF IInv, ListsHoldEntries

(* The call.                                                               *)
LEMMA CallKeeps ==
  ASSUME IInv, NEW recursive \in BOOLEAN, Call(recursive)
  PROVE  IInv'
<1> DEFINE cb == IF recursive THEN "on_rmdir_recursive" ELSE "on_rmdir"
<1>1. /\ calls = 0 /\ Top \in Path /\ uv \in [Path -> Request] /\ steps = {}
      /\ \A p \in Path : uv[p].cb = "none"
  BY PathAssumption DEF IInv, TypeOK, Phases, Pending, Call
<1>2. /\ Submit(cb, "embedded") \in Request /\ Submit(cb, "embedded").cb = cb
      /\ Submit(cb, "embedded").list = {}
  BY SubmitFacts DEF Callbacks
<1>3. /\ uv' \in [Path -> Request] /\ uv'[Top].cb = cb /\ uv'[Top].list = {}
      /\ \A p \in Path : p # Top => uv'[p].cb = "none"
  BY <1>1, <1>2 DEF Call
<1>4. TypeOK'
  BY <1>1, <1>3 DEF Call, IInv, TypeOK, Err, OK
<1>5. (Phases /\ RequestsHaveSteps /\ ListsHoldEntries)'
  BY <1>1, <1>3 DEF Call, Phases, RequestsHaveSteps, ListsHoldEntries
<1>6. ClosedSteps'
  <2>1. Len(Top) = 0 /\ SubSeq(Top, 1, 0) = Top
    BY WholePrefix, EmptySeq, <1>1 DEF Top
  <2>2. \A n \in 0 .. Len(Top) : n = 0
    BY <2>1
  <2>3. \A d \in steps' : d = Top /\ d \in steps'
    BY <1>1 DEF Call
  <2> QED
    BY <2>1, <2>2, <2>3 DEF ClosedSteps
<1>7. MissingIsExact'
  <2>1. SUFFICES ASSUME mode' = "recursive"
                 PROVE  missing[Top] = 0 /\ Outstanding(Top)' = {}
    BY <1>1, FS_EmptySet DEF Call, MissingIsExact
  <2>2. \A q \in Entry : q \notin steps' /\ uv'[q].cb # "on_unlink"
    BY <1>1, <1>3 DEF Call, Entry
  <2> QED
    BY <2>2 DEF Call, IInv, Phases, Outstanding
<1>8. (FreesOnlyHeap /\ QuietAfterCallback)'
  BY <1>1, <1>3 DEF Call, FreesOnlyHeap, QuietAfterCallback, Pending, StepOf
<1> QED
  BY <1>4, <1>5, <1>6, <1>7, <1>8 DEF IInv

(* on_unlink.                                                              *)
LEMMA OnUnlinkKeeps ==
  ASSUME IInv, NEW p \in Path, OnUnlink(p)
  PROVE  IInv'
<1> DEFINE d == Parent(p)
<1>0. /\ uv[p].cb = "on_unlink" /\ calls = 0 /\ mode = "recursive"
      /\ p \in Entry /\ d \in steps /\ d \in Path /\ p \notin steps /\ d # p
      /\ uv \in [Path -> Request] /\ uv[p] \in Request /\ missing \in [Path -> Nat]
  BY ParentFacts
     DEF OnUnlink, IInv, TypeOK, RequestsHaveSteps, QuietAfterCallback, Pending, Phases
<1>1. CASE /\ uv[p].err \in DirErrors
           /\ steps' = steps \cup {p}
           /\ missing' = [missing EXCEPT ![p] = 0]
           /\ uv' = [uv EXCEPT ![p] = Submit("on_rmdir_recursive", uv[p].buf)]
           /\ UNCHANGED <<result, calls, status>>
           /\ UNCHANGED <<tree, env, created, mode>>
  <2> DEFINE new == Submit("on_rmdir_recursive", uv[p].buf)
  <2>1. /\ new \in Request /\ new.cb = "on_rmdir_recursive" /\ new.buf = uv[p].buf
    BY <1>0, SubmitFacts DEF Callbacks, Request
  <2>2. /\ uv' \in [Path -> Request] /\ uv'[p] = new
        /\ \A q \in Path : q # p => uv'[q] = uv[q]
    <3> HIDE DEF new
    <3> QED
      BY <1>0, <1>1, <2>1 DEF new
  <2> HIDE DEF new
  <2>3. /\ missing' \in [Path -> Nat] /\ missing'[p] = 0
        /\ \A q \in Path : q # p => missing'[q] = missing[q]
    BY <1>0, <1>1
  <2>4. TypeOK'
    BY <1>0, <1>1, <2>2, <2>3 DEF IInv, TypeOK, Entry
  <2>5. \A q \in Entry : Parent(q) = p => q \notin steps /\ uv[q].cb # "on_unlink"
    <3>1. SUFFICES ASSUME NEW q \in Entry, Parent(q) = p PROVE p \in steps \/
                          (q \notin steps /\ uv[q].cb # "on_unlink")
      BY <1>0
    <3>2. uv[q].cb = "on_unlink" => p \in steps
      BY <3>1 DEF IInv, RequestsHaveSteps, Entry
    <3>3. q \in steps => p \in steps
      BY <3>1, ParentIsLive DEF IInv, Entry
    <3> QED
      BY <3>2, <3>3
  <2>6. ClosedSteps'
    <3>1. SUFFICES ASSUME NEW n \in 0 .. Len(p) PROVE SubSeq(p, 1, n) \in steps \cup {p}
      BY <1>1 DEF IInv, ClosedSteps
    <3>2. Len(p) \in Nat /\ SubSeq(p, 1, Len(p)) = p /\ Len(d) = Len(p) - 1
      BY <1>0, WholePrefix, ParentFacts
    <3>3. CASE n = Len(p)
      BY <3>2, <3>3
    <3>4. CASE n # Len(p)
      <4> DEFINE l == Len(p)
      <4>1. n \in 0 .. l /\ l \in Nat /\ n # l
        BY <3>2, <3>4
      <4>2. n \in 0 .. (l - 1)
        <5> HIDE DEF l
        <5> QED
          BY <4>1
      <4>3. SubSeq(p, 1, n) = SubSeq(d, 1, n) /\ n \in 0 .. Len(d)
        BY <1>0, <3>2, <4>2, PrefixOfParent
      <4> QED
        BY <1>0, <4>3 DEF IInv, ClosedSteps
    <3> QED
      BY <3>3, <3>4
  <2>7. RequestsHaveSteps'
    BY <1>0, <1>1, <2>1, <2>2, <2>5 DEF IInv, RequestsHaveSteps
  <2>8. (Phases /\ ListsHoldEntries)'
    BY <1>0, <1>1, <2>1, <2>2 DEF IInv, Phases, ListsHoldEntries
  <2>9. Outstanding(p)' = {}
    BY <1>1, <2>2, <2>5, <1>0, ParentFacts DEF Outstanding, Entry
  <2>10. \A e \in steps : Outstanding(e)' = Outstanding(e)
    BY <1>0, <1>1, <2>1, <2>2 DEF Outstanding, Entry
  <2>11. MissingIsExact'
    <3>1. SUFFICES ASSUME NEW e \in steps \cup {p}
                   PROVE  /\ missing'[e] = Cardinality(Outstanding(e)')
                          /\ uv'[e].cb # "none" => missing'[e] = 0
      BY <1>1 DEF MissingIsExact, Pending
    <3>2. CASE e = p
      BY <2>3, <2>9, <3>2, FS_EmptySet
    <3>3. CASE e # p
      <4>1. e \in steps /\ e \in Path
        BY <3>3 DEF IInv, TypeOK
      <4> QED
        BY <2>2, <2>3, <2>10, <3>3, <4>1 DEF IInv, MissingIsExact, Pending
    <3> QED
      BY <3>2, <3>3
  <2>12. (FreesOnlyHeap /\ QuietAfterCallback)'
    BY <1>0, <1>1, <2>1, <2>2
       DEF IInv, FreesOnlyHeap, QuietAfterCallback, Pending
  <2> QED
    BY <2>4, <2>6, <2>7, <2>8, <2>11, <2>12 DEF IInv
<1>2. CASE /\ uv[p].err \notin DirErrors
           /\ OnFinishedMaybe(p, d, uv[p].err, Discount(d))
           /\ UNCHANGED <<tree, env, created, mode>>
  <2>1. Pending(p) /\ d = StepOf(p) /\ uv[p].err \in Err
    BY <1>0 DEF Pending, StepOf, Request
  <2>2. Discount(d) = [missing EXCEPT ![d] = Cardinality(Outstanding(d) \ {p})]
    <3>1. p \in Outstanding(d) /\ Outstanding(d) \in SUBSET Path
      BY <1>0 DEF Outstanding, Entry
    <3>2. Cardinality(Outstanding(d) \ {p}) = missing[d] - 1
      BY <1>0, <3>1, PathSets, FS_RemoveElement DEF IInv, MissingIsExact
    <3> QED
      BY <1>0, <3>2 DEF Discount
  <2> QED
    BY <1>0, <1>2, <2>1, <2>2, OnFinishedMaybeKeeps
<1> QED
  BY <1>1, <1>2 DEF OnUnlink

(* on_scandir.                                                             *)
LEMMA OnScandirKeeps ==
  ASSUME IInv, NEW p \in Path, OnScandir(p)
  PROVE  IInv'
<1>0. /\ uv[p].cb = "on_scandir" /\ calls = 0 /\ mode = "recursive" /\ p \in steps
      /\ uv \in [Path -> Request] /\ uv[p] \in Request /\ missing \in [Path -> Nat]
      /\ missing[p] = 0
  BY DEF OnScandir, IInv, TypeOK, RequestsHaveSteps, QuietAfterCallback, Pending, Phases,
         MissingIsExact
<1>1. Outstanding(p) = {}
  <2>1. Outstanding(p) \in SUBSET Path
    BY DEF Outstanding, Entry
  <2> QED
    BY <1>0, <2>1, PathSets DEF IInv, MissingIsExact
<1>2. CASE /\ OnFinishedMaybe(p, p, uv[p].err, missing)
           /\ UNCHANGED <<tree, env, created, mode>>
  <2>1. Pending(p) /\ p = StepOf(p) /\ uv[p].err \in Err
    BY <1>0 DEF Pending, StepOf, Request
  <2>2. missing = [missing EXCEPT ![p] = Cardinality(Outstanding(p) \ {p})]
    BY <1>0, <1>1, FS_EmptySet
  <2> QED
    BY <1>0, <1>2, <2>1, <2>2, OnFinishedMaybeKeeps
<1>3. CASE /\ uv[p].list # {}
           /\ uv' = [q \in Path |->
                       IF q = p THEN Idle
                       ELSE IF q \in Joined(uv[p].list) THEN RmReq
                       ELSE uv[q]]
           /\ missing' = [missing EXCEPT ![p] = @ + Counted(uv[p].list)]
           /\ UNCHANGED <<steps, result, calls, status>>
           /\ UNCHANGED <<tree, env, created, mode>>
  <2> DEFINE J == Joined(uv[p].list)
  <2>1. \A q \in J : q \in Entry /\ Parent(q) = p /\ q # p /\ q \notin steps
    BY <1>0, <1>1, ParentFacts DEF Joined, IInv, ListsHoldEntries, Outstanding
  <2>2. /\ RmReq \in Request /\ RmReq.cb = "on_unlink" /\ RmReq.buf = "heap"
        /\ Idle \in Request /\ Idle.cb = "none"
    BY SubmitFacts DEF RmReq, Callbacks
  <2>3. J \in SUBSET Path /\ Cardinality(J) \in Nat
    BY <2>1, PathSets DEF Entry
  <2>4. Counted(uv[p].list) = Cardinality(J)
    BY DEF Counted
  <2>5. /\ missing' \in [Path -> Nat] /\ missing'[p] = Cardinality(J)
        /\ \A q \in Path : q # p => missing'[q] = missing[q]
    <3> HIDE DEF J
    <3> QED
      BY <1>0, <1>3, <2>3, <2>4
  <2>6. uv' \in [Path -> Request]
    BY <1>0, <1>3, <2>2
  <2>7. TypeOK'
    BY <1>3, <2>5, <2>6 DEF IInv, TypeOK
  <2>8. (Phases /\ ListsHoldEntries /\ ClosedSteps)'
    BY <1>0, <1>3, <2>2 DEF IInv, Phases, ListsHoldEntries, ClosedSteps
  <2>9. RequestsHaveSteps'
    BY <1>0, <1>3, <2>1, <2>2 DEF IInv, RequestsHaveSteps
  <2>10. MissingIsExact'
    <3>1. SUFFICES ASSUME NEW d \in steps
                   PROVE  /\ missing'[d] = Cardinality(Outstanding(d)')
                          /\ uv'[d].cb # "none" => missing'[d] = 0
      BY <1>3 DEF MissingIsExact, Pending
    <3>2. d \in Path
      BY DEF IInv, TypeOK
    <3>3. CASE d = p
      <4>1. Outstanding(p)' = J
        <5>1. \A q \in J : q \in Outstanding(p)'
          BY <1>3, <2>1, <2>2, <2>3 DEF Outstanding
        <5>2. \A q \in Outstanding(p)' : q \in J
          BY <1>1, <1>3, <2>2 DEF Outstanding, Entry
        <5> QED
          BY <5>1, <5>2
      <4> QED
        BY <1>3, <2>2, <2>5, <3>2, <3>3, <4>1
    <3>4. CASE d # p
      <4>1. Outstanding(d)' = Outstanding(d)
        BY <1>0, <1>3, <2>1, <2>2, <3>4 DEF Outstanding, Entry
      <4>2. uv'[d] = uv[d]
        BY <1>3, <2>1, <3>2, <3>4
      <4> QED
        BY <2>5, <3>2, <3>4, <4>1, <4>2 DEF IInv, MissingIsExact, Pending
    <3> QED
      BY <3>3, <3>4
  <2>11. (FreesOnlyHeap /\ QuietAfterCallback)'
    BY <1>0, <1>3, <2>2
       DEF IInv, FreesOnlyHeap, QuietAfterCallback, Pending, StepOf
  <2> QED
    BY <2>7, <2>8, <2>9, <2>10, <2>11 DEF IInv
<1> QED
  BY <1>2, <1>3 DEF OnScandir

(* on_rmdir_recursive.                                                     *)
LEMMA OnRmdirRecursiveKeeps ==
  ASSUME IInv, NEW p \in Path, OnRmdirRecursive(p)
  PROVE  IInv'
<1>0. /\ uv[p].cb = "on_rmdir_recursive" /\ calls = 0 /\ mode = "recursive" /\ p \in steps
      /\ uv \in [Path -> Request] /\ uv[p] \in Request /\ missing \in [Path -> Nat]
      /\ missing[p] = 0
  BY DEF OnRmdirRecursive, IInv, TypeOK, RequestsHaveSteps, QuietAfterCallback, Pending,
         Phases, MissingIsExact
<1>1. Outstanding(p) = {}
  <2>1. Outstanding(p) \in SUBSET Path
    BY DEF Outstanding, Entry
  <2> QED
    BY <1>0, <2>1, PathSets DEF IInv, MissingIsExact
<1>2. CASE /\ OnFinishedMaybe(p, p, uv[p].err, missing)
           /\ UNCHANGED <<tree, env, created, mode>>
  <2>1. Pending(p) /\ p = StepOf(p) /\ uv[p].err \in Err
    BY <1>0 DEF Pending, StepOf, Request
  <2>2. missing = [missing EXCEPT ![p] = Cardinality(Outstanding(p) \ {p})]
    BY <1>0, <1>1, FS_EmptySet
  <2> QED
    BY <1>0, <1>2, <2>1, <2>2, OnFinishedMaybeKeeps
<1>3. CASE /\ uv' = [uv EXCEPT ![p] = Submit("on_scandir", uv[p].buf)]
           /\ UNCHANGED <<steps, missing, result, calls, status>>
           /\ UNCHANGED <<tree, env, created, mode>>
  <2>1. /\ Submit("on_scandir", uv[p].buf) \in Request
        /\ Submit("on_scandir", uv[p].buf).cb = "on_scandir"
        /\ Submit("on_scandir", uv[p].buf).buf = uv[p].buf
        /\ Submit("on_scandir", uv[p].buf).list = {}
    BY <1>0, SubmitFacts DEF Callbacks, Request
  <2>2. /\ uv' \in [Path -> Request] /\ uv'[p].cb = "on_scandir"
        /\ uv'[p].buf = uv[p].buf /\ uv'[p].list = {}
        /\ \A q \in Path : q # p => uv'[q] = uv[q]
    BY <1>0, <1>3, <2>1
  <2>3. TypeOK'
    BY <1>3, <2>2 DEF IInv, TypeOK
  <2>4. (Phases /\ RequestsHaveSteps /\ ListsHoldEntries /\ ClosedSteps)'
    BY <1>0, <1>3, <2>2 DEF IInv, Phases, RequestsHaveSteps, ListsHoldEntries, ClosedSteps
  <2>5. \A d : Outstanding(d)' = Outstanding(d)
    BY <1>0, <1>3, <2>2 DEF Outstanding, Entry
  <2>6. MissingIsExact'
    BY <1>0, <1>3, <2>2, <2>5 DEF IInv, TypeOK, MissingIsExact, Pending
  <2>7. (FreesOnlyHeap /\ QuietAfterCallback)'
    BY <1>0, <1>3, <2>2 DEF IInv, FreesOnlyHeap, QuietAfterCallback, Pending, StepOf
  <2> QED
    BY <2>3, <2>4, <2>6, <2>7 DEF IInv
<1> QED
  BY <1>2, <1>3 DEF OnRmdirRecursive

(* on_rmdir.                                                               *)
LEMMA OnRmdirKeeps ==
  ASSUME IInv, OnRmdir
  PROVE  IInv'
<1>0. /\ uv[Top].cb = "on_rmdir" /\ Top \in Path /\ calls = 0 /\ mode = "plain" /\ steps = {}
      /\ uv \in [Path -> Request] /\ uv[Top] \in Request
  BY PathAssumption
     DEF OnRmdir, IInv, TypeOK, RequestsHaveSteps, QuietAfterCallback, Pending, Phases
<1>1. \A p \in Path : p # Top => uv[p].cb = "none"
  BY <1>0 DEF IInv, TypeOK, RequestsHaveSteps, Request, Callbacks
<1>2. uv' \in [Path -> Request] /\ \A p \in Path : uv'[p].cb = "none"
  BY <1>0, <1>1, SubmitFacts DEF OnRmdir
<1>3. /\ calls' = 1 /\ steps' = {} /\ mode' = "plain" /\ result' \in Err /\ status' \in Err
      /\ UNCHANGED <<tree, env, created, missing>>
  BY <1>0 DEF OnRmdir, OnFinished, Retain, IInv, TypeOK, Request
<1>4. TypeOK'
  BY <1>2, <1>3 DEF IInv, TypeOK
<1>5. /\ (Phases /\ RequestsHaveSteps /\ ListsHoldEntries /\ ClosedSteps)'
      /\ (MissingIsExact /\ FreesOnlyHeap /\ QuietAfterCallback)'
  BY <1>2, <1>3 DEF Phases, RequestsHaveSteps, ListsHoldEntries, ClosedSteps, MissingIsExact,
                    FreesOnlyHeap, QuietAfterCallback, Pending
<1> QED
  BY <1>4, <1>5 DEF IInv

LEMMA StutterKeeps ==
  ASSUME IInv, UNCHANGED vars
  PROVE  IInv'
<1>1. /\ tree' = tree /\ env' = env /\ created' = created /\ mode' = mode /\ steps' = steps
      /\ missing' = missing /\ uv' = uv /\ result' = result /\ calls' = calls
      /\ status' = status
  BY DEF vars
<1> QED
  BY <1>1, WorkerKeeps DEF IInv, TypeOK, ListsHoldEntries

-----------------------------------------------------------------------------
(* The theorems.                                                           *)

(* IInv holds in every state of every behaviour.                           *)
THEOREM Invariance == Spec => []IInv
<1>1. Init => IInv
  BY InitEstablishes
<1>2. IInv /\ [Next]_vars => IInv'
  <2>1. SUFFICES ASSUME IInv, Next PROVE IInv'
    BY StutterKeeps
  <2>2. CASE \E recursive \in BOOLEAN : Call(recursive)
    BY <2>1, <2>2, CallKeeps
  <2>3. CASE \E p \in Path : WorkUnlink(p) \/ WorkRmdir(p) \/ WorkScandir(p)
    BY <2>1, <2>3, WorkKeeps DEF Worker
  <2>4. CASE \E p \in Path : OnUnlink(p)
    BY <2>1, <2>4, OnUnlinkKeeps
  <2>5. CASE \E p \in Path : OnScandir(p)
    BY <2>1, <2>5, OnScandirKeeps
  <2>6. CASE \E p \in Path : OnRmdirRecursive(p)
    BY <2>1, <2>6, OnRmdirRecursiveKeeps
  <2>7. CASE OnRmdir
    BY <2>1, <2>7, OnRmdirKeeps
  <2>8. CASE \E p \in Path :
               (\E k \in {Dir} \cup File : OtherCreates(p, k)) \/ OtherRemoves(p)
    BY <2>1, <2>8, OthersKeep
  <2> QED
    BY <2>1, <2>2, <2>3, <2>4, <2>5, <2>6, <2>7, <2>8 DEF Next
<1> QED
  BY <1>1, <1>2, PTL DEF Spec

(* Every variable keeps its type; missing never goes below zero.           *)
THEOREM TypeCorrect == Spec => []TypeOK
<1>1. IInv => TypeOK
  BY DEF IInv
<1> QED
  BY <1>1, Invariance, PTL

(* A step counts exactly the entries that will still report to it          *)
(* (src/rmdir.c:40, 47-52, 92, 138).                                       *)
THEOREM CountsAreExact == Spec => []MissingIsExact
<1>1. IInv => MissingIsExact
  BY DEF IInv
<1> QED
  BY <1>1, Invariance, PTL

(* No callback reaches a freed step (src/rmdir.c:35-36, 47, 65).           *)
THEOREM StepsOutliveRequests == Spec => []NoDanglingStep
<1>1. ASSUME IInv PROVE NoDanglingStep
  <2>1. ASSUME NEW p \in Path, Pending(p), mode = "recursive" PROVE StepOf(p) \in steps
    <3>1. uv[p] \in Request
      BY <1>1 DEF IInv, TypeOK
    <3> QED
      BY <1>1, <2>1, <3>1 DEF IInv, RequestsHaveSteps, StepOf, Pending, Request, Callbacks
  <2>2. ASSUME NEW d \in steps, d # Top PROVE Parent(d) \in steps
    BY <1>1, <2>2, ParentIsLive DEF IInv
  <2> QED
    BY <2>1, <2>2 DEF NoDanglingStep
<1> QED
  BY <1>1, Invariance, PTL

(* Only malloc'ed requests are freed (src/rmdir.c:60).                     *)
THEOREM OnlyHeapIsFreed == Spec => []FreesOnlyHeap
<1>1. IInv => FreesOnlyHeap
  BY DEF IInv
<1> QED
  BY <1>1, Invariance, PTL

(* The callback of the caller is the last thing that happens, and happens  *)
(* at most once (src/rmdir.c:22-29).                                       *)
THEOREM CallbackIsLast == Spec => []QuietAfterCallback
<1>1. IInv => QuietAfterCallback
  BY DEF IInv
<1> QED
  BY <1>1, Invariance, PTL

-----------------------------------------------------------------------------
(* The refinement of TreeRemoval.                                          *)
(*                                                                         *)
(* What makes the callback's OK true is not visible while requests are     *)
(* under way: as long as no error was retained, every file that was there  *)
(* from the start lies below a path some request will still account for.   *)
(* When the last request ends there is nobody left to account for it.      *)

(* The request of path q still answers for what is at p below it: it has   *)
(* not run, or failed, or has listed an entry on the way to p.             *)
Covers(q, p) ==
  /\ uv[q].cb # "none"
  /\ \/ ~uv[q].done
     \/ uv[q].err # OK
     \/ uv[q].cb = "on_scandir" /\ \E c \in uv[q].list : IsPrefix(c, p)

(* Nobody has to remove p.                                                 *)
Excused(p) == p \in created \/ \E q \in env.toolong : IsPrefix(q, p)

FilesAreCovered ==
  mode = "recursive" /\ calls = 0 /\ result = OK =>
     \A p \in Files(tree) :
        Excused(p) \/ \E q \in Path : IsPrefix(q, p) /\ Covers(q, p)

(* A plain call retains no error before its only callback, and its rmdir   *)
(* was the last thing to happen to the directory.                          *)
PlainIsDone ==
  mode = "plain" /\ calls = 0 =>
     /\ result = OK
     /\ uv[Top].done /\ uv[Top].err = OK => tree[Top] = Missing

(* A scandir that failed listed nothing.                                   *)
FailedListsAreEmpty ==
  \A p \in Path : uv[p].cb = "on_scandir" /\ uv[p].err # OK => uv[p].list = {}

RInv == WellFormed(tree) /\ FilesAreCovered /\ PlainIsDone /\ FailedListsAreEmpty

-----------------------------------------------------------------------------
(* What a step of the specification is to TreeRemoval.                     *)

(* The file system TreeRemoval speaks of is the one of fs_rmdir.           *)
LEMMA SameTree ==
  /\ Removal!OK = OK /\ Removal!Missing = Missing /\ Removal!Dir = Dir
  /\ Removal!Top = Top /\ Removal!Tree = Tree
  /\ \A t : Removal!WellFormed(t) = WellFormed(t) /\ Removal!Files(t) = Files(t)
  /\ \A t, p : /\ Removal!Children(t, p) = Children(t, p)
               /\ Removal!Without(t, p) = Without(t, p)
  /\ \A p : Removal!Parent(p) = Parent(p)
  /\ \A p : Removal!Excused(p) = Excused(p)
<1>1. /\ Removal!OK = OK /\ Removal!Missing = Missing /\ Removal!Dir = Dir
      /\ Removal!Top = Top /\ Removal!Entry = Entry /\ Removal!Kind = Kind
  BY DEF Removal!OK, OK, Removal!Missing, Missing, Removal!Dir, Dir, Removal!Top, Top,
         Removal!Entry, Entry, Removal!Kind, Kind
<1>2. \A p : Removal!Parent(p) = Parent(p)
  BY DEF Removal!Parent, Parent
<1>3. Removal!Tree = Tree
  BY <1>1 DEF Removal!Tree, Tree
<1>4. \A t : Removal!WellFormed(t) = WellFormed(t) /\ Removal!Files(t) = Files(t)
  BY <1>1, <1>2 DEF Removal!WellFormed, WellFormed, Removal!Files, Files
<1>5. \A t, p : /\ Removal!Children(t, p) = Children(t, p)
                /\ Removal!Without(t, p) = Without(t, p)
  BY <1>1, <1>2 DEF Removal!Children, Children, Removal!Without, Without
<1>6. \A p : Removal!Excused(p) = Excused(p)
  BY DEF Removal!Excused, Excused, Removal!IsPrefix, IsPrefix
<1> QED
  BY <1>1, <1>2, <1>3, <1>4, <1>5, <1>6

(* An entry that holds no other goes.                                      *)
LEMMA RemovalIsAllowed ==
  ASSUME mode # "idle", calls = 0, NEW p \in Path,
         tree[p] # Missing, Children(tree, p) = {}, tree' = Without(tree, p),
         UNCHANGED <<env, created, mode, calls, status>>
  PROVE  Removal!Next
<1>1. Removal!RemoveEntry(p)
  BY SameTree DEF Removal!RemoveEntry, Removal!Running
<1> QED
  BY <1>1 DEF Removal!Next

(* What is not seen.                                                       *)
LEMMA Hidden ==
  ASSUME UNCHANGED <<tree, env, created, mode>>, calls' = 0, calls = 0
  PROVE  UNCHANGED Removal!vars
BY DEF Removal!vars

(* The callback of the caller.                                             *)
LEMMA OutcomeIsAllowed ==
  ASSUME mode # "idle", calls = 0, OnFinished,
         UNCHANGED <<tree, env, created, mode>>, result' \in Err,
         result' = OK => IF mode = "recursive" THEN \A p \in Files(tree) : Excused(p)
                                               ELSE tree[Top] = Missing
  PROVE  Removal!Next
<1>1. /\ Removal!Running
      /\ (IF calls = 0 THEN "none" ELSE status)' = result'
      /\ UNCHANGED <<tree, created, mode # "idle", mode = "recursive", env.toolong>>
  BY DEF OnFinished, Removal!Running
<1>2. CASE result' = OK
  <2>1. Removal!Succeed
    BY <1>1, <1>2, SameTree DEF Removal!Succeed
  <2> QED
    BY <2>1 DEF Removal!Next
<1>3. CASE result' # OK
  <2>1. "none" # result'
    BY DEF Err, OK
  <2>2. Removal!Fail
    BY <1>1, <1>3, <2>1, SameTree DEF Removal!Fail
  <2> QED
    BY <2>2 DEF Removal!Next
<1> QED
  BY <1>2, <1>3

-----------------------------------------------------------------------------
(* The steps keep RInv, and are steps of TreeRemoval or stutter.           *)

Refines == RInv' /\ [Removal!Next]_Removal!vars

(* How cover passes from one state to the next.                            *)
LEMMA CoverPasses ==
  ASSUME RInv, env' = env, created \subseteq created',
         Files(tree') \subseteq Files(tree) \cup created',
         mode' = "recursive" /\ calls' = 0 /\ result' = OK =>
           /\ mode = "recursive" /\ calls = 0 /\ result = OK
           /\ \A p \in Files(tree'), q \in Path :
                IsPrefix(q, p) /\ Covers(q, p) =>
                  \/ Excused(p)
                  \/ \E r \in Path : IsPrefix(r, p) /\ Covers(r, p)'
  PROVE  FilesAreCovered'
<1> SUFFICES ASSUME mode' = "recursive", calls' = 0, result' = OK,
                    NEW p \in Files(tree'), ~Excused(p)'
             PROVE  \E r \in Path : IsPrefix(r, p) /\ Covers(r, p)'
  BY DEF FilesAreCovered, Files
<1>1. p \in Files(tree) /\ ~Excused(p)
  BY DEF Excused
<1>2. PICK q \in Path : IsPrefix(q, p) /\ Covers(q, p)
  BY <1>1 DEF RInv, FilesAreCovered
<1> QED
  BY <1>1, <1>2

(* Removing an entry that holds no other takes it from the files, and      *)
(* leaves none that it is a prefix of.                                     *)
LEMMA RemovalLeaves ==
  ASSUME tree \in Tree, WellFormed(tree), NEW p \in Path, Children(tree, p) = {},
         tree' = Without(tree, p)
  PROVE  /\ WellFormed(tree') /\ tree'[p] = Missing
         /\ Files(tree') \subseteq Files(tree)
         /\ \A f \in Files(tree') : ~IsPrefix(p, f)
<1>1. WellFormed(tree')
  BY ChangeKeepsForm DEF Without, Kind
<1>2. tree'[p] = Missing /\ \A q \in Path : q # p => tree'[q] = tree[q]
  BY DEF Without, Tree
<1>3. ASSUME NEW f \in Files(tree')
      PROVE  f \in Files(tree) /\ ~IsPrefix(p, f)
  <2>1. f \in Path /\ tree'[f] \in File /\ f # p
    BY <1>2, KindFacts DEF Files
  <2>2. tree[f] \in File /\ tree[f] # Missing
    BY <1>2, <2>1, KindFacts
  <2> QED
    BY <2>1, <2>2, NothingBelowLeaf DEF Files
<1> QED
  BY <1>1, <1>2, <1>3

(* What a worker stores, in full.                                          *)
LEMMA RanStores ==
  ASSUME uv \in [Path -> Request], NEW p \in Path, NEW err \in Err,
         NEW list \in SUBSET Entry
  PROVE  /\ Ran(p, err, list)[p].done
         /\ Ran(p, err, list)[p].err = err
         /\ Ran(p, err, list)[p].list = list
         /\ Ran(p, err, list)[p].cb = uv[p].cb
         /\ \A q \in Path : q # p => Ran(p, err, list)[q] = uv[q]
BY DEF Ran, Request

LEMMA RemovingWorkerRefines ==
  ASSUME IInv, RInv, NEW p \in Path, WorkUnlink(p) \/ WorkRmdir(p)
  PROVE  Refines
<1>1. /\ uv[p].cb # "none" /\ uv[p].cb # "on_scandir" /\ ~uv[p].done
      /\ UNCHANGED <<env, created, mode, steps, missing, result, calls, status>>
  BY DEF WorkUnlink, WorkRmdir
<1>2. /\ mode # "idle" /\ calls = 0 /\ tree \in Tree /\ uv \in [Path -> Request]
      /\ WellFormed(tree)
  BY <1>1 DEF IInv, RInv, Phases, QuietAfterCallback, Pending, TypeOK
<1>3. ASSUME mode = "plain" PROVE p = Top
  BY <1>1, <1>3 DEF IInv, Phases, RequestsHaveSteps, WorkUnlink, WorkRmdir
<1>4. PICK err \in Err :
                 /\ uv' = Ran(p, err, {})
                 /\ tree' = IF err = OK THEN Without(tree, p) ELSE tree
                 /\ err = OK => tree[p] # Missing /\ Children(tree, p) = {}
  <2>1. CASE WorkUnlink(p)
    <3> DEFINE err == UnlinkErr(tree, p, env.deny[p], env.onDir)
    <3>1. err = OK => (tree[p] # Missing /\ tree[p] # Dir) \/ env.onDir = OK
      BY DEF UnlinkErr, LookupErr, OK
    <3>2. env.onDir # OK
      BY DEF IInv, TypeOK, EnvType, OK
    <3>3. tree[p] # Missing /\ tree[p] # Dir => Children(tree, p) = {}
      BY <1>2 DEF Children, WellFormed
    <3>4. err = OK => tree[p] # Missing
      BY DEF UnlinkErr, LookupErr, OK
    <3>5. err \in Err
      BY ErrTypes DEF IInv, TypeOK
    <3> QED
      BY <2>1, <3>1, <3>2, <3>3, <3>4, <3>5 DEF WorkUnlink
  <2>2. CASE WorkRmdir(p)
    <3> DEFINE err == RmdirErr(tree, p, env.deny[p])
    <3>1. err = OK => tree[p] # Missing /\ Children(tree, p) = {}
      BY DEF RmdirErr, LookupErr, OK
    <3>2. err \in Err
      BY ErrTypes DEF IInv, TypeOK
    <3> QED
      BY <2>2, <3>1, <3>2 DEF WorkRmdir
  <2> QED
    BY <2>1, <2>2
<1>5. /\ uv'[p].cb = uv[p].cb /\ uv'[p].done /\ uv'[p].err = err
      /\ \A q \in Path : q # p => uv'[q] = uv[q]
  <2>1. {} \in SUBSET Entry
    OBVIOUS
  <2> QED
    BY <1>2, <1>4, <2>1, RanStores
<1>6. FailedListsAreEmpty'
  BY <1>1, <1>5 DEF RInv, FailedListsAreEmpty
<1>7. CASE err = OK
  <2>1. tree' = Without(tree, p) /\ tree[p] # Missing /\ Children(tree, p) = {}
    BY <1>4, <1>7
  <2>2. /\ WellFormed(tree') /\ tree'[p] = Missing
        /\ Files(tree') \subseteq Files(tree)
        /\ \A f \in Files(tree') : ~IsPrefix(p, f)
    BY <1>2, <2>1, RemovalLeaves
  <2>3. ASSUME NEW f \in Files(tree'), NEW q \in Path, IsPrefix(q, f), Covers(q, f)
        PROVE  Covers(q, f)'
    BY <1>5, <2>2, <2>3 DEF Covers
  <2>4. FilesAreCovered'
    BY <1>1, <2>2, <2>3, CoverPasses
  <2>5. PlainIsDone'
    BY <1>1, <1>3, <2>2 DEF RInv, PlainIsDone
  <2>6. Removal!Next
    BY <1>1, <1>2, <2>1, RemovalIsAllowed
  <2> QED
    BY <1>6, <2>2, <2>4, <2>5, <2>6 DEF Refines, RInv
<1>8. CASE err # OK
  <2>1. tree' = tree
    BY <1>4, <1>8
  <2>2. ASSUME NEW f, NEW q \in Path, Covers(q, f)
        PROVE  Covers(q, f)'
    <3>1. CASE q = p
      BY <1>1, <1>5, <1>8, <3>1 DEF Covers
    <3>2. CASE q # p
      BY <1>5, <2>2, <3>2 DEF Covers
    <3> QED
      BY <3>1, <3>2
  <2>3. FilesAreCovered'
    BY <1>1, <2>1, <2>2, CoverPasses
  <2>4. PlainIsDone'
    BY <1>1, <1>3, <1>5, <1>8 DEF RInv, PlainIsDone
  <2>5. UNCHANGED Removal!vars
    BY <1>1, <1>2, <2>1, Hidden
  <2> QED
    BY <1>2, <1>6, <2>1, <2>3, <2>4, <2>5 DEF Refines, RInv
<1> QED
  BY <1>7, <1>8

LEMMA ScanningWorkerRefines ==
  ASSUME IInv, RInv, NEW p \in Path, WorkScandir(p)
  PROVE  Refines
<1>1. /\ uv[p].cb = "on_scandir" /\ ~uv[p].done
      /\ UNCHANGED <<tree, env, created, mode, steps, missing, result, calls, status>>
  BY DEF WorkScandir
<1>2. /\ mode = "recursive" /\ calls = 0 /\ uv \in [Path -> Request]
      /\ WellFormed(tree)
  BY <1>1 DEF IInv, RInv, Phases, RequestsHaveSteps, QuietAfterCallback, Pending, TypeOK
<1> DEFINE err == ScandirErr(tree, p, p \notin env.unreadable)
           list == IF err = OK THEN Children(tree, p) ELSE {}
<1>3. err = OK => tree[p] = Dir
  BY DEF ScandirErr, LookupErr, OK
<1>4. uv' = Ran(p, err, list)
  BY DEF WorkScandir
<1>5. /\ uv'[p].cb = "on_scandir" /\ uv'[p].err = err /\ uv'[p].list = list
      /\ \A q \in Path : q # p => uv'[q] = uv[q]
  <2>1. err \in Err /\ list \in SUBSET Entry
    BY ErrTypes DEF IInv, TypeOK, Children
  <2> HIDE DEF err, list
  <2> QED
    BY <1>1, <1>2, <1>4, <2>1, RanStores
<1>6. FailedListsAreEmpty'
  BY <1>5 DEF RInv, FailedListsAreEmpty
<1>7. ASSUME NEW f \in Files(tree), NEW q \in Path, IsPrefix(q, f), Covers(q, f)
      PROVE  Covers(q, f)'
  <2>1. CASE q # p
    BY <1>5, <1>7, <2>1 DEF Covers
  <2>2. CASE q = p /\ err # OK
    BY <1>5, <2>2 DEF Covers
  <2>3. CASE q = p /\ err = OK
    <3>1. f \in Path /\ tree[f] # Missing /\ tree[f] # Dir
      BY KindFacts DEF Files
    <3>2. q # f
      BY <1>3, <2>3, <3>1
    <3>3. PICK c \in Entry : Parent(c) = q /\ IsPrefix(c, f)
      BY <1>7, <3>1, <3>2, EntryTowards
    <3>4. c \in Path /\ tree[c] # Missing
      BY <1>2, <3>1, <3>3, AboveIsDir, KindFacts DEF Entry
    <3>5. c \in list
      BY <2>3, <3>3, <3>4 DEF Children
    <3> HIDE DEF list
    <3> QED
      BY <1>5, <2>3, <3>3, <3>5 DEF Covers
  <2> QED
    BY <2>1, <2>2, <2>3
<1>8. FilesAreCovered'
  BY <1>1, <1>7, CoverPasses
<1>9. PlainIsDone'
  BY <1>1, <1>2 DEF PlainIsDone
<1>10. UNCHANGED Removal!vars
  BY <1>1, <1>2, Hidden
<1> QED
  BY <1>1, <1>2, <1>6, <1>8, <1>9, <1>10 DEF Refines, RInv

(* on_finished_maybe, when the request that reports answers for nothing    *)
(* any more, unless it failed.                                             *)
LEMMA OnFinishedMaybeRefines ==
  ASSUME IInv, IInv', RInv, mode = "recursive",
         NEW p \in Path, Pending(p), uv[p].done,
         uv[p].cb = "on_scandir" => uv[p].list = {},
         NEW d \in steps, NEW count,
         OnFinishedMaybe(p, d, uv[p].err, count),
         UNCHANGED <<tree, env, created, mode>>
  PROVE  Refines
<1>1. /\ calls = 0 /\ uv \in [Path -> Request] /\ uv[p] \in Request
      /\ WellFormed(tree) /\ result' \in Err
      /\ mode # "idle" /\ mode' = "recursive"
  BY DEF IInv, RInv, TypeOK, QuietAfterCallback
<1>2. /\ Idle.cb = "none"
      /\ HandedOn(p).cb = "on_rmdir_recursive" /\ ~HandedOn(p).done
  BY <1>1, SubmitFacts DEF HandedOn, Callbacks, Request
<1>3. d # Top => Parent(d) \in Path
  BY ParentIsLive DEF IInv, TypeOK
<1>4. /\ uv'[p].cb # "on_scandir"
      /\ \A q \in Path : q # p =>
           uv'[q] = uv[q] \/ (uv'[q].cb = "on_rmdir_recursive" /\ ~uv'[q].done)
  <2> DEFINE h == HandedOn(p)
  <2>1. \/ uv' = [uv EXCEPT ![p] = Idle]
        \/ d # Top /\ uv' = [uv EXCEPT ![p] = Idle, ![Parent(d)] = h]
    BY DEF OnFinishedMaybe
  <2>2. h.cb = "on_rmdir_recursive" /\ ~h.done
    BY <1>2
  <2> HIDE DEF h
  <2> QED
    BY <1>1, <1>2, <1>3, <2>1, <2>2
<1>5. ASSUME result' = OK
      PROVE  result = OK /\ \A f : ~Covers(p, f)
  <2>1. uv[p].err = OK /\ result = OK
    BY <1>5 DEF OnFinishedMaybe, Retain
  <2> QED
    BY <2>1 DEF Covers
<1>6. FailedListsAreEmpty'
  BY <1>4 DEF RInv, FailedListsAreEmpty
<1>7. PlainIsDone'
  BY <1>1 DEF PlainIsDone
<1>8. CASE UNCHANGED <<calls, status>>
  <2>1. ASSUME result' = OK, NEW f, NEW q \in Path, Covers(q, f)
        PROVE  Covers(q, f)'
    <3>1. q # p
      BY <1>5, <2>1
    <3>2. CASE uv'[q] = uv[q]
      BY <2>1, <3>2 DEF Covers
    <3>3. CASE uv'[q].cb = "on_rmdir_recursive" /\ ~uv'[q].done
      BY <3>3 DEF Covers
    <3> QED
      BY <1>4, <3>1, <3>2, <3>3
  <2>2. FilesAreCovered'
    BY <1>1, <1>5, <1>8, <2>1, CoverPasses
  <2>3. UNCHANGED Removal!vars
    BY <1>1, <1>8, Hidden
  <2> QED
    BY <1>1, <1>6, <1>7, <2>2, <2>3 DEF Refines, RInv
<1>9. CASE OnFinished
  <2>1. calls' = 1 /\ \A q \in Path : uv'[q].cb = "none"
    BY <1>1, <1>9 DEF OnFinished, IInv, QuietAfterCallback, Pending
  <2>2. FilesAreCovered'
    BY <2>1 DEF FilesAreCovered
  <2>3. ASSUME result' = OK, NEW f \in Files(tree) PROVE Excused(f)
    <3>1. SUFFICES ASSUME NEW q \in Path, Covers(q, f) PROVE FALSE
      BY <1>1, <1>5, <2>3 DEF RInv, FilesAreCovered
    <3>2. q # p
      BY <1>5, <2>3, <3>1
    <3> QED
      BY <1>4, <2>1, <3>1, <3>2 DEF Covers
  <2>4. Removal!Next
    BY <1>1, <1>9, <2>3, OutcomeIsAllowed
  <2> QED
    BY <1>1, <1>6, <1>7, <2>2, <2>4 DEF Refines, RInv
<1> QED
  BY <1>8, <1>9 DEF OnFinishedMaybe

(* A callback that submits other requests in the place of its own, which   *)
(* answer for all its own did.                                             *)
LEMMA ResubmissionRefines ==
  ASSUME IInv, RInv, NEW p \in Path, uv[p].cb # "none", mode = "recursive",
         UNCHANGED <<tree, env, created, mode, result, calls, status>>,
         FailedListsAreEmpty',
         \A f \in Files(tree), q \in Path : IsPrefix(q, f) /\ Covers(q, f) =>
            Excused(f) \/ \E r \in Path : IsPrefix(r, f) /\ Covers(r, f)'
  PROVE  Refines
<1>1. calls = 0 /\ WellFormed(tree')
  BY DEF IInv, TypeOK, RInv, QuietAfterCallback, Pending
<1>2. FilesAreCovered'
  BY <1>1, CoverPasses
<1>3. PlainIsDone'
  BY DEF PlainIsDone
<1>4. UNCHANGED Removal!vars
  BY <1>1, Hidden
<1> QED
  BY <1>1, <1>2, <1>3, <1>4 DEF Refines, RInv

LEMMA OnUnlinkRefines ==
  ASSUME IInv, IInv', RInv, NEW p \in Path, OnUnlink(p)
  PROVE  Refines
<1>1. /\ uv[p].cb = "on_unlink" /\ uv[p].done /\ mode = "recursive" /\ Parent(p) \in steps
      /\ uv \in [Path -> Request] /\ uv[p] \in Request
      /\ UNCHANGED <<tree, env, created, mode>>
  BY DEF OnUnlink, IInv, TypeOK, RequestsHaveSteps, Phases
<1>2. CASE OnFinishedMaybe(p, Parent(p), uv[p].err, Discount(Parent(p)))
  BY <1>1, <1>2, OnFinishedMaybeRefines DEF Pending
<1>3. CASE /\ uv' = [uv EXCEPT ![p] = Submit("on_rmdir_recursive", uv[p].buf)]
           /\ UNCHANGED <<result, calls, status>>
  <2> DEFINE new == Submit("on_rmdir_recursive", uv[p].buf)
  <2>1. new.cb = "on_rmdir_recursive" /\ ~new.done
    BY <1>1, SubmitFacts DEF Callbacks, Request
  <2>2. /\ uv'[p].cb = "on_rmdir_recursive" /\ ~uv'[p].done
        /\ \A q \in Path : q # p => uv'[q] = uv[q]
    <3>1. uv' = [uv EXCEPT ![p] = new]
      BY <1>3
    <3> HIDE DEF new
    <3> QED
      BY <1>1, <2>1, <3>1
  <2>3. FailedListsAreEmpty'
    BY <2>2 DEF RInv, FailedListsAreEmpty
  <2>4. \A f, q \in Path : Covers(q, f) => Covers(q, f)'
    BY <2>2 DEF Covers
  <2>5. \A f \in Files(tree), q \in Path : IsPrefix(q, f) /\ Covers(q, f) =>
            \E r \in Path : IsPrefix(r, f) /\ Covers(r, f)'
    BY <2>4 DEF Files
  <2> QED
    BY <1>1, <1>3, <2>3, <2>5, ResubmissionRefines
<1> QED
  BY <1>2, <1>3 DEF OnUnlink

LEMMA OnScandirRefines ==
  ASSUME IInv, IInv', RInv, NEW p \in Path, OnScandir(p)
  PROVE  Refines
<1>1. /\ uv[p].cb = "on_scandir" /\ uv[p].done /\ mode = "recursive" /\ p \in steps
      /\ uv \in [Path -> Request] /\ uv[p] \in Request
      /\ UNCHANGED <<tree, env, created, mode>>
  BY DEF OnScandir, IInv, TypeOK, RequestsHaveSteps, Phases
<1>2. CASE uv[p].list = {} /\ OnFinishedMaybe(p, p, uv[p].err, missing)
  BY <1>1, <1>2, OnFinishedMaybeRefines DEF Pending
<1>3. CASE /\ uv[p].list # {}
           /\ uv' = [q \in Path |->
                       IF q = p THEN Idle
                       ELSE IF q \in Joined(uv[p].list) THEN RmReq
                       ELSE uv[q]]
           /\ UNCHANGED <<result, calls, status>>
  <2>1. RmReq.cb = "on_unlink" /\ ~RmReq.done /\ Idle.cb = "none"
    BY SubmitFacts DEF RmReq, Callbacks
  <2>2. uv[p].err = OK
    BY <1>1, <1>3 DEF RInv, FailedListsAreEmpty
  <2>3. \A c \in uv[p].list : c \in Path /\ c # p
    BY <1>1, ParentFacts DEF IInv, ListsHoldEntries
  <2>4. FailedListsAreEmpty'
    BY <1>3, <2>1 DEF RInv, FailedListsAreEmpty
  <2>5. ASSUME NEW f \in Files(tree), NEW q \in Path, IsPrefix(q, f), Covers(q, f)
        PROVE  Excused(f) \/ \E r \in Path : IsPrefix(r, f) /\ Covers(r, f)'
    <3>1. CASE q # p /\ q \notin Joined(uv[p].list)
      BY <1>3, <2>5, <3>1 DEF Covers
    <3>2. CASE q # p /\ q \in Joined(uv[p].list)
      BY <1>3, <2>1, <2>5, <3>2 DEF Covers
    <3>3. CASE q = p
      <4>1. PICK c \in uv[p].list : IsPrefix(c, f)
        BY <1>1, <2>2, <2>5, <3>3 DEF Covers
      <4>2. CASE c \in env.toolong
        BY <4>1, <4>2 DEF Excused
      <4>3. CASE c \notin env.toolong
        <5>1. c \in Joined(uv[p].list)
          BY <4>1, <4>3 DEF Joined
        <5> QED
          BY <1>3, <2>1, <2>3, <4>1, <5>1 DEF Covers
      <4> QED
        BY <4>2, <4>3
    <3> QED
      BY <3>1, <3>2, <3>3
  <2> QED
    BY <1>1, <1>3, <2>4, <2>5, ResubmissionRefines
<1> QED
  BY <1>2, <1>3 DEF OnScandir

LEMMA OnRmdirRecursiveRefines ==
  ASSUME IInv, IInv', RInv, NEW p \in Path, OnRmdirRecursive(p)
  PROVE  Refines
<1>1. /\ uv[p].cb = "on_rmdir_recursive" /\ uv[p].done /\ mode = "recursive" /\ p \in steps
      /\ uv \in [Path -> Request] /\ uv[p] \in Request
      /\ UNCHANGED <<tree, env, created, mode>>
  BY DEF OnRmdirRecursive, IInv, TypeOK, RequestsHaveSteps, Phases
<1>2. CASE OnFinishedMaybe(p, p, uv[p].err, missing)
  BY <1>1, <1>2, OnFinishedMaybeRefines DEF Pending
<1>3. CASE /\ uv' = [uv EXCEPT ![p] = Submit("on_scandir", uv[p].buf)]
           /\ UNCHANGED <<result, calls, status>>
  <2> DEFINE new == Submit("on_scandir", uv[p].buf)
  <2>1. new.cb = "on_scandir" /\ ~new.done /\ new.list = {}
    BY <1>1, SubmitFacts DEF Callbacks, Request
  <2>2. /\ uv'[p].cb = "on_scandir" /\ ~uv'[p].done /\ uv'[p].list = {}
        /\ \A q \in Path : q # p => uv'[q] = uv[q]
    <3>1. uv' = [uv EXCEPT ![p] = new]
      BY <1>3
    <3> HIDE DEF new
    <3> QED
      BY <1>1, <2>1, <3>1
  <2>3. FailedListsAreEmpty'
    BY <2>2 DEF RInv, FailedListsAreEmpty
  <2>4. \A f, q \in Path : Covers(q, f) => Covers(q, f)'
    BY <2>2 DEF Covers
  <2>5. \A f \in Files(tree), q \in Path : IsPrefix(q, f) /\ Covers(q, f) =>
            \E r \in Path : IsPrefix(r, f) /\ Covers(r, f)'
    BY <2>4 DEF Files
  <2> QED
    BY <1>1, <1>3, <2>3, <2>5, ResubmissionRefines
<1> QED
  BY <1>2, <1>3 DEF OnRmdirRecursive

LEMMA OnRmdirRefines ==
  ASSUME IInv, RInv, OnRmdir
  PROVE  Refines
<1>1. /\ uv[Top].cb = "on_rmdir" /\ uv[Top].done /\ Top \in Path
      /\ mode = "plain" /\ calls = 0 /\ uv \in [Path -> Request] /\ uv[Top] \in Request
      /\ OnFinished /\ UNCHANGED <<tree, env, created, mode>>
      /\ result' = Retain(uv[Top].err)
  BY PathAssumption
     DEF OnRmdir, IInv, TypeOK, RequestsHaveSteps, QuietAfterCallback, Pending
<1>2. result' \in Err /\ (result' = OK => tree[Top] = Missing)
  BY <1>1 DEF Retain, RInv, PlainIsDone, Request, IInv, TypeOK
<1>3. uv' = [uv EXCEPT ![Top] = Idle] /\ Idle.cb = "none"
  BY SubmitFacts DEF OnRmdir
<1>4. calls' = 1 /\ FailedListsAreEmpty' /\ PlainIsDone' /\ FilesAreCovered'
  BY <1>1, <1>3 DEF OnFinished, RInv, FailedListsAreEmpty, PlainIsDone, FilesAreCovered
<1>5. Removal!Next
  BY <1>1, <1>2, OutcomeIsAllowed
<1> QED
  BY <1>1, <1>4, <1>5 DEF Refines, RInv

LEMMA CallRefines ==
  ASSUME IInv, RInv, NEW recursive \in BOOLEAN, Call(recursive)
  PROVE  Refines
<1> DEFINE cb == IF recursive THEN "on_rmdir_recursive" ELSE "on_rmdir"
<1>1. /\ Top \in Path /\ calls = 0 /\ uv \in [Path -> Request] /\ mode = "idle"
      /\ \A p \in Path : uv[p].cb = "none"
      /\ mode' = IF recursive THEN "recursive" ELSE "plain"
      /\ uv' = [uv EXCEPT ![Top] = Submit(cb, "embedded")]
      /\ result' = OK /\ UNCHANGED <<tree, env, created, calls, status>>
  BY PathAssumption DEF Call, IInv, TypeOK, Phases, Pending
<1>2. /\ uv'[Top].cb = cb /\ ~uv'[Top].done
      /\ \A p \in Path : p # Top => uv'[p].cb = "none"
  <2>1. Submit(cb, "embedded").cb = cb /\ ~Submit(cb, "embedded").done
    BY SubmitFacts DEF Callbacks
  <2> HIDE DEF cb
  <2> QED
    BY <1>1, <2>1
<1>3. FailedListsAreEmpty'
  BY <1>2 DEF FailedListsAreEmpty
<1>4. PlainIsDone'
  BY <1>1, <1>2 DEF PlainIsDone
<1>5. FilesAreCovered'
  <2>1. \A f \in Files(tree') : IsPrefix(Top, f)
    BY TrivialPrefixes DEF Files
  <2>2. \A f : Covers(Top, f)'
    BY <1>2 DEF Covers
  <2> QED
    BY <1>1, <2>1, <2>2 DEF FilesAreCovered
<1>6. Removal!Start
  BY <1>1 DEF Removal!Start
<1> QED
  BY <1>1, <1>3, <1>4, <1>5, <1>6 DEF Refines, RInv, Removal!Next

LEMMA OtherCreatesRefines ==
  ASSUME IInv, RInv, NEW p \in Path, NEW k \in {Dir} \cup File, OtherCreates(p, k)
  PROVE  Refines
<1>1. /\ tree \in Tree /\ WellFormed(tree) /\ k \in Kind
      /\ mode # "idle" /\ calls = 0
      /\ p # Top /\ tree[p] = Missing /\ tree[Parent(p)] = Dir
      /\ tree' = [tree EXCEPT ![p] = k] /\ created' = created \cup {p}
      /\ UNCHANGED <<env, mode, steps, missing, uv, result, calls, status>>
  BY DEF OtherCreates, IInv, TypeOK, RInv, Kind
<1>2. Children(tree, p) = {}
  BY <1>1, KindFacts DEF Children, WellFormed
<1>3. WellFormed(tree')
  BY <1>1, <1>2, ChangeKeepsForm
<1>4. /\ tree'[Top] = tree[Top]
      /\ Files(tree') \subseteq Files(tree) \cup created'
  BY <1>1, TrivialPrefixes DEF Files, Tree
<1>5. \A f, q : Covers(q, f) => Covers(q, f)'
  BY <1>1 DEF Covers
<1>6. FilesAreCovered'
  BY <1>1, <1>4, <1>5, CoverPasses
<1>7. PlainIsDone' /\ FailedListsAreEmpty'
  BY <1>1, <1>4 DEF RInv, PlainIsDone, FailedListsAreEmpty
<1>8. Removal!CreateEntry(p)
  BY <1>1, SameTree DEF Removal!CreateEntry, Removal!Running
<1> QED
  BY <1>3, <1>6, <1>7, <1>8 DEF Refines, RInv, Removal!Next

LEMMA OtherRemovesRefines ==
  ASSUME IInv, RInv, NEW p \in Path, OtherRemoves(p)
  PROVE  Refines
<1>1. /\ tree \in Tree /\ WellFormed(tree)
      /\ mode # "idle" /\ calls = 0
      /\ tree[p] # Missing /\ Children(tree, p) = {} /\ tree' = Without(tree, p)
      /\ UNCHANGED <<env, created, mode, steps, missing, uv, result, calls, status>>
  BY DEF OtherRemoves, IInv, TypeOK, RInv
<1>2. WellFormed(tree') /\ Files(tree') \subseteq Files(tree)
  BY <1>1, RemovalLeaves
<1>3. tree[Top] = Missing => tree'[Top] = Missing
  BY <1>1, TrivialPrefixes DEF Without, Tree
<1>4. \A f, q : Covers(q, f) => Covers(q, f)'
  BY <1>1 DEF Covers
<1>5. FilesAreCovered'
  BY <1>1, <1>2, <1>4, CoverPasses
<1>6. PlainIsDone' /\ FailedListsAreEmpty'
  BY <1>1, <1>3 DEF RInv, PlainIsDone, FailedListsAreEmpty
<1>7. Removal!Next
  BY <1>1, RemovalIsAllowed
<1> QED
  BY <1>2, <1>5, <1>6, <1>7 DEF Refines, RInv

LEMMA StutterRefines ==
  ASSUME RInv, UNCHANGED vars
  PROVE  Refines
<1>1. /\ tree' = tree /\ env' = env /\ created' = created /\ mode' = mode
      /\ uv' = uv /\ result' = result /\ calls' = calls /\ status' = status
  BY DEF vars
<1>2. UNCHANGED Removal!vars
  BY <1>1 DEF Removal!vars
<1>3. RInv'
  BY <1>1 DEF RInv, FilesAreCovered, PlainIsDone, FailedListsAreEmpty, Covers, Excused
<1> QED
  BY <1>2, <1>3 DEF Refines

(* fs_rmdir keeps the promise of TreeRemoval: between the call and the one *)
(* callback it only removes entries that hold no other, and a status of OK *)
(* means that the directory is gone (plain), or that no file it could have *)
(* reached is left (recursive: src/rmdir.c:35-69, 86-112).                 *)
THEOREM RemovalIsRefined == Spec => RefinesRemoval
<1>1. Init => RInv /\ Removal!Init
  <2> SUFFICES ASSUME Init PROVE RInv /\ Removal!Init
    OBVIOUS
  <2>1. /\ tree \in Tree /\ WellFormed(tree) /\ mode = "idle" /\ calls = 0
        /\ created = {} /\ \A p \in Path : uv[p].cb = "none"
    BY RmdirAssumption, SubmitFacts DEF Init
  <2>2. RInv
    BY <2>1 DEF RInv, FilesAreCovered, PlainIsDone, FailedListsAreEmpty
  <2>3. Removal!Init
    BY <2>1, SameTree DEF Removal!Init
  <2> QED
    BY <2>2, <2>3
<1>2. IInv /\ IInv' /\ RInv /\ [Next]_vars => RInv' /\ [Removal!Next]_Removal!vars
  <2>1. SUFFICES ASSUME IInv, IInv', RInv, Next PROVE Refines
    BY StutterRefines DEF Refines
  <2>2. CASE \E recursive \in BOOLEAN : Call(recursive)
    BY <2>1, <2>2, CallRefines
  <2>3. CASE \E p \in Path : WorkUnlink(p) \/ WorkRmdir(p)
    BY <2>1, <2>3, RemovingWorkerRefines
  <2>4. CASE \E p \in Path : WorkScandir(p)
    BY <2>1, <2>4, ScanningWorkerRefines
  <2>5. CASE \E p \in Path : OnUnlink(p)
    BY <2>1, <2>5, OnUnlinkRefines
  <2>6. CASE \E p \in Path : OnScandir(p)
    BY <2>1, <2>6, OnScandirRefines
  <2>7. CASE \E p \in Path : OnRmdirRecursive(p)
    BY <2>1, <2>7, OnRmdirRecursiveRefines
  <2>8. CASE OnRmdir
    BY <2>1, <2>8, OnRmdirRefines
  <2>9. CASE \E p \in Path, k \in {Dir} \cup File : OtherCreates(p, k)
    BY <2>1, <2>9, OtherCreatesRefines
  <2>10. CASE \E p \in Path : OtherRemoves(p)
    BY <2>1, <2>10, OtherRemovesRefines
  <2> QED
    BY <2>1, <2>2, <2>3, <2>4, <2>5, <2>6, <2>7, <2>8, <2>9, <2>10 DEF Next
<1> QED
  BY <1>1, <1>2, Invariance, PTL DEF Spec, RefinesRemoval, Removal!Spec
=============================================================================
