----------------------------- MODULE SwapProofs -----------------------------
(***************************************************************************)
(* Proofs about Swap, for any paths, any temporary names and any number of *)
(* calls and of failures.                                                  *)
(*                                                                         *)
(* A move replaces what it finds, so that nothing is lost only if there is *)
(* nothing to find.  IInv says why: the path to which a call moves is one  *)
(* the call has emptied itself, and no other call believes the same        *)
(* (Holes).                                                                *)
(***************************************************************************)
EXTENDS Swap, TLAPS

-----------------------------------------------------------------------------
(* The inductive invariant.                                                *)

Busy == {"named", "moved", "crossed"}
Names == Path \cup Temp

(* Only Windows has a call between two moves.                              *)
OnWindows == platform = "unix" => \A r \in Req : req[r].at \notin Busy

(* The temporary file of a call is empty, or is what "to" named.           *)
TempsHeld ==
  \A r \in Req :
    /\ req[r].at = "named" => file[req[r].swap] = Blank
    /\ req[r].at \in {"moved", "crossed"} => file[req[r].swap] \in had

(* A temporary file belongs to a call or is what one has left.             *)
TempsNamed ==
  \A t \in Temp : file[t] # Missing => t \in left \/ \E r \in Req : Holding(r, t)

PathsNotBlank == \A p \in Path : file[p] # Blank

Holes ==
  \A p \in Path, r \in Req : TakenFrom(r, p) =>
    file[p] = Missing /\ \A q \in Req : TakenFrom(q, p) => q = r

(* Each content is somewhere, and nowhere else.                            *)
Kept ==
  /\ \A c \in had : \E x \in Names : file[x] = c
  /\ \A x, y \in Names : file[x] = file[y] /\ file[x] \in had => x = y

IInv ==
  /\ TypeOK /\ OnWindows /\ TempsHeld /\ TempsNamed
  /\ PathsNotBlank /\ Holes /\ Kept

LEMMA InitIInv == Init => IInv
<1> SUFFICES ASSUME Init PROVE IInv
  OBVIOUS
<1> USE SwapAssumption
<1>1. TypeOK
  BY DEF Init, TypeOK, Free, Holding, At, Err
<1>2. \A r \in Req : req[r].at = "free"
  BY DEF Init, Free
<1>3. OnWindows /\ TempsHeld /\ Holes
  BY <1>2 DEF OnWindows, TempsHeld, Holes, TakenFrom, Busy
<1>4. TempsNamed /\ PathsNotBlank /\ Kept
  BY DEF Init, TempsNamed, PathsNotBlank, Kept, Names
<1> QED
  BY <1>1, <1>3, <1>4 DEF IInv

-----------------------------------------------------------------------------
(* Small facts.                                                            *)

LEMMA Under ==
  ASSUME TypeOK, NEW r \in Req, req[r].at # "free"
  PROVE  req[r] \in Call /\ req[r].from \in Path /\ req[r].to \in Path
BY DEF TypeOK, Call, Free

(* What a request is after it goes on or returns.                          *)
LEMMA Stepped ==
  ASSUME TypeOK, NEW r \in Req, req[r].at # "free",
         NEW at \in At \ {"free"}, NEW err \in Err,
         req' = [req EXCEPT ![r].at = at, ![r].err = err]
  PROVE  /\ req' \in [Req -> Call \cup {Free}]
         /\ req'[r].at = at
         /\ req'[r].from = req[r].from /\ req'[r].to = req[r].to /\ req'[r].swap = req[r].swap
         /\ \A q \in Req \ {r} : req'[q] = req[q]
BY Under DEF TypeOK, Call

(* A move to a name that has nothing to lose loses nothing.                *)
LEMMA MovedKeeps ==
  ASSUME TypeOK, Kept, had' = had,
         NEW from \in Names, NEW to \in Names, from # to, file[to] \notin had,
         file' = Moved(from, to)
  PROVE  Kept'
<1>1. /\ DOMAIN file = Names
      /\ Missing \notin had
  BY SwapAssumption DEF TypeOK, Names
<1>2. /\ file'[to] = file[from] /\ file'[from] = Missing
      /\ \A x \in Names \ {from, to} : file'[x] = file[x]
  BY <1>1 DEF Moved, TypeOK, Names
<1>3. ASSUME NEW c \in had
      PROVE  \E x \in Names : file'[x] = c
  <2>1. PICK x \in Names : file[x] = c
    BY DEF Kept
  <2>2. CASE x = from
    BY <2>1, <2>2, <1>2
  <2>3. CASE x # from
    BY <2>1, <2>3, <1>2
  <2> QED
    BY <2>2, <2>3
<1>4. ASSUME NEW x \in Names, NEW y \in Names, file'[x] = file'[y], file'[x] \in had
      PROVE  x = y
  BY <1>1, <1>2, <1>4 DEF Kept
<1> QED
  BY <1>3, <1>4 DEF Kept, Names

-----------------------------------------------------------------------------
(* Each step keeps the invariant.                                          *)

(* A system call that fails.                                               *)
LEMMA FailKeeps ==
  ASSUME IInv, NEW r \in Req, NEW err \in Err \ {"OK"}, Returns(r, err),
         req[r].at \in Busy \cup {"queued"}, file' = file,
         faults' \in 0 .. MaxFaults, UNCHANGED <<platform, dirs, had, calls>>
  PROVE  IInv'
<1> USE DEF IInv
<1>1. /\ req' \in [Req -> Call \cup {Free}] /\ req'[r].at = "done"
      /\ \A q \in Req \ {r} : req'[q] = req[q]
  BY Stepped DEF Returns, At, Busy
<1>2. left \subseteq left' /\ (req[r].at \in Busy => left' = left \cup {req[r].swap})
  BY DEF Returns, Busy
<1>3. \A t : \A q \in Req : Holding(q, t)' => q # r /\ Holding(q, t)
  BY <1>1 DEF Holding
<1>4. \A p : \A q \in Req : TakenFrom(q, p)' => q # r /\ TakenFrom(q, p)
  BY <1>1 DEF TakenFrom
<1>5. left' \subseteq Temp
  BY DEF Returns, TypeOK, Busy
<1>6. TypeOK'
  BY <1>1, <1>3, <1>5 DEF TypeOK, Busy
<1>7. OnWindows' /\ TempsHeld' /\ PathsNotBlank' /\ Kept'
  BY <1>1 DEF OnWindows, TempsHeld, PathsNotBlank, Kept, Busy, Names
<1>8. TempsNamed'
  BY <1>1, <1>2 DEF TempsNamed, Holding, Busy
<1>9. Holes'
  BY <1>4 DEF Holes
<1> QED
  BY <1>6, <1>7, <1>8, <1>9

LEMMA FailsKeeps ==
  ASSUME IInv, NEW r \in Req, req[r].at \in Busy \cup {"queued"},
         UNCHANGED <<platform, dirs, had, calls>>
  PROVE  /\ Fault(r) => IInv'
         /\ Fails(r, "ENOENT") => IInv'
         /\ Fails(r, "EACCES") => IInv'
<1>1. faults \in 0 .. MaxFaults
  BY DEF IInv, TypeOK
<1>2. Fault(r) => IInv'
  BY <1>1, FailKeeps, SwapAssumption DEF Fault, Err
<1>3. Fails(r, "ENOENT") => IInv'
  BY <1>1, FailKeeps DEF Fails, Err
<1>4. Fails(r, "EACCES") => IInv'
  BY <1>1, FailKeeps DEF Fails, Err
<1> QED
  BY <1>2, <1>3, <1>4

LEMMA FsSwapKeeps ==
  ASSUME IInv, NEW r \in Req, NEW from \in Path, NEW to \in Path, FsSwap(r, from, to)
  PROVE  IInv'
<1> USE DEF IInv
<1>1. /\ req' \in [Req -> Call \cup {Free}] /\ req'[r].at = "queued"
      /\ \A q \in Req \ {r} : req'[q] = req[q]
  BY DEF FsSwap, TypeOK, Free, Call, At, Err
<1>2. req[r].at = "free" /\ UNCHANGED <<platform, dirs, file, had, left, faults>>
  BY DEF FsSwap
<1>3. \A t : \A q \in Req : Holding(q, t)' <=> Holding(q, t)
  BY <1>1, <1>2 DEF Holding
<1>4. \A p : \A q \in Req : TakenFrom(q, p)' <=> TakenFrom(q, p)
  BY <1>1, <1>2 DEF TakenFrom
<1>5. calls' \in 0 .. MaxCalls
  BY SwapAssumption DEF FsSwap, TypeOK
<1>6. TypeOK'
  BY <1>1, <1>2, <1>3, <1>5 DEF TypeOK, Busy
<1>7. OnWindows' /\ TempsHeld' /\ PathsNotBlank' /\ Kept' /\ TempsNamed'
  BY <1>1, <1>2, <1>3 DEF OnWindows, TempsHeld, PathsNotBlank, Kept, TempsNamed, Busy, Names
<1>8. Holes'
  BY <1>2, <1>4 DEF Holes
<1> QED
  BY <1>6, <1>7, <1>8

LEMMA AfterWorkKeeps ==
  ASSUME IInv, NEW r \in Req, AfterWork(r)
  PROVE  IInv'
<1> USE DEF IInv
<1>1. /\ req' \in [Req -> Call \cup {Free}] /\ req'[r].at = "free"
      /\ \A q \in Req \ {r} : req'[q] = req[q]
  BY DEF AfterWork, TypeOK, Free
<1>2. req[r].at = "done" /\ UNCHANGED <<platform, dirs, file, had, left, calls, faults>>
  BY DEF AfterWork
<1>3. \A t : \A q \in Req : Holding(q, t)' <=> Holding(q, t)
  BY <1>1, <1>2 DEF Holding
<1>4. \A p : \A q \in Req : TakenFrom(q, p)' <=> TakenFrom(q, p)
  BY <1>1, <1>2 DEF TakenFrom
<1>5. TypeOK'
  BY <1>1, <1>2, <1>3 DEF TypeOK, Busy
<1>6. OnWindows' /\ TempsHeld' /\ PathsNotBlank' /\ Kept' /\ TempsNamed'
  BY <1>1, <1>2, <1>3 DEF OnWindows, TempsHeld, PathsNotBlank, Kept, TempsNamed, Busy, Names
<1>7. Holes'
  BY <1>2, <1>4 DEF Holes
<1> QED
  BY <1>5, <1>6, <1>7

(* The exchange of two paths in one system call.                           *)
LEMMA ExchangedKeeps ==
  ASSUME TypeOK, Kept, had' = had, NEW from \in Path, NEW to \in Path,
         file' = Exchanged(from, to)
  PROVE  Kept'
<1>1. /\ file'[to] = file[from] /\ file'[from] = file[to]
      /\ \A x \in Names \ {from, to} : file'[x] = file[x]
  BY DEF Exchanged, TypeOK, Names
<1>2. ASSUME NEW c \in had
      PROVE  \E x \in Names : file'[x] = c
  <2>1. PICK x \in Names : file[x] = c
    BY DEF Kept
  <2>2. from \in Names /\ to \in Names
    BY DEF Names
  <2> QED
    BY <1>1, <2>1, <2>2
<1>3. ASSUME NEW x \in Names, NEW y \in Names, file'[x] = file'[y], file'[x] \in had
      PROVE  x = y
  BY <1>1, <1>3 DEF Kept, Names
<1> QED
  BY <1>2, <1>3 DEF Kept, Names

LEMMA UnixSwapKeeps ==
  ASSUME IInv, NEW r \in Req, UnixSwap(r)
  PROVE  IInv'
<1>1. req[r].at = "queued" /\ platform = "unix" /\ UNCHANGED <<platform, dirs, had, calls>>
  BY DEF UnixSwap
<1> DEFINE from == req[r].from
           to == req[r].to
<1>2. CASE /\ Missing \notin {file[from], file[to]}
           /\ file' = Exchanged(from, to) /\ Returns(r, "OK") /\ UNCHANGED faults
  <2> USE DEF IInv
  <2>1. from \in Path /\ to \in Path
    BY <1>1, Under
  <2>2. /\ req' \in [Req -> Call \cup {Free}] /\ req'[r].at = "done"
        /\ \A q \in Req \ {r} : req'[q] = req[q]
    BY <1>1, <1>2, Stepped DEF Returns, At, Err
  <2>3. left' = left
    BY <1>2 DEF Returns
  <2>4. \A q \in Req : req[q].at \notin Busy /\ req'[q].at \notin Busy
    BY <1>1, <2>2 DEF OnWindows, Busy
  <2>5. file' \in [Path \cup Temp -> had \cup {Missing, Blank}]
    BY <1>2, <2>1 DEF Exchanged, TypeOK
  <2>6. TypeOK'
    BY <1>1, <1>2, <2>2, <2>3, <2>4, <2>5 DEF TypeOK, Busy
  <2>7. OnWindows' /\ TempsHeld' /\ Holes'
    BY <2>4 DEF OnWindows, TempsHeld, Holes, TakenFrom, Busy
  <2>8. /\ \A t \in Temp : file'[t] = file[t]
        /\ \A p \in Path : \E q \in Path : file'[p] = file[q]
    BY <1>2, <2>1, SwapAssumption DEF Exchanged, TypeOK
  <2>9. TempsNamed' /\ PathsNotBlank'
    BY <2>3, <2>4, <2>8 DEF TempsNamed, PathsNotBlank, Holding, Busy
  <2>10. Kept'
    BY <1>1, <1>2, <2>1, ExchangedKeeps
  <2> QED
    BY <2>6, <2>7, <2>9, <2>10
<1> QED
  BY <1>1, <1>2, FailsKeeps DEF UnixSwap

LEMMA TempPathKeeps ==
  ASSUME IInv, NEW r \in Req, TempPath(r)
  PROVE  IInv'
<1>1. req[r].at = "queued" /\ platform = "win" /\ UNCHANGED <<platform, dirs, had, calls>>
  BY DEF TempPath
<1>2. ASSUME NEW t \in Temp, Unused(t), file' = [file EXCEPT ![t] = Blank],
             req' = [req EXCEPT ![r].at = "named", ![r].swap = t], UNCHANGED <<left, faults>>
      PROVE  IInv'
  <2> USE DEF IInv
  <2>1. /\ req' \in [Req -> Call \cup {Free}] /\ req'[r].at = "named" /\ req'[r].swap = t
        /\ \A q \in Req \ {r} : req'[q] = req[q]
    BY <1>1, <1>2, Under DEF TypeOK, Call, At
  <2>2. /\ file[t] = Missing /\ file'[t] = Blank
        /\ \A x \in Names \ {t} : file'[x] = file[x]
        /\ file' \in [Path \cup Temp -> had \cup {Missing, Blank}]
    BY <1>2 DEF Unused, TypeOK, Names
  <2>3. Missing \notin had /\ Blank \notin had /\ Missing # Blank
    BY SwapAssumption DEF TypeOK
  <2>4. \A q \in Req : req[q].at \in Busy => req[q].swap \in Temp \ {t}
    BY <2>2, <2>3 DEF TypeOK, TempsHeld, Busy
  <2>5. \A u : \A q \in Req : Holding(q, u)' <=>
        \/ q = r /\ u = t
        \/ Holding(q, u)
    BY <1>1, <2>1 DEF Holding
  <2>6. \A p : \A q \in Req : TakenFrom(q, p)' <=> TakenFrom(q, p)
    BY <1>1, <2>1 DEF TakenFrom
  <2>7. ASSUME NEW q \in Req, req'[q].at \in Busy
        PROVE  req'[q].swap \in Temp /\ \A p \in Req : Holding(p, req[q].swap)' => p = q
    <3>1. ~\E p \in Req : Holding(p, t)
      BY <2>4 DEF Holding, Busy
    <3>2. CASE q = r
      BY <2>1, <2>5, <3>1, <3>2 DEF Holding
    <3>3. CASE q # r
      BY <2>1, <2>4, <2>7, <3>3 DEF TypeOK, Holding, Busy
    <3> QED
      BY <3>2, <3>3
  <2>8. TypeOK'
    BY <1>1, <1>2, <2>1, <2>2, <2>7 DEF TypeOK, Busy
  <2>9. OnWindows'
    BY <1>1 DEF OnWindows
  <2>10. TempsHeld'
    BY <1>1, <2>1, <2>2, <2>4 DEF TempsHeld, Busy, Names
  <2>11. TempsNamed'
    BY <1>2, <2>2, <2>5 DEF TempsNamed, Names
  <2>12. \A p \in Path : file'[p] = file[p]
    BY <2>2, SwapAssumption DEF Names
  <2>13. PathsNotBlank' /\ Holes'
    BY <2>6, <2>12 DEF PathsNotBlank, Holes
  <2>14. Kept'
    <3>1. \A c \in had : \E x \in Names : file'[x] = c
      BY <2>2, <2>3 DEF Kept
    <3>2. \A x, y \in Names : file'[x] = file'[y] /\ file'[x] \in had => x = y
      BY <2>2, <2>3 DEF Kept
    <3> QED
      BY <1>1, <3>1, <3>2 DEF Kept, Names
  <2> QED
    BY <2>8, <2>9, <2>10, <2>11, <2>13, <2>14
<1> QED
  BY <1>1, <1>2, FailsKeeps DEF TempPath

(* The three moves.                                                        *)
LEMMA MoveAwayKeeps ==
  ASSUME IInv, NEW r \in Req, MoveAway(r)
  PROVE  IInv'
<1> DEFINE to == req[r].to
           t == req[r].swap
<1>1. req[r].at = "named" /\ UNCHANGED <<platform, dirs, had, calls>>
  BY DEF MoveAway, Move
<1>2. CASE file[to] # Missing /\ file' = Moved(to, t) /\ Goes(r, "moved")
  <2> USE DEF IInv
  <2>1. to \in Path /\ t \in Temp /\ to # t /\ to \in Names /\ t \in Names
    BY <1>1, Under, SwapAssumption DEF TypeOK, Names
  <2>2. /\ req' \in [Req -> Call \cup {Free}] /\ req'[r].at = "moved"
        /\ req'[r].from = req[r].from /\ req'[r].to = to /\ req'[r].swap = t
        /\ \A q \in Req \ {r} : req'[q] = req[q]
    BY <1>1, <1>2, Under DEF Goes, TypeOK, Call, At
  <2>3. /\ file'[t] = file[to] /\ file'[to] = Missing
        /\ \A x \in Names \ {to, t} : file'[x] = file[x]
        /\ file' \in [Path \cup Temp -> had \cup {Missing, Blank}]
    BY <1>2, <2>1 DEF Moved, TypeOK, Names
  <2>4. Missing \notin had /\ Blank \notin had /\ Missing # Blank
    BY SwapAssumption DEF TypeOK
  <2>5. file[t] = Blank /\ file[to] \in had
    BY <1>1, <1>2, <2>1 DEF TempsHeld, TypeOK, PathsNotBlank
  <2>6. \A u : \A q \in Req : Holding(q, u)' <=> Holding(q, u)
    BY <1>1, <2>2 DEF Holding
  <2>7. \A p : \A q \in Req : TakenFrom(q, p)' <=>
        \/ q = r /\ p = to
        \/ TakenFrom(q, p)
    BY <1>1, <2>2 DEF TakenFrom
  <2>8. TypeOK'
    BY <1>1, <1>2, <2>2, <2>3, <2>6 DEF TypeOK, Goes, Busy
  <2>9. OnWindows'
    BY <1>1, <2>2 DEF OnWindows, Busy
  <2>10. \A q \in Req \ {r} : req[q].at \in Busy => req[q].swap \in Names \ {to, t}
    BY <1>1, <2>1, SwapAssumption DEF TypeOK, Holding, Busy, Names
  <2>11. TempsHeld'
    BY <1>1, <2>2, <2>3, <2>5, <2>10 DEF TempsHeld, Busy
  <2>12. TempsNamed'
    BY <1>1, <1>2, <2>1, <2>3, <2>5, <2>6 DEF TempsNamed, Goes, Holding, Names
  <2>13. PathsNotBlank'
    BY <2>1, <2>3, <2>4, SwapAssumption DEF PathsNotBlank, Names
  <2>14. Holes'
    BY <1>2, <2>1, <2>3, <2>7, SwapAssumption DEF Holes, Names
  <2>15. Kept'
    BY <1>1, <1>2, <2>1, <2>4, <2>5, MovedKeeps
  <2> QED
    BY <2>8, <2>9, <2>11, <2>12, <2>13, <2>14, <2>15
<1> QED
  BY <1>1, <1>2, FailsKeeps DEF MoveAway, Move, Busy

LEMMA MoveOverKeeps ==
  ASSUME IInv, NEW r \in Req, MoveOver(r)
  PROVE  IInv'
<1> DEFINE from == req[r].from
           to == req[r].to
           t == req[r].swap
<1>1. req[r].at = "moved" /\ UNCHANGED <<platform, dirs, had, calls>>
  BY DEF MoveOver, Move
<1>2. CASE file[from] # Missing /\ file' = Moved(from, to) /\ Goes(r, "crossed")
  <2> USE DEF IInv
  <2>1. from \in Path /\ to \in Path /\ from \in Names /\ to \in Names /\ t \in Temp
    BY <1>1, Under DEF TypeOK, Names
  <2>2. file[to] = Missing /\ from # to
    BY <1>1, <1>2, <2>1 DEF Holes, TakenFrom
  <2>3. /\ req' \in [Req -> Call \cup {Free}] /\ req'[r].at = "crossed"
        /\ req'[r].from = from /\ req'[r].to = to /\ req'[r].swap = t
        /\ \A q \in Req \ {r} : req'[q] = req[q]
    BY <1>1, <1>2, Under DEF Goes, TypeOK, Call, At
  <2>4. /\ file'[to] = file[from] /\ file'[from] = Missing
        /\ \A x \in Names \ {from, to} : file'[x] = file[x]
        /\ file' \in [Path \cup Temp -> had \cup {Missing, Blank}]
    BY <1>2, <2>1, <2>2 DEF Moved, TypeOK, Names
  <2>5. Missing \notin had /\ Blank \notin had /\ Missing # Blank
    BY SwapAssumption DEF TypeOK
  <2>6. \A u : \A q \in Req : Holding(q, u)' <=> Holding(q, u)
    BY <1>1, <2>3 DEF Holding
  <2>7. \A p : \A q \in Req : TakenFrom(q, p)' <=>
        \/ q = r /\ p = from
        \/ q # r /\ TakenFrom(q, p)
    BY <1>1, <2>3 DEF TakenFrom
  <2>8. \A q \in Req : ~TakenFrom(q, from) /\ (TakenFrom(q, to) => q = r)
    BY <1>1, <1>2, <2>1 DEF Holes, TakenFrom
  <2>9. TypeOK'
    BY <1>1, <1>2, <2>3, <2>4, <2>6 DEF TypeOK, Goes, Busy
  <2>10. OnWindows'
    BY <1>1, <2>3 DEF OnWindows, Busy
  <2>11. \A u \in Temp : file'[u] = file[u]
    BY <2>1, <2>4, SwapAssumption DEF Names
  <2>12. TempsHeld'
    BY <1>1, <2>3, <2>11 DEF TempsHeld, TypeOK, Busy
  <2>13. TempsNamed'
    BY <1>2, <2>6, <2>11 DEF TempsNamed, Goes
  <2>14. PathsNotBlank'
    BY <2>1, <2>4, <2>5 DEF PathsNotBlank, Names
  <2>15. Holes'
    BY <2>1, <2>4, <2>7, <2>8 DEF Holes, Names
  <2>16. Kept'
    BY <1>1, <1>2, <2>1, <2>2, <2>5, MovedKeeps
  <2> QED
    BY <2>9, <2>10, <2>12, <2>13, <2>14, <2>15, <2>16
<1> QED
  BY <1>1, <1>2, FailsKeeps DEF MoveOver, Move, Busy

LEMMA MoveBackKeeps ==
  ASSUME IInv, NEW r \in Req, MoveBack(r)
  PROVE  IInv'
<1> DEFINE from == req[r].from
           t == req[r].swap
<1>1. req[r].at = "crossed" /\ UNCHANGED <<platform, dirs, had, calls>>
  BY DEF MoveBack, Move
<1>2. CASE file[t] # Missing /\ file' = Moved(t, from) /\ Returns(r, "OK") /\ UNCHANGED faults
  <2> USE DEF IInv
  <2>1. from \in Path /\ t \in Temp /\ from \in Names /\ t \in Names /\ from # t
    BY <1>1, Under, SwapAssumption DEF TypeOK, Names
  <2>2. file[from] = Missing /\ file[t] \in had
    BY <1>1, <2>1 DEF Holes, TakenFrom, TempsHeld
  <2>3. /\ req' \in [Req -> Call \cup {Free}] /\ req'[r].at = "done"
        /\ \A q \in Req \ {r} : req'[q] = req[q]
    BY <1>1, <1>2, Stepped DEF Returns, At, Err
  <2>4. /\ file'[from] = file[t] /\ file'[t] = Missing
        /\ \A x \in Names \ {from, t} : file'[x] = file[x]
        /\ file' \in [Path \cup Temp -> had \cup {Missing, Blank}]
    BY <1>2, <2>1 DEF Moved, TypeOK, Names
  <2>5. Missing \notin had /\ Blank \notin had /\ Missing # Blank
    BY SwapAssumption DEF TypeOK
  <2>6. \A u : \A q \in Req : Holding(q, u)' <=> q # r /\ Holding(q, u)
    BY <2>3 DEF Holding
  <2>7. \A p : \A q \in Req : TakenFrom(q, p)' <=> q # r /\ TakenFrom(q, p)
    BY <2>3 DEF TakenFrom
  <2>8. left' = left
    BY <1>2 DEF Returns
  <2>9. \A q \in Req \ {r} : ~TakenFrom(q, from)
    BY <1>1, <2>1 DEF Holes, TakenFrom
  <2>10. TypeOK'
    BY <1>1, <1>2, <2>3, <2>4, <2>6, <2>8 DEF TypeOK, Busy
  <2>11. OnWindows'
    BY <1>1, <2>3 DEF OnWindows, Busy
  <2>12. \A q \in Req \ {r} : req[q].at \in Busy => req[q].swap \in Names \ {from, t}
    BY <1>1, <2>1, SwapAssumption DEF TypeOK, Holding, Busy, Names
  <2>13. TempsHeld'
    BY <1>1, <2>3, <2>4, <2>12 DEF TempsHeld, Busy
  <2>14. TempsNamed'
    <3>1. \A u \in Temp \ {t} : file'[u] = file[u]
      BY <2>1, <2>4, SwapAssumption DEF Names
    <3>2. \A u : Holding(r, u) => u = t
      BY DEF Holding
    <3> QED
      BY <2>4, <2>6, <2>8, <3>1, <3>2 DEF TempsNamed
  <2>15. PathsNotBlank'
    BY <2>1, <2>2, <2>4, <2>5, SwapAssumption DEF PathsNotBlank, Names
  <2>16. Holes'
    BY <2>1, <2>4, <2>7, <2>9, SwapAssumption DEF Holes, Names
  <2>17. Kept'
    BY <1>1, <1>2, <2>1, <2>2, <2>5, MovedKeeps
  <2> QED
    BY <2>10, <2>11, <2>13, <2>14, <2>15, <2>16, <2>17
<1> QED
  BY <1>1, <1>2, FailsKeeps DEF MoveBack, Move, Busy

LEMMA NextKeeps == IInv /\ [Next]_vars => IInv'
<1> SUFFICES ASSUME IInv, [Next]_vars PROVE IInv'
  OBVIOUS
<1>1. CASE UNCHANGED vars
  BY <1>1 DEF vars, IInv, TypeOK, OnWindows, TempsHeld, TempsNamed, PathsNotBlank, Holes, Kept,
              Holding, TakenFrom, Names
<1>2. CASE Next
  BY <1>2, FsSwapKeeps, UnixSwapKeeps, TempPathKeeps, MoveAwayKeeps, MoveOverKeeps,
     MoveBackKeeps, AfterWorkKeeps DEF Next
<1> QED
  BY <1>1, <1>2

-----------------------------------------------------------------------------
(* The inductive invariant holds in all reachable states (win/swap.c:33-46)*)
THEOREM Invariance == Spec => []IInv
BY InitIInv, NextKeeps, PTL DEF Spec

(* The types hold, and no two calls have one temporary file, for any       *)
(* number of calls (win/swap.c:16).                                        *)
THEOREM TypeCorrect == Spec => []TypeOK
<1>1. IInv => TypeOK
  BY DEF IInv
<1> QED
  BY <1>1, Invariance, PTL

(* Every file and directory keeps exactly one name, however many calls     *)
(* overlap and fail, and a call that succeeds leaves no temporary file     *)
(* (win/swap.c:33-46).                                                     *)
THEOREM ContentsSurvive == Spec => []NothingLost
<1>1. IInv => NothingLost
  BY DEF IInv, NothingLost, Kept, TempsNamed, Names
<1> QED
  BY <1>1, Invariance, PTL

-----------------------------------------------------------------------------
(* Swap implements Exchange: the second move is the exchange of its call,  *)
(* the others change nothing that Contents shows, and a move that fails    *)
(* loses what its call had under way, and nothing else.                    *)

Mapped == <<Contents, platform = "unix", Calling>>

Shown ==
  \A p \in Path :
    /\ \A r \in Req : TakenFrom(r, p) => Contents[p] = file[req[r].swap]
    /\ (\A r \in Req : ~TakenFrom(r, p)) => Contents[p] = file[p]

LEMMA ContentsAre == IInv => Shown
<1> SUFFICES ASSUME IInv, NEW p \in Path
             PROVE  /\ \A r \in Req : TakenFrom(r, p) => Contents[p] = file[req[r].swap]
                    /\ (\A r \in Req : ~TakenFrom(r, p)) => Contents[p] = file[p]
  BY DEF Shown
<1>1. ASSUME NEW r \in Req, TakenFrom(r, p)
      PROVE  Contents[p] = file[req[r].swap]
  <2> DEFINE taker == CHOOSE q \in Req : TakenFrom(q, p)
  <2>1. taker \in Req /\ TakenFrom(taker, p)
    BY <1>1
  <2>2. taker = r
    BY <1>1, <2>1 DEF IInv, Holes
  <2>3. Contents[p] = file[req[taker].swap]
    BY <1>1 DEF Contents
  <2> QED
    BY <2>2, <2>3
<1>2. (\A r \in Req : ~TakenFrom(r, p)) => Contents[p] = file[p]
  BY DEF Contents
<1> QED
  BY <1>1, <1>2

LEMMA ContentsAreNext == IInv' => Shown'
BY ContentsAre, PTL

(* A path none of whose own files a step touches shows what it showed.     *)
LEMMA Elsewhere ==
  ASSUME IInv, IInv', NEW p \in Path, file'[p] = file[p],
         \A q \in Req : TakenFrom(q, p)' <=> TakenFrom(q, p),
         \A q \in Req : TakenFrom(q, p) => /\ req'[q].swap = req[q].swap
                                           /\ file'[req[q].swap] = file[req[q].swap]
  PROVE  Contents'[p] = Contents[p]
BY ContentsAre, ContentsAreNext DEF Shown

LEMMA Unseen ==
  ASSUME \A p \in Path : Contents'[p] = Contents[p]
  PROVE  Contents' = Contents
<1>1. Contents = [p \in Path |-> Contents[p]] /\ Contents' = [p \in Path |-> Contents'[p]]
  BY DEF Contents
<1> QED
  BY <1>1

(* What the step of one call is to its exchange.                           *)
LEMMA Staged ==
  ASSUME NEW r \in Req, req'[r].from = req[r].from, req'[r].to = req[r].to,
         \A q \in Req \ {r} : req'[q] = req[q]
  PROVE  /\ Calling[r].at = Stage(r) /\ Calling[r].from = req[r].from /\ Calling[r].to = req[r].to
         /\ Calling' = [Calling EXCEPT ![r].at = Stage(r)']
<1>1. \A q \in Req \ {r} : Stage(q)' = Stage(q)
  BY DEF Stage
<1> QED
  BY <1>1 DEF Calling

LEMMA QuietSteps ==
  ASSUME IInv, IInv', NEW r \in Req,
         req[r].at \in {"free", "queued", "named", "done"},
         req'[r].at \in {"free", "queued", "named", "done"},
         \A q \in Req \ {r} : req'[q] = req[q],
         \A p \in Path : file'[p] = file[p],
         \A q \in Req \ {r} : req[q].at \in Busy => file'[req[q].swap] = file[req[q].swap]
  PROVE  Contents' = Contents
<1>1. ASSUME NEW p \in Path
      PROVE  Contents'[p] = Contents[p]
  <2>1. \A q \in Req : TakenFrom(q, p)' <=> TakenFrom(q, p)
    BY DEF TakenFrom
  <2>2. \A q \in Req : TakenFrom(q, p) => q # r /\ req[q].at \in Busy
    BY DEF TakenFrom, Busy
  <2> QED
    BY <2>1, <2>2, Elsewhere
<1> QED
  BY <1>1, Unseen

(* Before its first move has succeeded, a call that fails changes nothing; *)
(* after it, the path that waits for the next move loses.                  *)
LEMMA FailRefines ==
  ASSUME IInv, IInv', NEW r \in Req, NEW err \in Err \ {"OK"}, Returns(r, err),
         req[r].at \in Busy \cup {"queued"}, file' = file, platform' = platform
  PROVE  Abstract!ExchangeNext
<1>1. /\ req'[r].at = "done" /\ req[r].from \in Path /\ req[r].to \in Path
      /\ req'[r].from = req[r].from /\ req'[r].to = req[r].to
      /\ \A q \in Req \ {r} : req'[q] = req[q]
  BY Under, Stepped DEF Returns, IInv, At, Busy
<1>2. req'[r].err = err
  BY Under DEF Returns, IInv, TypeOK, Call
<1>3. Stage(r)' = "failed"
  BY <1>1, <1>2 DEF Stage
<1>4. /\ Calling[r].at = Stage(r) /\ Calling[r].from = req[r].from /\ Calling[r].to = req[r].to
      /\ Calling' = [Calling EXCEPT ![r].at = "failed"]
  BY <1>1, <1>3, Staged
<1>5. CASE req[r].at \in {"queued", "named"}
  <2>1. Contents' = Contents
    BY <1>1, <1>5, QuietSteps
  <2>2. Stage(r) = "begun"
    BY <1>5 DEF Stage
  <2>3. Abstract!Refuse(r)
    BY <1>4, <2>1, <2>2 DEF Abstract!Refuse, Abstract!Becomes
  <2> QED
    BY <2>3 DEF Abstract!ExchangeNext
<1>6. ASSUME NEW hole \in Path, TakenFrom(r, hole),
             \A p \in Path : TakenFrom(r, p) => p = hole
      PROVE  platform # "unix" /\ Contents' = [Contents EXCEPT ![hole] = Missing]
  <2>1. platform # "unix"
    BY <1>6 DEF IInv, OnWindows, TakenFrom, Busy
  <2>2. \A q \in Req, p \in Path : TakenFrom(q, p)' <=> q # r /\ TakenFrom(q, p)
    BY <1>1 DEF TakenFrom
  <2>3. file[hole] = Missing /\ \A q \in Req : TakenFrom(q, hole) => q = r
    BY <1>6 DEF IInv, Holes
  <2>4. Contents'[hole] = Missing
    BY <2>2, <2>3, ContentsAreNext DEF Shown
  <2>5. ASSUME NEW p \in Path \ {hole}
        PROVE  Contents'[p] = Contents[p]
    <3>1. ~TakenFrom(r, p)
      BY <1>6
    <3>2. \A q \in Req : TakenFrom(q, p)' <=> TakenFrom(q, p)
      BY <2>2, <3>1
    <3>3. \A q \in Req : TakenFrom(q, p) => req'[q] = req[q]
      BY <1>1, <3>1
    <3> QED
      BY <3>2, <3>3, Elsewhere
  <2>6. Contents = [p \in Path |-> Contents[p]] /\ Contents' = [p \in Path |-> Contents'[p]]
    BY DEF Contents
  <2> QED
    BY <2>1, <2>4, <2>5, <2>6
<1>7. CASE req[r].at = "moved"
  <2>1. Contents' = [Contents EXCEPT ![req[r].to] = Missing] /\ Stage(r) = "committed"
    BY <1>1, <1>6, <1>7 DEF TakenFrom, Stage
  <2>2. Abstract!LoseTo(r)
    BY <1>4, <2>1 DEF Abstract!LoseTo, Abstract!Becomes, Abstract!Loses
  <2> QED
    BY <2>2 DEF Abstract!ExchangeNext
<1>8. CASE req[r].at = "crossed"
  <2>1. Contents' = [Contents EXCEPT ![req[r].from] = Missing] /\ Stage(r) = "exchanged"
    BY <1>1, <1>6, <1>8 DEF TakenFrom, Stage
  <2>2. Abstract!LoseFrom(r)
    BY <1>4, <2>1 DEF Abstract!LoseFrom, Abstract!Becomes, Abstract!Loses
  <2> QED
    BY <2>2 DEF Abstract!ExchangeNext
<1> QED
  BY <1>5, <1>7, <1>8 DEF Busy

LEMMA FailsRefine ==
  ASSUME IInv, IInv', NEW r \in Req, req[r].at \in Busy \cup {"queued"}, platform' = platform,
         Fault(r) \/ Fails(r, "ENOENT") \/ Fails(r, "EACCES")
  PROVE  Abstract!ExchangeNext
BY FailRefines DEF Fault, Fails, Err

(* The exchange of a call: at once, or when it is committed.               *)
LEMMA ExchangeStep ==
  ASSUME NEW r \in Req, platform' = platform,
         NEW from \in Path, from = req[r].from, NEW to \in Path, to = req[r].to,
         req'[r].from = from, req'[r].to = to, \A q \in Req \ {r} : req'[q] = req[q],
         Stage(r) = IF platform = "unix" THEN "begun" ELSE "committed",
         Stage(r)' = IF platform = "unix" THEN "succeeded" ELSE "exchanged",
         Contents[from] # Missing, Contents[to] # Missing,
         Contents'[from] = Contents[to], Contents'[to] = Contents[from],
         \A p \in Path \ {from, to} : Contents'[p] = Contents[p]
  PROVE  Abstract!ExchangeNext
<1>1. Contents = [p \in Path |-> Contents[p]] /\ Contents' = [p \in Path |-> Contents'[p]]
  BY DEF Contents
<1>2. Contents' = [Contents EXCEPT ![from] = Contents[to], ![to] = Contents[from]]
  BY <1>1
<1>3. /\ Calling[r].at = Stage(r) /\ Calling[r].from = from /\ Calling[r].to = to
      /\ Calling' = [Calling EXCEPT ![r].at = Stage(r)']
  BY Staged
<1>4. Abstract!Exchange(r)
  BY <1>2, <1>3 DEF Abstract!Exchange, Abstract!Becomes
<1> QED
  BY <1>4 DEF Abstract!ExchangeNext

LEMMA UnixSwapRefines ==
  ASSUME IInv, IInv', NEW r \in Req, UnixSwap(r)
  PROVE  Abstract!ExchangeNext \/ UNCHANGED Mapped
<1>1. req[r].at = "queued" /\ platform = "unix" /\ platform' = platform
  BY DEF UnixSwap
<1> DEFINE from == req[r].from
           to == req[r].to
<1>2. CASE /\ Missing \notin {file[from], file[to]} /\ file' = Exchanged(from, to)
           /\ Returns(r, "OK")
  <2>1. from \in Path /\ to \in Path
    BY <1>1, Under DEF IInv
  <2>2. \A q \in Req, p \in Path : ~TakenFrom(q, p) /\ ~TakenFrom(q, p)'
    BY <1>1 DEF IInv, OnWindows, TakenFrom, Busy
  <2>3. \A p \in Path : Contents[p] = file[p] /\ Contents'[p] = file'[p]
    BY <2>2, ContentsAre, ContentsAreNext DEF Shown
  <2>4. /\ file'[to] = file[from] /\ file'[from] = file[to]
        /\ \A p \in Path \ {from, to} : file'[p] = file[p]
    BY <1>2, <2>1 DEF Exchanged, IInv, TypeOK
  <2>5. /\ req'[r].from = from /\ req'[r].to = to /\ \A q \in Req \ {r} : req'[q] = req[q]
        /\ req'[r].at = "done" /\ req'[r].err = "OK"
    BY <1>1, <1>2, Under DEF Returns, IInv, TypeOK, Call
  <2>6. Stage(r) = "begun" /\ Stage(r)' = "succeeded"
    BY <1>1, <2>5 DEF Stage
  <2> HIDE DEF from, to
  <2>7. Abstract!ExchangeNext
    BY <1>1, <1>2, <2>1, <2>3, <2>4, <2>5, <2>6, ExchangeStep DEF from, to
  <2> QED
    BY <2>7
<1> QED
  BY <1>1, <1>2, FailsRefine DEF UnixSwap

LEMMA TempPathRefines ==
  ASSUME IInv, IInv', NEW r \in Req, TempPath(r)
  PROVE  Abstract!ExchangeNext \/ UNCHANGED Mapped
<1>1. req[r].at = "queued" /\ platform' = platform
  BY DEF TempPath
<1>2. ASSUME NEW t \in Temp, Unused(t), file' = [file EXCEPT ![t] = Blank],
             req' = [req EXCEPT ![r].at = "named", ![r].swap = t]
      PROVE  UNCHANGED Mapped
  <2>1. /\ req'[r].at = "named" /\ req'[r].from = req[r].from /\ req'[r].to = req[r].to
        /\ \A q \in Req \ {r} : req'[q] = req[q]
    BY <1>1, <1>2, Under DEF IInv, TypeOK, Call
  <2>2. \A x \in Names \ {t} : file'[x] = file[x]
    BY <1>2 DEF IInv, TypeOK, Names
  <2>3. Missing \notin had /\ Missing # Blank
    BY SwapAssumption DEF IInv, TypeOK
  <2>4. \A q \in Req : req[q].at \in Busy => req[q].swap \in Temp \ {t}
    BY <1>2, <2>3 DEF IInv, TypeOK, TempsHeld, Busy, Unused
  <2>5. \A p \in Path : file'[p] = file[p]
    BY <2>2, SwapAssumption DEF Names
  <2>6. \A q \in Req : req[q].at \in Busy => file'[req[q].swap] = file[req[q].swap]
    BY <2>2, <2>4 DEF Names
  <2>7. Contents' = Contents
    BY <1>1, <2>1, <2>5, <2>6, QuietSteps
  <2>8. Calling' = Calling
    <3>1. \A q \in Req : Stage(q)' = Stage(q)
      BY <1>1, <2>1 DEF Stage
    <3> QED
      BY <2>1, <3>1 DEF Calling
  <2> QED
    BY <1>1, <2>7, <2>8 DEF Mapped
<1> QED
  BY <1>1, <1>2, FailsRefine DEF TempPath

LEMMA MoveAwayRefines ==
  ASSUME IInv, IInv', NEW r \in Req, MoveAway(r)
  PROVE  Abstract!ExchangeNext \/ UNCHANGED Mapped
<1> DEFINE to == req[r].to
           t == req[r].swap
<1>1. req[r].at = "named" /\ platform' = platform
  BY DEF MoveAway, Move
<1>2. CASE file[to] # Missing /\ file' = Moved(to, t) /\ Goes(r, "moved")
  <2>1. to \in Path /\ t \in Temp
    BY <1>1, Under DEF IInv, TypeOK
  <2>2. /\ req'[r].at = "moved" /\ req'[r].swap = t
        /\ req'[r].from = req[r].from /\ req'[r].to = to
        /\ \A q \in Req \ {r} : req'[q] = req[q]
    BY <1>1, <1>2, Under DEF Goes, IInv, TypeOK, Call
  <2>3. file'[t] = file[to] /\ \A x \in Names \ {to, t} : file'[x] = file[x]
    BY <1>2, <2>1, SwapAssumption DEF Moved, IInv, TypeOK, Names
  <2>4. ~\E q \in Req : TakenFrom(q, to)
    BY <1>2, <2>1 DEF IInv, Holes
  <2>5. TakenFrom(r, to)'
    BY <2>2 DEF TakenFrom
  <2>6. Contents'[to] = Contents[to]
    BY <2>1, <2>2, <2>3, <2>4, <2>5, ContentsAre, ContentsAreNext DEF Shown
  <2>7. ASSUME NEW p \in Path \ {to}
        PROVE  Contents'[p] = Contents[p]
    <3>1. \A q \in Req : TakenFrom(q, p)' <=> TakenFrom(q, p)
      BY <1>1, <2>2, <2>7 DEF TakenFrom
    <3>2. \A q \in Req : TakenFrom(q, p) => q # r /\ req[q].swap \in Temp \ {t}
      BY <1>1 DEF TakenFrom, IInv, TypeOK, Holding
    <3>3. file'[p] = file[p] /\ \A x \in Temp \ {t} : file'[x] = file[x]
      BY <2>1, <2>3, SwapAssumption DEF Names
    <3> QED
      BY <2>2, <3>1, <3>2, <3>3, Elsewhere
  <2>8. Contents' = Contents /\ Contents[to] # Missing
    BY <1>2, <2>1, <2>4, <2>6, <2>7, Unseen, ContentsAre DEF Shown
  <2>9. Stage(r) = "begun" /\ Stage(r)' = "committed" /\ platform # "unix"
    BY <1>1, <2>2 DEF Stage, IInv, OnWindows, Busy
  <2>10. Abstract!Commit(r)
    BY <1>1, <2>2, <2>8, <2>9, Staged DEF Abstract!Commit, Abstract!Becomes
  <2> QED
    BY <2>10 DEF Abstract!ExchangeNext
<1> QED
  BY <1>1, <1>2, FailsRefine DEF MoveAway, Move, Busy

LEMMA MoveOverRefines ==
  ASSUME IInv, IInv', NEW r \in Req, MoveOver(r)
  PROVE  Abstract!ExchangeNext \/ UNCHANGED Mapped
<1> DEFINE from == req[r].from
           to == req[r].to
           t == req[r].swap
<1>1. req[r].at = "moved" /\ platform' = platform
  BY DEF MoveOver, Move
<1>2. CASE file[from] # Missing /\ file' = Moved(from, to) /\ Goes(r, "crossed")
  <2>1. from \in Path /\ to \in Path /\ t \in Temp
    BY <1>1, Under DEF IInv, TypeOK
  <2>2. /\ req'[r].at = "crossed" /\ req'[r].swap = t
        /\ req'[r].from = from /\ req'[r].to = to
        /\ \A q \in Req \ {r} : req'[q] = req[q]
    BY <1>1, <1>2, Under DEF Goes, IInv, TypeOK, Call
  <2>3. TakenFrom(r, to)
    BY <1>1 DEF TakenFrom
  <2>4. file[to] = Missing /\ from # to
    BY <1>2, <2>1, <2>3 DEF IInv, Holes
  <2>5. /\ file'[to] = file[from]
        /\ \A x \in Names \ {from, to} : file'[x] = file[x]
    BY <1>2, <2>1, <2>4 DEF Moved, IInv, TypeOK, Names
  <2>6. \A u \in Temp : file'[u] = file[u]
    BY <2>1, <2>5, SwapAssumption DEF Names
  <2>7. \A q \in Req : ~TakenFrom(q, from) /\ (TakenFrom(q, to) => q = r)
    BY <1>2, <2>1, <2>3 DEF IInv, Holes
  <2>8. Contents[from] = file[from] /\ Contents[to] = file[t]
    BY <2>1, <2>3, <2>7, ContentsAre DEF Shown
  <2>9. \A q \in Req, p \in Path : TakenFrom(q, p)' <=>
          (q = r /\ p = from) \/ (q # r /\ TakenFrom(q, p))
    BY <1>1, <2>2 DEF TakenFrom
  <2>10. Contents'[from] = file[t] /\ Contents'[to] = file[from]
    BY <2>1, <2>2, <2>4, <2>5, <2>6, <2>7, <2>9, ContentsAreNext DEF Shown
  <2>11. file[t] # Missing
    BY <1>1, SwapAssumption DEF IInv, TempsHeld, TypeOK
  <2>12. ASSUME NEW p \in Path \ {from, to}
         PROVE  Contents'[p] = Contents[p]
    <3>1. \A q \in Req : TakenFrom(q, p)' <=> TakenFrom(q, p)
      BY <1>1, <2>2, <2>12 DEF TakenFrom
    <3>2. \A q \in Req : TakenFrom(q, p) => q # r /\ req[q].swap \in Temp
      BY <1>1, <2>12 DEF TakenFrom, IInv, TypeOK
    <3>3. file'[p] = file[p]
      BY <2>5 DEF Names
    <3> QED
      BY <2>2, <2>6, <3>1, <3>2, <3>3, Elsewhere
  <2>13. Stage(r) = "committed" /\ Stage(r)' = "exchanged" /\ platform # "unix"
    BY <1>1, <2>2 DEF Stage, IInv, OnWindows, Busy
  <2>14. Contents[from] # Missing
    BY <1>2, <2>8
  <2> HIDE DEF from, to
  <2>15. Abstract!ExchangeNext
    BY <1>1, <2>1, <2>2, <2>8, <2>10, <2>11, <2>12, <2>13, <2>14, ExchangeStep DEF from, to
  <2> QED
    BY <2>15
<1> QED
  BY <1>1, <1>2, FailsRefine DEF MoveOver, Move, Busy

LEMMA MoveBackRefines ==
  ASSUME IInv, IInv', NEW r \in Req, MoveBack(r)
  PROVE  Abstract!ExchangeNext \/ UNCHANGED Mapped
<1> DEFINE from == req[r].from
           t == req[r].swap
<1>1. req[r].at = "crossed" /\ platform' = platform
  BY DEF MoveBack, Move
<1>2. CASE file' = Moved(t, from) /\ Returns(r, "OK")
  <2>1. from \in Path /\ t \in Temp /\ from # t
    BY <1>1, Under, SwapAssumption DEF IInv, TypeOK
  <2>2. /\ req'[r].at = "done" /\ req'[r].err = "OK"
        /\ req'[r].from = req[r].from /\ req'[r].to = req[r].to
        /\ \A q \in Req \ {r} : req'[q] = req[q]
    BY <1>1, <1>2, Under DEF Returns, IInv, TypeOK, Call
  <2>3. file'[from] = file[t] /\ \A x \in Names \ {from, t} : file'[x] = file[x]
    BY <1>2, <2>1 DEF Moved, IInv, TypeOK, Names
  <2>4. TakenFrom(r, from) /\ \A q \in Req : TakenFrom(q, from) => q = r
    BY <1>1, <2>1 DEF TakenFrom, IInv, Holes
  <2>5. \A q \in Req, p \in Path : TakenFrom(q, p)' <=> q # r /\ TakenFrom(q, p)
    BY <2>2 DEF TakenFrom
  <2>6. Contents'[from] = Contents[from]
    BY <2>1, <2>3, <2>4, <2>5, ContentsAre, ContentsAreNext DEF Shown
  <2>7. ASSUME NEW p \in Path \ {from}
        PROVE  Contents'[p] = Contents[p]
    <3>1. ~TakenFrom(r, p)
      BY <1>1, <2>7 DEF TakenFrom
    <3>2. \A q \in Req : TakenFrom(q, p) => q # r /\ req[q].swap \in Temp \ {t}
      BY <1>1, <3>1 DEF TakenFrom, IInv, TypeOK, Holding
    <3>3. file'[p] = file[p] /\ \A x \in Temp \ {t} : file'[x] = file[x]
      BY <2>1, <2>3, SwapAssumption DEF Names
    <3> QED
      BY <2>2, <2>5, <3>1, <3>2, <3>3, Elsewhere
  <2>8. Contents' = Contents
    BY <2>6, <2>7, Unseen
  <2>9. Stage(r) = "exchanged" /\ Stage(r)' = "succeeded"
    BY <1>1, <2>2 DEF Stage
  <2>10. Abstract!Succeed(r)
    BY <1>1, <2>2, <2>8, <2>9, Staged DEF Abstract!Succeed, Abstract!Becomes
  <2> QED
    BY <2>10 DEF Abstract!ExchangeNext
<1> QED
  BY <1>1, <1>2, FailsRefine DEF MoveBack, Move, Busy

LEMMA FsSwapRefines ==
  ASSUME IInv, IInv', NEW r \in Req, NEW from \in Path, NEW to \in Path, FsSwap(r, from, to)
  PROVE  Abstract!ExchangeNext
<1>1. /\ req[r].at = "free" /\ req'[r].at = "queued" /\ file' = file /\ platform' = platform
      /\ req'[r].from = from /\ req'[r].to = to
      /\ \A q \in Req \ {r} : req'[q] = req[q]
  BY DEF FsSwap, IInv, TypeOK, Free
<1>2. Contents' = Contents
  BY <1>1, QuietSteps
<1>3. /\ Stage(r) = "idle" /\ Stage(r)' = "begun"
      /\ \A q \in Req \ {r} : Stage(q)' = Stage(q)
  BY <1>1 DEF Stage
<1>4. /\ Calling[r].at = "idle"
      /\ Calling' = [Calling EXCEPT ![r] = [at |-> "begun", from |-> from, to |-> to]]
  BY <1>1, <1>3 DEF Calling
<1>5. Abstract!Begin(r, from, to)
  BY <1>1, <1>2, <1>4 DEF Abstract!Begin
<1> QED
  BY <1>5 DEF Abstract!ExchangeNext

LEMMA AfterWorkRefines ==
  ASSUME IInv, IInv', NEW r \in Req, AfterWork(r)
  PROVE  Abstract!ExchangeNext
<1>1. /\ req[r].at = "done" /\ req'[r].at = "free" /\ file' = file /\ platform' = platform
      /\ req'[r].from = Missing /\ req'[r].to = Missing
      /\ \A q \in Req \ {r} : req'[q] = req[q]
  BY DEF AfterWork, IInv, TypeOK, Free
<1>2. Contents' = Contents
  BY <1>1, QuietSteps
<1>3. /\ Stage(r) \in {"succeeded", "failed"} /\ Stage(r)' = "idle"
      /\ \A q \in Req \ {r} : Stage(q)' = Stage(q)
  BY <1>1 DEF Stage
<1>4. /\ Calling[r].at \in {"succeeded", "failed"}
      /\ Calling' = [Calling EXCEPT ![r] = Abstract!Idle]
  BY <1>1, <1>3 DEF Calling, Abstract!Idle
<1>5. Abstract!End(r)
  BY <1>1, <1>2, <1>4 DEF Abstract!End
<1> QED
  BY <1>5 DEF Abstract!ExchangeNext

LEMMA InitRefines == Init => Abstract!ExchangeInit
<1> SUFFICES ASSUME Init PROVE Abstract!ExchangeInit
  OBVIOUS
<1>1. \A p \in Path : Contents[p] = file[p]
  BY InitIInv, ContentsAre DEF Shown, Init, Free, TakenFrom
<1>2. \A p \in Path : file[p] \in {p, Missing}
  BY DEF Init
<1>3. Contents = [p \in Path |-> Contents[p]]
  BY DEF Contents
<1>4. Calling = [r \in Req |-> Abstract!Idle]
  BY DEF Calling, Stage, Abstract!Idle, Init, Free
<1> QED
  BY <1>1, <1>2, <1>3, <1>4 DEF Abstract!ExchangeInit

LEMMA NextRefines ==
  IInv /\ IInv' /\ [Next]_vars => [Abstract!ExchangeNext]_(Abstract!exchangeVars)
<1> SUFFICES ASSUME IInv, IInv', [Next]_vars
             PROVE  Abstract!ExchangeNext \/ UNCHANGED Mapped
  BY DEF Mapped, Abstract!exchangeVars
<1>1. CASE UNCHANGED vars
  BY <1>1 DEF vars, Mapped, Contents, TakenFrom, Calling, Stage
<1>2. CASE Next
  BY <1>2, FsSwapRefines, AfterWorkRefines, UnixSwapRefines, TempPathRefines, MoveAwayRefines, MoveOverRefines,
     MoveBackRefines DEF Next
<1> QED
  BY <1>1, <1>2

(* fs_swap implements exchanges of two paths one after the other, however  *)
(* calls overlap: one for each call that succeeds, none for one that       *)
(* fails, but for the calls of Windows whose second or third move fails    *)
(* (linux/swap.c:17, win/swap.c:33-46).                                    *)
THEOREM SwapIsExchange == Spec => RefinesExchange
BY InitRefines, NextRefines, Invariance, PTL DEF Spec, RefinesExchange, Abstract!ExchangeSpec
=============================================================================
