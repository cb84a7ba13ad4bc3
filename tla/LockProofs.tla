----------------------------- MODULE LockProofs -----------------------------
(***************************************************************************)
(* Proofs about Lock, for any number of handles, any regions, any pool and *)
(* any number of calls.                                                    *)
(*                                                                         *)
(* That the program knows what it holds is a statement about the time      *)
(* between calls.  It is not inductive: what a call leaves depends on how  *)
(* far it got.  IInv follows each call through its system calls            *)
(* (CallState), next to what the kernel guarantees (KernelExcludes).       *)
(***************************************************************************)
EXTENDS Lock, FiniteSetTheorems, TLAPS

-----------------------------------------------------------------------------
(* The inductive invariant.                                                *)

Place == {"nowhere", "queue", "worker", "loop", "done"}
Todos == {<< >>, <<"lock">>, <<"unlock">>, <<"lock", "unlock">>, <<"unlock", "lock">>}

CallType ==
  [op : Op \cup {"none"}, todo : Todos, shared : BOOLEAN, wait : BOOLEAN,
   at : Place, err : Err]

Types ==
  /\ platform \in Platform
  /\ held \in [Handle -> [Mode -> Nat]]
  /\ region = [h \in Handle |-> region[h]]
  /\ \A h \in Handle : region[h] \in Region[h] \cup {Whole}
  /\ req \in [Handle -> CallType]
  /\ queue \in Seq(Handle)
  /\ grant \in [Handle -> Mode \cup {"none"}]
  /\ doubt \in [Handle -> {"none", "less", "more"}]
  /\ status \in {"none"} \cup (Err \ {"EBUSY"})
  /\ calls \in 0 .. MaxCalls /\ faults \in 0 .. MaxFaults

(* Where a call is run, and which errors it may have there.                *)
Placed(h) ==
  /\ req[h].at = "nowhere" <=> req[h].op = "none"
  /\ req[h].at \in {"queue", "worker", "done"} => req[h].wait
  /\ req[h].at = "loop" => ~req[h].wait
  /\ req[h].err \in {"EAGAIN", "EBUSY"} => ~req[h].wait /\ req[h].op # "unlock"
  /\ req[h].err = "EIO" => req[h].op = "lock" \/ faults > 0

(* The calls that wait for a worker thread, each once.                     *)
Queued ==
  \A i \in 1 .. Len(queue) :
    /\ req[queue[i]].at = "queue"
    /\ \A j \in 1 .. Len(queue) : queue[i] = queue[j] => i = j

(* What the handle holds, by how far the call on it got.                   *)
InLock(h) ==
  /\ grant[h] = "none"
  /\ \/ req[h].todo = <<"lock">> /\ req[h].err = "OK" /\ held[h] = Free
     \/ req[h].todo = << >> /\ req[h].err = "OK" /\ held[h] = Only(ModeOf(req[h].shared))
     \/ req[h].todo = << >> /\ req[h].err # "OK" /\ held[h] = Free

InUnlock(h) ==
  \/ req[h].todo = <<"unlock">> /\ req[h].err = "OK" /\ Told(h)
  \/ req[h].todo = << >> /\ req[h].err \in {"OK", "ENOTLOCKED"} /\ held[h] = Free
  \/ /\ req[h].todo = << >> /\ req[h].err = "OK"
     /\ doubt[h] = "more" /\ held[h] = Only("shared")
  \/ req[h].todo = << >> /\ req[h].err \in {"EINVAL", "EIO"} /\ Told(h)

InUnixConversion(h) ==
  /\ platform # "win"
  /\ \/ req[h].todo = <<"lock">> /\ req[h].err = "OK" /\ held[h] = Only(grant[h])
     \/ /\ req[h].todo = <<"lock">> /\ req[h].err = "OK" /\ held[h] = Free
        /\ platform = "mac" /\ req[h].wait /\ req[h].op = "upgrade"
     \/ req[h].todo = << >> /\ req[h].err = "OK" /\ held[h] = Only(ModeOf(req[h].shared))
     \/ req[h].todo = << >> /\ req[h].err \in {"EAGAIN", "EIO"} /\ held[h] = Only(grant[h])
     \/ /\ req[h].todo = << >> /\ req[h].err = "EIO" /\ held[h] = Free
        /\ platform = "mac" /\ req[h].wait /\ req[h].op = "upgrade"

InWinDowngrade(h) ==
  /\ platform = "win"
  /\ \/ req[h].todo = <<"lock", "unlock">> /\ req[h].err = "OK" /\ held[h] = Only(grant[h])
     \/ req[h].todo = <<"unlock">> /\ req[h].err = "OK" /\ held[h] = Stacked(grant[h])
     \/ req[h].todo = << >> /\ req[h].err = "OK" /\ held[h] = Only("shared")
     \/ req[h].todo = << >> /\ req[h].err \in {"EBUSY", "EIO"} /\ held[h] = Only(grant[h])
     \/ req[h].todo = << >> /\ req[h].err = "EIO" /\ held[h] = Stacked(grant[h])

InWinUpgrade(h) ==
  /\ platform = "win"
  /\ \/ req[h].todo = <<"unlock", "lock">> /\ req[h].err = "OK" /\ held[h] = Only(grant[h])
     \/ req[h].todo = <<"lock">> /\ req[h].err = "OK" /\ held[h] = Free
     \/ req[h].todo = << >> /\ req[h].err = "OK" /\ held[h] = Only("exclusive")
     \/ req[h].todo = << >> /\ req[h].err \in {"EBUSY", "EIO"} /\ held[h] = Free
     \/ req[h].todo = << >> /\ req[h].err = "EIO" /\ held[h] = Only(grant[h])

CallState(h) ==
  \/ req[h].op = "none" /\ Told(h)
  \/ req[h].op = "unlock" /\ InUnlock(h)
  \/ req[h].op = "lock" /\ doubt[h] = "none" /\ InLock(h)
  \/ /\ req[h].op = "downgrade" /\ req[h].shared /\ grant[h] # "none" /\ doubt[h] = "none"
     /\ InUnixConversion(h) \/ InWinDowngrade(h)
  \/ /\ req[h].op = "upgrade" /\ ~req[h].shared /\ grant[h] # "none" /\ doubt[h] = "none"
     /\ InUnixConversion(h) \/ InWinUpgrade(h)

(* Only a system call that failed leaves a doubt about a lock.             *)
Doubtful(h) ==
  /\ doubt[h] # "none" => grant[h] # "none" /\ platform # "linux" /\ faults > 0
  /\ doubt[h] = "more" => platform = "win"

(* flock(2) locks have no region, and no range of Windows ends too late.   *)
Rejected(h) ==
  \/ platform = "mac" /\ MacRejects(region[h])
  \/ platform = "win" /\ WinRejects(region[h])

RegionTaken(h) == grant[h] # "none" \/ held[h] # Free => ~Rejected(h)

KernelExcludes ==
  \A g, h \in Handle :
    g # h /\ Overlap(g, h) /\ held[g].exclusive > 0 => held[h] = Free

IInv ==
  /\ Types
  /\ \A h \in Handle : Placed(h) /\ CallState(h) /\ Doubtful(h) /\ RegionTaken(h)
  /\ KernelExcludes
  /\ Queued

-----------------------------------------------------------------------------
(* Small facts.                                                            *)

LEMMA TodoFacts ==
  /\ <<"lock">> # << >> /\ <<"unlock">> # << >>
  /\ <<"lock", "unlock">> # << >> /\ <<"unlock", "lock">> # << >>
  /\ Head(<<"lock">>) = "lock" /\ Tail(<<"lock">>) = << >>
  /\ Head(<<"unlock">>) = "unlock" /\ Tail(<<"unlock">>) = << >>
  /\ Head(<<"lock", "unlock">>) = "lock" /\ Tail(<<"lock", "unlock">>) = <<"unlock">>
  /\ Head(<<"unlock", "lock">>) = "unlock" /\ Tail(<<"unlock", "lock">>) = <<"lock">>
  /\ <<"lock">> # <<"unlock">> /\ <<"lock">> # <<"lock", "unlock">>
  /\ <<"lock">> # <<"unlock", "lock">> /\ <<"unlock">> # <<"lock", "unlock">>
  /\ <<"unlock">> # <<"unlock", "lock">> /\ <<"lock", "unlock">> # <<"unlock", "lock">>
OBVIOUS

(* The values the locks of a handle take.                                  *)
LEMMA LockFacts ==
  /\ Free \in [Mode -> Nat] /\ Free.shared = 0 /\ Free.exclusive = 0
  /\ \A m \in Mode :
       /\ Only(m) \in [Mode -> Nat] /\ Only(m) # Free
       /\ Only(m).exclusive = IF m = "exclusive" THEN 1 ELSE 0
       /\ Only(m).shared = IF m = "shared" THEN 1 ELSE 0
       /\ Holding(m) = Only(m)
  /\ Holding("none") = Free
  /\ Only("shared") # Only("exclusive")
  /\ \A f \in [Mode -> Nat] : f # Free <=> f.shared > 0 \/ f.exclusive > 0
BY DEF Free, Only, Holding, Mode

LEMMA SameLocks ==
  \A f, g \in [Mode -> Nat] : f.shared = g.shared /\ f.exclusive = g.exclusive => f = g
<1> SUFFICES ASSUME NEW f \in [Mode -> Nat], NEW g \in [Mode -> Nat],
                    f.shared = g.shared, f.exclusive = g.exclusive
             PROVE  f = g
  OBVIOUS
<1>1. \A m \in Mode : f[m] = g[m]
  BY DEF Mode
<1> QED
  BY <1>1

(* Over a lock Windows stacks a shared one.                                *)
LEMMA StackedFacts ==
  ASSUME NEW m \in Mode, NEW f, f = Stacked(m)
  PROVE  /\ f # Free /\ f.exclusive = IF m = "exclusive" THEN 1 ELSE 0
         /\ f.shared = IF m = "shared" THEN 2 ELSE 1
<1> USE DEF Stacked
<1>1. Only(m) \in [Mode -> Nat] /\ "shared" \in Mode /\ "exclusive" \in Mode
  BY LockFacts DEF Mode
<1>2. f.exclusive = Only(m).exclusive /\ f.shared = Only(m).shared + 1
  BY <1>1
<1>3. /\ Only(m).exclusive = IF m = "exclusive" THEN 1 ELSE 0
      /\ Only(m).shared = IF m = "shared" THEN 1 ELSE 0
  BY LockFacts
<1>4. m = "shared" \/ m = "exclusive"
  BY DEF Mode
<1> QED
  BY <1>2, <1>3, <1>4, LockFacts

LEMMA ModeFacts == \A s \in BOOLEAN : ModeOf(s) \in Mode /\ (ModeOf(s) = "shared" <=> s)
BY DEF ModeOf, Mode

(* A call that nothing touches stays where it is.                          *)
LEMMA Frame ==
  ASSUME NEW h \in Handle, Placed(h), CallState(h), Doubtful(h), RegionTaken(h),
         req'[h] = req[h], held'[h] = held[h], grant'[h] = grant[h], doubt'[h] = doubt[h],
         region'[h] = region[h], platform' = platform, faults > 0 => faults' > 0
  PROVE  (Placed(h) /\ CallState(h) /\ Doubtful(h) /\ RegionTaken(h))'
<1>1. Placed(h)' /\ Doubtful(h)' /\ RegionTaken(h)'
  BY DEF Placed, Doubtful, RegionTaken, Rejected
<1>2. CallState(h)'
  BY DEF CallState, InLock, InUnlock, InUnixConversion, InWinDowngrade, InWinUpgrade, Told
<1> QED
  BY <1>1, <1>2

(* Nobody's locks overlap an exclusive one: a lock is only granted when    *)
(* nobody stands in its way, and what shrinks excludes less.               *)
LEMMA NoBlockers ==
  ASSUME Types, NEW h \in Handle, Blockers(h) = {}, NEW g \in Handle, g # h, Overlap(g, h)
  PROVE  held[g].exclusive = 0 /\ (~req[h].shared => held[g] = Free)
<1>1. held[g] \in [Mode -> Nat] /\ req[h].shared \in BOOLEAN
  BY DEF Types, CallType
<1>2. ~(held[g].exclusive > 0 \/ (Asked(h) = "exclusive" /\ held[g].shared > 0))
  BY DEF Blockers
<1>3. held[g].exclusive = 0
  BY <1>1, <1>2 DEF Mode
<1>4. ~req[h].shared => held[g].shared = 0
  BY <1>1, <1>2 DEF Mode, Asked, ModeOf
<1> QED
  BY <1>1, <1>3, <1>4, LockFacts

LEMMA ExclusionKept ==
  ASSUME Types, KernelExcludes, NEW h \in Handle, NEW locks \in [Mode -> Nat],
         region' = region, held' = [held EXCEPT ![h] = locks],
         \/ /\ Blockers(h) = {}
            /\ locks.exclusive > 0 => ~req[h].shared \/ held[h].exclusive > 0
         \/ /\ locks.exclusive > 0 => held[h].exclusive > 0
            /\ locks # Free => held[h] # Free
  PROVE  KernelExcludes'
<1> SUFFICES ASSUME NEW f \in Handle, NEW g \in Handle, f # g, Overlap(f, g)',
                    held'[f].exclusive > 0
             PROVE  held'[g] = Free
  BY DEF KernelExcludes
<1>1. Overlap(f, g) /\ Overlap(g, f)
  BY DEF Overlap
<1>2. \A k \in Handle : held'[k] = IF k = h THEN locks ELSE held[k]
  BY DEF Types
<1>3. \A k \in Handle : held[k] \in [Mode -> Nat]
  BY DEF Types
<1>4. CASE f # h /\ g # h
  BY <1>1, <1>2, <1>4 DEF KernelExcludes
<1>5. CASE f = h
  <2>1. CASE held[h].exclusive > 0
    BY <1>1, <1>2, <1>5, <2>1 DEF KernelExcludes
  <2>2. CASE ~(held[h].exclusive > 0)
    <3>1. Blockers(h) = {} /\ ~req[h].shared
      BY <1>2, <1>5, <2>2
    <3> QED
      BY <1>1, <1>2, <1>5, <3>1, NoBlockers
  <2> QED
    BY <2>1, <2>2
<1>6. CASE g = h
  <2>1. held[f].exclusive > 0
    BY <1>2, <1>6
  <2>2. held[h] = Free
    BY <1>1, <1>6, <2>1 DEF KernelExcludes
  <2>3. Blockers(h) # {}
    BY <1>1, <1>6, <2>1, NoBlockers
  <2> QED
    BY <1>2, <1>6, <2>2, <2>3
<1> QED
  BY <1>4, <1>5, <1>6

-----------------------------------------------------------------------------
(* The initial states, and steps of one handle.                            *)

LEMMA InitEstablishes == Init => IInv
<1> SUFFICES ASSUME Init PROVE IInv
  OBVIOUS
<1>1. Types
  BY LockFacts, LockAssumption
     DEF Init, Types, None, CallType, Todos, Place, Op, Err
<1>2. ASSUME NEW h \in Handle
      PROVE  Placed(h) /\ CallState(h) /\ Doubtful(h) /\ RegionTaken(h)
  BY LockFacts DEF Init, None, Placed, CallState, Told, Doubtful, RegionTaken
<1>3. KernelExcludes
  BY DEF Init, KernelExcludes
<1>4. Queued
  BY DEF Init, Queued
<1> QED
  BY <1>1, <1>2, <1>3, <1>4 DEF IInv

LEMMA QueueKept ==
  ASSUME Types, Queued, queue' = queue,
         \A k \in Handle : req[k].at = "queue" => req'[k].at = "queue"
  PROVE  Queued'
<1>1. \A i \in 1 .. Len(queue) : queue[i] \in Handle
  BY DEF Types
<1> QED
  BY <1>1 DEF Queued

(* A step of one handle leaves the others as they are.                     *)
LEMMA Local ==
  ASSUME IInv, Types', KernelExcludes', Queued', NEW h \in Handle, platform' = platform,
         faults > 0 => faults' > 0,
         \A k \in Handle \ {h} :
           /\ req'[k] = req[k] /\ held'[k] = held[k] /\ doubt'[k] = doubt[k]
           /\ grant'[k] = grant[k] /\ region'[k] = region[k],
         (Placed(h) /\ CallState(h) /\ Doubtful(h) /\ RegionTaken(h))'
  PROVE  IInv'
<1>1. ASSUME NEW k \in Handle
      PROVE  (Placed(k) /\ CallState(k) /\ Doubtful(k) /\ RegionTaken(k))'
  <2>1. CASE k = h
    BY <2>1
  <2>2. CASE k # h
    BY <2>2, Frame DEF IInv
  <2> QED
    BY <2>1, <2>2
<1> QED
  BY <1>1 DEF IInv

-----------------------------------------------------------------------------
(* The system calls.                                                       *)

LEMMA DoesFacts ==
  ASSUME Types, NEW h \in Handle, NEW on, NEW syscall, At(h, on, syscall),
         NEW locks \in [Mode -> Nat], Does(h, locks)
  PROVE  /\ Types'
         /\ \A k \in Handle \ {h} : req'[k] = req[k] /\ held'[k] = held[k]
         /\ held'[h] = locks
         /\ req'[h].todo = Tail(req[h].todo) /\ req'[h].op = req[h].op
         /\ req'[h].shared = req[h].shared /\ req'[h].wait = req[h].wait
         /\ req'[h].at = req[h].at /\ req'[h].err = req[h].err
         /\ faults' = faults
<1>1. req[h] \in CallType
  BY DEF Types
<1>2. Tail(req[h].todo) \in Todos
  BY <1>1, TodoFacts DEF At, CallType, Todos
<1> DEFINE c == [req[h] EXCEPT !.todo = Tail(req[h].todo)]
<1>3. c \in CallType
  BY <1>1, <1>2 DEF CallType
<1>4. req' = [req EXCEPT ![h] = c]
  BY DEF Does
<1>5. req'[h] = c /\ \A k \in Handle \ {h} : req'[k] = req[k]
  BY <1>4 DEF Types
<1>6. Types'
  BY <1>3, <1>4 DEF Types, At, Does
<1> QED
  BY <1>1, <1>5, <1>6 DEF Types, Does, CallType

LEMMA ReturnsFacts ==
  ASSUME Types, NEW h \in Handle, NEW on, NEW syscall, At(h, on, syscall),
         NEW err \in Err, Returns(h, err), faults' \in 0 .. MaxFaults
  PROVE  /\ Types' /\ held' = held
         /\ \A k \in Handle \ {h} : req'[k] = req[k]
         /\ req'[h].todo = << >> /\ req'[h].op = req[h].op
         /\ req'[h].shared = req[h].shared /\ req'[h].wait = req[h].wait
         /\ req'[h].at = req[h].at /\ req'[h].err = err
<1>1. req[h] \in CallType
  BY DEF Types
<1> DEFINE c == [req[h] EXCEPT !.todo = << >>, !.err = err]
<1>3. c \in CallType
  BY <1>1 DEF CallType, Todos
<1>4. req' = [req EXCEPT ![h] = c]
  BY DEF Returns
<1>5. req'[h] = c /\ \A k \in Handle \ {h} : req'[k] = req[k]
  BY <1>4 DEF Types
<1>6. Types'
  BY <1>3, <1>4 DEF Types, At, Returns
<1>7. /\ c.todo = << >> /\ c.op = req[h].op /\ c.shared = req[h].shared
      /\ c.wait = req[h].wait /\ c.at = req[h].at /\ c.err = err
  BY <1>1 DEF CallType
<1> HIDE DEF c
<1> QED
  BY <1>5, <1>6, <1>7 DEF Returns

(* A lock that is granted keeps the exclusion, the type and the other      *)
(* calls; so does one that is given up.                                    *)
LEMMA DoesKeeps ==
  ASSUME IInv, NEW h \in Handle, NEW on, NEW syscall, At(h, on, syscall),
         NEW locks \in [Mode -> Nat], Does(h, locks), CallState(h)',
         ~Rejected(h),
         \/ /\ Blockers(h) = {}
            /\ locks.exclusive > 0 => ~req[h].shared \/ held[h].exclusive > 0
         \/ /\ locks.exclusive > 0 => held[h].exclusive > 0
            /\ locks # Free => held[h] # Free
  PROVE  IInv'
<1>1. Types /\ KernelExcludes /\ Queued /\ Placed(h) /\ Doubtful(h) /\ RegionTaken(h)
  BY DEF IInv
<1>2. /\ platform = on /\ platform' = platform /\ region' = region /\ grant' = grant
      /\ doubt' = doubt /\ faults' = faults
      /\ held' = [held EXCEPT ![h] = locks]
  BY DEF At, Does
<1>3. KernelExcludes'
  BY <1>1, <1>2, ExclusionKept
<1>4. Placed(h)'
  BY <1>1, DoesFacts DEF Placed
<1>5. RegionTaken(h)' /\ Doubtful(h)'
  BY <1>1, <1>2 DEF RegionTaken, Rejected, Doubtful
<1>6. Queued'
  BY <1>1, DoesFacts, QueueKept DEF At
<1> QED
  BY <1>1, <1>2, <1>3, <1>4, <1>5, <1>6, DoesFacts, Local

LEMMA ReturnsKeeps ==
  ASSUME IInv, NEW h \in Handle, NEW on, NEW syscall, At(h, on, syscall),
         NEW err \in Err, Returns(h, err), CallState(h)',
         err \in {"EAGAIN", "EBUSY"} => ~req[h].wait /\ req[h].op # "unlock",
         faults' \in 0 .. MaxFaults, faults' >= faults,
         err = "EIO" => req[h].op = "lock" \/ faults' > 0
  PROVE  IInv'
<1>1. Types /\ KernelExcludes /\ Queued /\ Placed(h) /\ Doubtful(h) /\ RegionTaken(h)
  BY DEF IInv
<1>2. /\ platform' = platform /\ region' = region /\ grant' = grant /\ held' = held
      /\ doubt' = doubt
  BY DEF At, Returns
<1>7. faults > 0 => faults' > 0
  BY <1>1, LockAssumption DEF Types
<1>3. KernelExcludes'
  BY <1>1, <1>2 DEF KernelExcludes, Overlap
<1>4. Placed(h)'
  BY <1>1, ReturnsFacts DEF Placed
<1>5. RegionTaken(h)' /\ Doubtful(h)'
  BY <1>1, <1>2, <1>7 DEF RegionTaken, Rejected, Doubtful
<1>6. Queued'
  BY <1>1, ReturnsFacts, QueueKept DEF At
<1> QED
  BY <1>1, <1>2, <1>3, <1>4, <1>5, <1>6, <1>7, ReturnsFacts, Local

(* How many system calls have failed is known from how one ends.           *)
LEMMA FaultFacts ==
  ASSUME Types, NEW h \in Handle
  PROVE  /\ \A err \in Err : Fails(h, err) =>
              Returns(h, err) /\ faults' \in 0 .. MaxFaults /\ faults' >= faults
         /\ Fault(h) => /\ Returns(h, "EIO") /\ faults' \in 0 .. MaxFaults
                        /\ faults' >= faults /\ faults' > 0
BY LockAssumption DEF Types, Fails, Fault

(* Where a call is when its next system call locks, or unlocks.            *)
LEMMA NextIsLock ==
  ASSUME IInv, NEW h \in Handle, NEW on, At(h, on, "lock")
  PROVE  /\ req[h].err = "OK" /\ doubt[h] = "none"
         /\ \/ req[h].op = "lock" /\ req[h].todo = <<"lock">>
               /\ held[h] = Free /\ grant[h] = "none"
            \/ /\ req[h].op = "downgrade" /\ req[h].shared /\ grant[h] \in Mode
               /\ on # "win" /\ req[h].todo = <<"lock">> /\ held[h] = Only(grant[h])
            \/ /\ req[h].op = "upgrade" /\ ~req[h].shared /\ grant[h] \in Mode
               /\ on # "win" /\ req[h].todo = <<"lock">>
               /\ \/ held[h] = Only(grant[h])
                  \/ held[h] = Free /\ on = "mac" /\ req[h].wait
            \/ /\ req[h].op = "downgrade" /\ req[h].shared /\ grant[h] \in Mode
               /\ on = "win" /\ req[h].todo = <<"lock", "unlock">>
               /\ held[h] = Only(grant[h])
            \/ /\ req[h].op = "upgrade" /\ ~req[h].shared /\ grant[h] \in Mode
               /\ on = "win" /\ req[h].todo = <<"lock">> /\ held[h] = Free
<1>1. CallState(h) /\ Placed(h) /\ Types
  BY DEF IInv
<1>2. req[h].at \in {"worker", "loop"} /\ req[h].op \in Op \cup {"none"}
  BY <1>1 DEF At, Types, CallType
<1>3. req[h].todo # << >> /\ Head(req[h].todo) = "lock" /\ platform = on
  BY DEF At
<1>4. grant[h] # "none" => grant[h] \in Mode
  BY <1>1 DEF Types
<1> QED
  BY <1>1, <1>2, <1>3, <1>4, TodoFacts
     DEF Placed, CallState, InLock, InUnlock, InUnixConversion, InWinDowngrade, InWinUpgrade

LEMMA NextIsUnlock ==
  ASSUME IInv, NEW h \in Handle, NEW on, At(h, on, "unlock")
  PROVE  /\ req[h].err = "OK"
         /\ \/ req[h].op = "unlock" /\ req[h].todo = <<"unlock">> /\ Told(h)
            \/ /\ req[h].op = "downgrade" /\ req[h].shared /\ grant[h] \in Mode
               /\ on = "win" /\ req[h].todo = <<"unlock">> /\ doubt[h] = "none"
               /\ held[h] = Stacked(grant[h])
            \/ /\ req[h].op = "upgrade" /\ ~req[h].shared /\ grant[h] \in Mode
               /\ on = "win" /\ req[h].todo = <<"unlock", "lock">> /\ doubt[h] = "none"
               /\ held[h] = Only(grant[h])
<1>1. CallState(h) /\ Placed(h) /\ Types
  BY DEF IInv
<1>2. req[h].at \in {"worker", "loop"} /\ req[h].op \in Op \cup {"none"}
  BY <1>1 DEF At, Types, CallType
<1>3. req[h].todo # << >> /\ Head(req[h].todo) = "unlock" /\ platform = on
  BY DEF At
<1>4. grant[h] # "none" => grant[h] \in Mode
  BY <1>1 DEF Types
<1> QED
  BY <1>1, <1>2, <1>3, <1>4, TodoFacts
     DEF Placed, CallState, InLock, InUnlock, InUnixConversion, InWinDowngrade, InWinUpgrade

LEMMA UnixUnlocks ==
  ASSUME IInv, NEW h \in Handle, NEW on \in {"linux", "mac"}, At(h, on, "unlock")
  PROVE  req[h].op = "unlock"
<1>1. on # "win"
  OBVIOUS
<1> QED
  BY <1>1, NextIsUnlock

(* A lock is granted on Linux or macOS.                                    *)
LEMMA UnixGrants ==
  ASSUME IInv, NEW h \in Handle, NEW on \in {"linux", "mac"}, At(h, on, "lock"),
         ~Rejected(h), Blockers(h) = {}, Does(h, Only(Asked(h)))
  PROVE  IInv'
<1>1. Types
  BY DEF IInv
<1>2. Asked(h) \in Mode /\ (Asked(h) = "shared" <=> req[h].shared)
  BY <1>1, ModeFacts DEF Asked, Types, CallType
<1>3. Only(Asked(h)) \in [Mode -> Nat]
  BY <1>2, LockFacts
<1>4. Only(Asked(h)).exclusive > 0 => ~req[h].shared
  BY <1>2, LockFacts
<1>5. CallState(h)'
  <2>1. req[h].todo = <<"lock">> /\ req[h].err = "OK"
    BY NextIsLock
  <2>2. /\ req'[h].todo = << >> /\ req'[h].err = "OK" /\ held'[h] = Only(ModeOf(req'[h].shared))
        /\ req'[h].op = req[h].op /\ req'[h].shared = req[h].shared
    BY <1>1, <1>3, <2>1, DoesFacts, TodoFacts DEF Asked
  <2>3. grant' = grant /\ doubt' = doubt /\ platform' = platform /\ platform # "win"
    BY DEF At
  <2> QED
    BY <2>2, <2>3, NextIsLock DEF CallState, InLock, InUnixConversion, Mode
<1> QED
  BY <1>3, <1>4, <1>5, DoesKeeps

(* A lock is granted on Windows.                                           *)
LEMMA WinGrants ==
  ASSUME IInv, NEW h \in Handle, At(h, "win", "lock"), ~Rejected(h), Blockers(h) = {},
         WinAdds(h)
  PROVE  IInv'
<1>1. Types
  BY DEF IInv
<1>2. Asked(h) \in Mode /\ (Asked(h) = "shared" <=> req[h].shared)
  BY <1>1, ModeFacts DEF Asked, Types, CallType
<1> DEFINE locks == [held[h] EXCEPT ![Asked(h)] = @ + 1]
<1>3. held[h] \in [Mode -> Nat]
  BY <1>1 DEF Types
<1>4. locks \in [Mode -> Nat]
  BY <1>2, <1>3
<1>5. locks.exclusive > 0 => ~req[h].shared \/ held[h].exclusive > 0
  BY <1>2, <1>3 DEF Mode
<1>6. Does(h, locks)
  BY DEF WinAdds
<1>7. held[h] = Free => locks = Only(Asked(h))
  BY <1>2 DEF Only, Free
<1>8. req[h].shared => locks = [held[h] EXCEPT !["shared"] = @ + 1]
  BY <1>2
<1> HIDE DEF locks
<1>9. CallState(h)'
  <2>1. /\ req'[h].todo = Tail(req[h].todo) /\ req'[h].err = "OK" /\ held'[h] = locks
        /\ req'[h].op = req[h].op /\ req'[h].shared = req[h].shared
    BY <1>1, <1>4, <1>6, DoesFacts, NextIsLock
  <2>2. grant' = grant /\ doubt' = doubt /\ platform' = platform /\ platform = "win"
    BY DEF At
  <2>3. CASE req[h].op = "lock"
    BY <1>7, <2>1, <2>2, <2>3, NextIsLock, TodoFacts DEF Asked, CallState, InLock
  <2>4. CASE req[h].op = "downgrade"
    <3>1. held[h] = Only(grant[h]) /\ req[h].todo = <<"lock", "unlock">> /\ req[h].shared
          /\ grant[h] \in Mode /\ doubt[h] = "none"
      BY <2>4, NextIsLock
    <3>2. held'[h] = Stacked(grant'[h]) /\ req'[h].todo = <<"unlock">>
      BY <1>8, <2>1, <2>2, <3>1, TodoFacts DEF Stacked
    <3> QED
      BY <2>1, <2>2, <2>4, <3>1, <3>2 DEF CallState, InWinDowngrade, Mode
  <2>5. CASE req[h].op = "upgrade"
    <3>1. held[h] = Free /\ req[h].todo = <<"lock">> /\ ~req[h].shared /\ grant[h] \in Mode
          /\ doubt[h] = "none"
      BY <2>5, NextIsLock
    <3>2. held'[h] = Only("exclusive") /\ req'[h].todo = << >>
      BY <1>2, <1>7, <2>1, <3>1, TodoFacts DEF Mode
    <3> QED
      BY <2>1, <2>2, <2>5, <3>1, <3>2 DEF CallState, InWinUpgrade, Mode
  <2> QED
    BY <2>3, <2>4, <2>5, NextIsLock
<1> QED
  BY <1>4, <1>5, <1>6, <1>9, DoesKeeps

(* A lock is refused, or the system call fails: all stays as it was, but   *)
(* for an upgrade that has given up the shared lock.                       *)
LEMMA LockFails ==
  ASSUME IInv, NEW h \in Handle, NEW on, At(h, on, "lock"), NEW err \in Err,
         Returns(h, err), faults' \in 0 .. MaxFaults, faults' >= faults,
         \/ err = "EIO" /\ (req[h].op = "lock" \/ faults' > 0)
         \/ err = "EINVAL" /\ req[h].op = "lock"
         \/ err = "EAGAIN" /\ ~req[h].wait /\ on # "win"
         \/ err = "EBUSY" /\ ~req[h].wait /\ on = "win"
  PROVE  IInv'
<1>1. Types
  BY DEF IInv
<1>2. /\ req'[h].todo = << >> /\ req'[h].err = err /\ held'[h] = held[h]
      /\ req'[h].op = req[h].op /\ req'[h].shared = req[h].shared
      /\ req'[h].wait = req[h].wait
  BY <1>1, ReturnsFacts
<1>3. grant' = grant /\ doubt' = doubt /\ platform' = platform /\ platform = on
  BY DEF At
<1>4. CallState(h)'
  BY <1>2, <1>3, NextIsLock
     DEF CallState, InLock, InUnixConversion, InWinDowngrade, InWinUpgrade, Mode
<1>5. req[h].op # "unlock"
  BY NextIsLock
<1> QED
  BY <1>4, <1>5, ReturnsKeeps

(* An unlock fails: all stays as it was, also halfway through a conversion.*)
LEMMA UnlockFails ==
  ASSUME IInv, NEW h \in Handle, NEW on, At(h, on, "unlock"), NEW err \in Err,
         Returns(h, err), faults' \in 0 .. MaxFaults, faults' >= faults,
         \/ err = "EIO" /\ faults' > 0
         \/ err = "EINVAL" /\ req[h].op = "unlock"
         \/ err = "ENOTLOCKED" /\ req[h].op = "unlock" /\ held[h] = Free
  PROVE  IInv'
<1>1. Types
  BY DEF IInv
<1>2. /\ req'[h].todo = << >> /\ req'[h].err = err /\ held'[h] = held[h]
      /\ req'[h].op = req[h].op /\ req'[h].shared = req[h].shared
  BY <1>1, ReturnsFacts
<1>3. grant' = grant /\ doubt' = doubt /\ platform' = platform /\ platform = on
  BY DEF At
<1>5. Told(h) => Told(h)'
  BY <1>2, <1>3 DEF Told
<1>4. CallState(h)'
  BY <1>2, <1>3, <1>5, NextIsUnlock
     DEF CallState, InUnlock, InWinDowngrade, InWinUpgrade, Mode
<1> QED
  BY <1>4, ReturnsKeeps

(* A lock is given up.                                                     *)
LEMMA Releases ==
  ASSUME IInv, NEW h \in Handle, NEW on, At(h, on, "unlock"),
         NEW locks \in [Mode -> Nat], Does(h, locks),
         locks.exclusive > 0 => held[h].exclusive > 0,
         locks # Free => held[h] # Free,
         ~Rejected(h),
         \/ req[h].op \in {"unlock", "upgrade"} /\ locks = Free
         \/ req[h].op = "unlock" /\ doubt[h] = "more" /\ locks = Only("shared")
         \/ req[h].op = "downgrade" /\ locks = Only("shared")
  PROVE  IInv'
<1>1. Types
  BY DEF IInv
<1>5. req[h].err = "OK"
  BY NextIsUnlock
<1>2. /\ req'[h].todo = Tail(req[h].todo) /\ req'[h].err = "OK" /\ held'[h] = locks
      /\ req'[h].op = req[h].op /\ req'[h].shared = req[h].shared
  BY <1>1, <1>5, DoesFacts
<1>3. grant' = grant /\ doubt' = doubt /\ platform' = platform /\ platform = on
  BY DEF At
<1>4. CallState(h)'
  <2>1. CASE req[h].op = "unlock"
    <3>1. req'[h].todo = << >>
      BY <1>2, <2>1, NextIsUnlock, TodoFacts
    <3> QED
      BY <1>2, <1>3, <2>1, <3>1 DEF CallState, InUnlock
  <2>2. CASE req[h].op = "downgrade"
    <3>1. /\ req'[h].todo = << >> /\ req[h].shared /\ grant[h] \in Mode /\ on = "win"
          /\ doubt[h] = "none"
      BY <1>2, <2>2, NextIsUnlock, TodoFacts
    <3> QED
      BY <1>2, <1>3, <2>2, <3>1 DEF CallState, InWinDowngrade, Mode
  <2>3. CASE req[h].op = "upgrade"
    <3>1. /\ req'[h].todo = <<"lock">> /\ ~req[h].shared /\ grant[h] \in Mode /\ on = "win"
          /\ doubt[h] = "none"
      BY <1>2, <2>3, NextIsUnlock, TodoFacts
    <3> QED
      BY <1>2, <1>3, <2>3, <3>1 DEF CallState, InWinUpgrade, Mode
  <2> QED
    BY <2>1, <2>2, <2>3
<1> QED
  BY <1>4, DoesKeeps

(* Unlocking once on Windows leaves what the call means it to.             *)
LEMMA WinReleases ==
  ASSUME IInv, NEW h \in Handle, WinUnlock(h)
  PROVE  IInv'
<1>1. Types /\ At(h, "win", "unlock") /\ Doubtful(h)
  BY DEF IInv, WinUnlock
<1> DEFINE two == req[h].op = "downgrade" \/ (req[h].op = "unlock" /\ doubt[h] = "more")
<1>2. held[h] \in [Mode -> Nat] /\ (grant[h] = "none" \/ grant[h] \in Mode)
  BY <1>1 DEF Types
<1>6. \/ req[h].op = "unlock" /\ held[h] = Free
      \/ /\ req[h].op \in {"unlock", "upgrade"}
         /\ held[h] = Only("shared") \/ held[h] = Only("exclusive")
      \/ /\ two /\ held[h] # Free
         /\ \/ held[h].exclusive = 1 /\ held[h].shared = 1
            \/ held[h].exclusive = 0 /\ held[h].shared = 2
  <2>1. CASE req[h].op = "unlock" /\ held[h] \in {Free, Holding(grant[h])}
    BY <1>2, <2>1 DEF Holding, Mode
  <2>2. CASE req[h].op = "upgrade" /\ grant[h] \in Mode /\ held[h] = Only(grant[h])
    BY <2>2 DEF Mode
  <2>3. CASE /\ two /\ grant[h] \in Mode
             /\ held[h] = Stacked(grant[h])
    <3>1. /\ held[h] # Free /\ held[h].exclusive = IF grant[h] = "exclusive" THEN 1 ELSE 0
          /\ held[h].shared = IF grant[h] = "shared" THEN 2 ELSE 1
      BY <2>3, StackedFacts
    <3>2. grant[h] = "shared" \/ grant[h] = "exclusive"
      BY <2>3 DEF Mode
    <3> QED
      BY <2>3, <3>1, <3>2
  <2>4. req[h].op = "unlock" =>
          held[h] \in {Free, Holding(grant[h])} \/ (doubt[h] = "more" /\ held[h] = Stacked(grant[h]))
    BY <1>1, NextIsUnlock DEF Told
  <2>5. doubt[h] = "more" => grant[h] \in Mode
    BY <1>1, <1>2 DEF Doubtful
  <2> QED
    BY <1>1, <2>1, <2>2, <2>3, <2>4, <2>5, NextIsUnlock
<1> HIDE DEF two
<1>8. held[h] # Free => ~Rejected(h)
  BY DEF IInv, RegionTaken
<1>7. /\ Only("shared") # Free /\ Only("shared").exclusive = 0 /\ Only("shared").shared = 1
      /\ Only("exclusive") # Free
      /\ Only("exclusive").exclusive = 1 /\ Only("exclusive").shared = 0
      /\ Free.exclusive = 0 /\ Free.shared = 0
      /\ Only("shared") \in [Mode -> Nat] /\ Free \in [Mode -> Nat]
  BY LockFacts DEF Mode
<1>3. CASE held[h] = Free /\ Fails(h, "ENOTLOCKED")
  <2>1. req[h].op = "unlock"
    BY <1>3, <1>6, <1>7
  <2> QED
    BY <1>1, <1>3, <2>1, FaultFacts, UnlockFails DEF Err
<1>4. CASE held[h].exclusive > 0 /\ Does(h, [held[h] EXCEPT !.exclusive = @ - 1])
  <2> DEFINE locks == [held[h] EXCEPT !.exclusive = @ - 1]
  <2>1. locks \in [Mode -> Nat] /\ locks.shared = held[h].shared
        /\ locks.exclusive = held[h].exclusive - 1
    BY <1>2, <1>4 DEF Mode
  <2>2. /\ locks.exclusive > 0 => held[h].exclusive > 0
        /\ locks # Free => held[h] # Free
    BY <1>2, <1>4, <2>1, LockFacts
  <2>3. \/ req[h].op \in {"unlock", "upgrade"} /\ held[h] = Only("exclusive")
        \/ /\ two
           /\ held[h].exclusive = 1 /\ held[h].shared = 1
    BY <1>4, <1>6, <1>7
  <2>4. \/ req[h].op \in {"unlock", "upgrade"} /\ locks = Free
        \/ two /\ locks = Only("shared")
    <3>1. \/ /\ req[h].op \in {"unlock", "upgrade"}
             /\ locks.shared = 0 /\ locks.exclusive = 0
          \/ /\ two
             /\ locks.shared = 1 /\ locks.exclusive = 0
      BY <2>1, <2>3, <1>7
    <3> HIDE DEF locks
    <3> QED
      BY <1>7, <2>1, <3>1, SameLocks
  <2> HIDE DEF locks
  <2>5. Does(h, locks)
    BY <1>4 DEF locks
  <2>6. held[h] # Free
    BY <1>4, <1>7
  <2> QED
    BY <1>1, <1>8, <2>1, <2>2, <2>4, <2>5, <2>6, Releases DEF two
<1>5. CASE /\ held[h].exclusive = 0 /\ held[h].shared > 0
           /\ Does(h, [held[h] EXCEPT !.shared = @ - 1])
  <2> DEFINE locks == [held[h] EXCEPT !.shared = @ - 1]
  <2>1. locks \in [Mode -> Nat] /\ locks.shared = held[h].shared - 1
        /\ locks.exclusive = held[h].exclusive
    BY <1>2, <1>5 DEF Mode
  <2>2. /\ locks.exclusive > 0 => held[h].exclusive > 0
        /\ locks # Free => held[h] # Free
    BY <1>2, <1>5, <2>1, LockFacts
  <2>3. \/ req[h].op \in {"unlock", "upgrade"} /\ held[h] = Only("shared")
        \/ /\ two
           /\ held[h].exclusive = 0 /\ held[h].shared = 2
    BY <1>5, <1>6, <1>7
  <2>4. \/ req[h].op \in {"unlock", "upgrade"} /\ locks = Free
        \/ two /\ locks = Only("shared")
    <3>1. \/ /\ req[h].op \in {"unlock", "upgrade"}
             /\ locks.shared = 0 /\ locks.exclusive = 0
          \/ /\ two
             /\ locks.shared = 1 /\ locks.exclusive = 0
      BY <2>1, <2>3, <1>7
    <3> HIDE DEF locks
    <3> QED
      BY <1>7, <2>1, <3>1, SameLocks
  <2> HIDE DEF locks
  <2>5. Does(h, locks)
    BY <1>5 DEF locks
  <2>6. held[h] # Free
    BY <1>5, <1>7
  <2> QED
    BY <1>1, <1>8, <2>1, <2>2, <2>4, <2>5, <2>6, Releases DEF two
<1>9. CASE Fault(h)
  BY <1>1, <1>9, FaultFacts, UnlockFails DEF Err
<1> QED
  BY <1>3, <1>4, <1>5, <1>9 DEF WinUnlock

(* What is held for itself does not stand in the way of a downgrade.       *)
LEMMA NothingBlocks ==
  ASSUME IInv, NEW h \in Handle, platform # "win", held[h] # Free, req[h].shared
  PROVE  Blockers(h) = {}
<1> SUFFICES ASSUME NEW g \in Blockers(h) PROVE FALSE
  OBVIOUS
<1>1. g \in Handle /\ g # h /\ Overlap(g, h) /\ held[g].exclusive > 0
  BY DEF Blockers, Asked, ModeOf
<1> QED
  BY <1>1 DEF IInv, KernelExcludes

(* flock(2) gives up the lock that is to be upgraded.                      *)
LEMMA MacGivesUp ==
  ASSUME IInv, NEW h \in Handle, At(h, "mac", "lock"), req[h].wait,
         Blockers(h) # {}, held[h] # Free,
         held' = [held EXCEPT ![h] = Free], UNCHANGED <<req, faults>>
  PROVE  IInv'
<1>1. Types /\ KernelExcludes /\ Queued /\ Placed(h) /\ Doubtful(h) /\ RegionTaken(h)
  BY DEF IInv
<1>2. /\ platform = "mac" /\ platform' = platform /\ region' = region /\ grant' = grant
      /\ doubt' = doubt /\ faults' = faults
      /\ queue' = queue /\ status' = status /\ calls' = calls
  BY DEF At
<1>3. Free \in [Mode -> Nat]
  BY LockFacts
<1>4. ~req[h].shared
  BY <1>2, NothingBlocks
<1>5. /\ req[h].op = "upgrade" /\ req[h].todo = <<"lock">> /\ req[h].err = "OK"
      /\ grant[h] \in Mode /\ doubt[h] = "none"
  BY <1>4, NextIsLock
<1>6. held'[h] = Free /\ \A k \in Handle \ {h} : held'[k] = held[k]
  BY <1>1 DEF Types
<1>7. CallState(h)'
  BY <1>2, <1>4, <1>5, <1>6 DEF CallState, InUnixConversion, Mode
<1>8. Types'
  BY <1>1, <1>2, <1>3 DEF Types
<1>9. KernelExcludes'
  BY <1>1, <1>2, <1>3, LockFacts, ExclusionKept
<1>10. RegionTaken(h)' /\ Doubtful(h)' /\ Placed(h)' /\ Queued'
  BY <1>1, <1>2, <1>5, QueueKept DEF RegionTaken, Rejected, Doubtful, Placed
<1> QED
  BY <1>2, <1>6, <1>7, <1>8, <1>9, <1>10, Local

(* A lock on a region that no other handle can have on this platform.      *)
LEMMA RejectedIsNew ==
  ASSUME IInv, NEW h \in Handle, NEW on, At(h, on, "lock"), Rejected(h)
  PROVE  req[h].op = "lock"
<1>1. grant[h] = "none"
  BY DEF IInv, RegionTaken
<1> QED
  BY <1>1, NextIsLock DEF Mode

(* A system call that fails for a reason of its own.                       *)
LEMMA FaultKeeps ==
  ASSUME IInv, NEW h \in Handle, NEW on, NEW syscall \in {"lock", "unlock"},
         At(h, on, syscall), Fault(h)
  PROVE  IInv'
<1>1. /\ Returns(h, "EIO") /\ faults' \in 0 .. MaxFaults
      /\ faults' >= faults /\ faults' > 0 /\ "EIO" \in Err
  BY FaultFacts DEF IInv, Err
<1>2. CASE syscall = "lock"
  BY <1>1, <1>2, LockFails
<1>3. CASE syscall = "unlock"
  BY <1>1, <1>3, UnlockFails
<1> QED
  BY <1>2, <1>3

LEMMA SystemKeeps ==
  ASSUME IInv, NEW h \in Handle, System(h)
  PROVE  IInv'
<1> USE DEF Err
<1>11. /\ Types
       /\ \A err \in Err : Fails(h, err) =>
            Returns(h, err) /\ faults' \in 0 .. MaxFaults /\ faults' >= faults
  BY FaultFacts DEF IInv
<1>1. CASE LinuxLock(h)
  <2>1. At(h, "linux", "lock") /\ ~Rejected(h)
    BY <1>1 DEF LinuxLock, At, Rejected
  <2>2. CASE Blockers(h) = {} /\ Does(h, Only(Asked(h)))
    BY <2>1, <2>2, UnixGrants
  <2> QED
    BY <1>1, <2>1, <2>2, FaultKeeps DEF LinuxLock
<1>2. CASE LinuxTryLock(h)
  <2>1. At(h, "linux", "lock") /\ ~req[h].wait /\ ~Rejected(h)
    BY <1>2 DEF LinuxTryLock, At, Rejected
  <2>2. CASE Blockers(h) = {} /\ Does(h, Only(Asked(h)))
    BY <2>1, <2>2, UnixGrants
  <2>3. CASE Blockers(h) # {} /\ Fails(h, "EAGAIN")
    BY <1>11, <2>1, <2>3, LockFails
  <2> QED
    BY <1>2, <2>1, <2>2, <2>3, FaultKeeps DEF LinuxTryLock
<1>3. CASE LinuxUnlock(h)
  <2>1. At(h, "linux", "unlock") /\ ~Rejected(h)
    BY <1>3 DEF LinuxUnlock, At, Rejected
  <2>2. CASE Does(h, Free)
    BY <2>1, <2>2, UnixUnlocks, LockFacts, Releases
  <2> QED
    BY <1>3, <2>1, <2>2, FaultKeeps DEF LinuxUnlock
<1>4. CASE MacLock(h)
  <2>1. At(h, "mac", "lock") /\ req[h].wait /\ (Rejected(h) <=> MacRejects(region[h]))
    BY <1>4 DEF MacLock, At, Rejected
  <2>2. CASE MacRejects(region[h]) /\ Fails(h, "EINVAL")
    BY <1>11, <2>1, <2>2, RejectedIsNew, LockFails
  <2>3. CASE ~MacRejects(region[h]) /\ Blockers(h) = {} /\ Does(h, Only(Asked(h)))
    BY <2>1, <2>3, UnixGrants
  <2>4. CASE /\ ~MacRejects(region[h]) /\ Blockers(h) # {} /\ held[h] # Free
             /\ held' = [held EXCEPT ![h] = Free]
             /\ UNCHANGED <<req, faults>>
    BY <2>1, <2>4, MacGivesUp
  <2> QED
    BY <1>4, <2>1, <2>2, <2>3, <2>4, FaultKeeps DEF MacLock
<1>5. CASE MacTryLock(h)
  <2>1. At(h, "mac", "lock") /\ ~req[h].wait /\ (Rejected(h) <=> MacRejects(region[h]))
    BY <1>5 DEF MacTryLock, At, Rejected
  <2>2. CASE MacRejects(region[h]) /\ Fails(h, "EINVAL")
    BY <1>11, <2>1, <2>2, RejectedIsNew, LockFails
  <2>3. CASE ~MacRejects(region[h]) /\ Blockers(h) = {} /\ Does(h, Only(Asked(h)))
    BY <2>1, <2>3, UnixGrants
  <2>4. CASE ~MacRejects(region[h]) /\ Blockers(h) # {} /\ Fails(h, "EAGAIN")
    BY <1>11, <2>1, <2>4, LockFails
  <2> QED
    BY <1>5, <2>1, <2>2, <2>3, <2>4, FaultKeeps DEF MacTryLock
<1>6. CASE MacUnlock(h)
  <2>1. At(h, "mac", "unlock") /\ (Rejected(h) <=> MacRejects(region[h]))
    BY <1>6 DEF MacUnlock, At, Rejected
  <2>2. req[h].op = "unlock"
    BY <2>1, UnixUnlocks
  <2>3. CASE MacRejects(region[h]) /\ Fails(h, "EINVAL")
    BY <1>11, <2>1, <2>2, <2>3, UnlockFails
  <2>4. CASE ~MacRejects(region[h]) /\ Does(h, Free)
    BY <2>1, <2>2, <2>4, LockFacts, Releases
  <2> QED
    BY <1>6, <2>1, <2>3, <2>4, FaultKeeps DEF MacUnlock
<1>7. CASE WinLock(h)
  <2>1. At(h, "win", "lock") /\ (Rejected(h) <=> WinRejects(region[h]))
    BY <1>7 DEF WinLock, At, Rejected
  <2>2. CASE WinRejects(region[h]) /\ Fails(h, "EIO")
    BY <1>11, <2>1, <2>2, RejectedIsNew, LockFails
  <2>3. CASE ~WinRejects(region[h]) /\ Blockers(h) = {} /\ WinAdds(h)
    BY <2>1, <2>3, WinGrants
  <2> QED
    BY <1>7, <2>1, <2>2, <2>3, FaultKeeps DEF WinLock
<1>8. CASE WinTryLock(h)
  <2>1. At(h, "win", "lock") /\ ~req[h].wait /\ (Rejected(h) <=> WinRejects(region[h]))
    BY <1>8 DEF WinTryLock, At, Rejected
  <2>2. CASE WinRejects(region[h]) /\ Fails(h, "EIO")
    BY <1>11, <2>1, <2>2, RejectedIsNew, LockFails
  <2>3. CASE ~WinRejects(region[h]) /\ Blockers(h) = {} /\ WinAdds(h)
    BY <2>1, <2>3, WinGrants
  <2>4. CASE ~WinRejects(region[h]) /\ Blockers(h) # {} /\ Fails(h, "EBUSY")
    BY <1>11, <2>1, <2>4, LockFails
  <2> QED
    BY <1>8, <2>1, <2>2, <2>3, <2>4, FaultKeeps DEF WinTryLock
<1>9. CASE WinUnlock(h)
  BY <1>9, WinReleases
<1>10. CASE Done(h)
  <2>1. /\ Types /\ KernelExcludes /\ Queued
        /\ Placed(h) /\ CallState(h) /\ Doubtful(h) /\ RegionTaken(h)
    BY DEF IInv
  <2>2. /\ platform' = platform /\ region' = region /\ grant' = grant /\ held' = held
        /\ queue' = queue /\ status' = status /\ calls' = calls
        /\ doubt' = doubt /\ faults' = faults
    BY <1>10 DEF Done
  <2> DEFINE c == [req[h] EXCEPT !.at = "done"]
  <2>3. req' = [req EXCEPT ![h] = c] /\ req[h] \in CallType
    BY <1>10, <2>1 DEF Done, Types
  <2>4. /\ c \in CallType /\ c.at = "done" /\ c.op = req[h].op /\ c.todo = req[h].todo
        /\ c.shared = req[h].shared /\ c.wait = req[h].wait /\ c.err = req[h].err
    BY <2>3 DEF CallType, Place
  <2> HIDE DEF c
  <2>5. req'[h] = c /\ \A k \in Handle \ {h} : req'[k] = req[k]
    BY <2>1, <2>3 DEF Types
  <2>6. Types'
    BY <2>1, <2>2, <2>3, <2>4 DEF Types
  <2>7. Placed(h)' /\ RegionTaken(h)' /\ Doubtful(h)'
    BY <1>10, <2>1, <2>2, <2>4, <2>5 DEF Done, Placed, RegionTaken, Rejected, Doubtful
  <2>8. CallState(h)'
    BY <2>1, <2>2, <2>4, <2>5
       DEF CallState, InLock, InUnlock, InUnixConversion, InWinDowngrade, InWinUpgrade, Told
  <2>9. KernelExcludes'
    BY <2>1, <2>2 DEF KernelExcludes, Overlap
  <2>10. Queued'
    BY <1>10, <2>1, <2>2, <2>5, QueueKept DEF Done
  <2> QED
    BY <2>2, <2>5, <2>6, <2>7, <2>8, <2>9, <2>10, Local
<1> QED
  BY <1>1, <1>2, <1>3, <1>4, <1>5, <1>6, <1>7, <1>8, <1>9, <1>10 DEF System

-----------------------------------------------------------------------------
(* Calls of the program, and their ends.                                   *)

LEMMA BeginKeeps ==
  ASSUME IInv, NEW h \in Handle, NEW op \in Op, NEW r \in Region[h] \cup {Whole},
         NEW shared \in BOOLEAN, NEW wait \in BOOLEAN,
         Begin(h, op, r, shared, wait), calls' \in 0 .. MaxCalls,
         op = "lock" => grant[h] = "none",
         op = "downgrade" => shared /\ Converts(h),
         op = "upgrade" => ~shared /\ Converts(h),
         grant[h] # "none" => r = region[h]
  PROVE  IInv'
<1>1. /\ Types /\ KernelExcludes /\ Queued
      /\ Placed(h) /\ CallState(h) /\ Doubtful(h) /\ RegionTaken(h)
  BY DEF IInv
<1>2. /\ req[h].op = "none" /\ req[h].at = "nowhere"
      /\ platform' = platform /\ held' = held /\ grant' = grant
      /\ doubt' = doubt /\ faults' = faults
      /\ region' = [region EXCEPT ![h] = r] /\ status' = "none"
      /\ queue' = IF wait THEN Append(queue, h) ELSE queue
  BY <1>1 DEF Begin, Idle, Placed
<1> DEFINE c == [op |-> op, todo |-> Todo(op), shared |-> shared, wait |-> wait,
                 at |-> IF wait THEN "queue" ELSE "loop", err |-> "OK"]
<1>3. req' = [req EXCEPT ![h] = c]
  BY DEF Begin
<1>4. /\ c.op = op /\ c.todo = Todo(op) /\ c.shared = shared /\ c.wait = wait
      /\ c.at = (IF wait THEN "queue" ELSE "loop") /\ c.err = "OK"
  OBVIOUS
<1>5. Todo(op) \in Todos
  BY DEF Todo, Todos, Op, WinDowngrade, WinUpgrade, UnixConvert
<1>6. c \in CallType
  BY <1>5 DEF CallType, Place, Err
<1> HIDE DEF c
<1>7. /\ req'[h] = c /\ region'[h] = r
      /\ \A k \in Handle \ {h} : req'[k] = req[k] /\ region'[k] = region[k]
  BY <1>1, <1>2, <1>3 DEF Types
<1>8. /\ Told(h) /\ (grant[h] = "none" \/ grant[h] \in Mode)
      /\ doubt[h] = "none" => held[h] = Holding(grant[h])
      /\ grant[h] = "none" => doubt[h] = "none" /\ held[h] = Free
  BY <1>1, <1>2, LockFacts DEF CallState, Types, Doubtful, Told
<1>9. Types'
  <2>1. region' = [k \in Handle |-> region'[k]]
    BY <1>1, <1>2 DEF Types
  <2>2. \A k \in Handle : region'[k] \in Region[k] \cup {Whole}
    BY <1>1, <1>7 DEF Types
  <2> QED
    BY <1>1, <1>2, <1>3, <1>6, <2>1, <2>2 DEF Types
<1>10. Placed(h)' /\ Doubtful(h)'
  BY <1>1, <1>2, <1>4, <1>7 DEF Placed, Doubtful, Op
<1>11. RegionTaken(h)'
  <2>1. held[h] # Free => grant[h] # "none"
    BY <1>8
  <2>2. region'[h] = region[h] \/ (grant[h] = "none" /\ held[h] = Free)
    BY <1>7, <2>1
  <2> QED
    BY <1>1, <1>2, <2>2 DEF RegionTaken, Rejected
<1>12. CallState(h)'
  <2>1. CASE op \in {"lock", "unlock"}
    <3>1. Todo(op) = <<op>>
      BY <2>1 DEF Todo
    <3>2. Told(h)'
      BY <1>2, <1>8 DEF Told
    <3> QED
      BY <1>2, <1>4, <1>7, <1>8, <2>1, <3>1, <3>2 DEF CallState, InLock, InUnlock
  <2>2. CASE op \in {"downgrade", "upgrade"} /\ platform # "win"
    <3>1. Todo(op) = <<"lock">>
      BY <2>2 DEF Todo, UnixConvert
    <3> QED
      BY <1>2, <1>4, <1>7, <1>8, <2>2, <3>1 DEF CallState, InUnixConversion, Converts, Holding
  <2>3. CASE op = "downgrade" /\ platform = "win"
    <3>1. Todo(op) = <<"lock", "unlock">>
      BY <2>3 DEF Todo, WinDowngrade
    <3> QED
      BY <1>2, <1>4, <1>7, <1>8, <2>3, <3>1 DEF CallState, InWinDowngrade, Converts, Holding
  <2>4. CASE op = "upgrade" /\ platform = "win"
    <3>1. Todo(op) = <<"unlock", "lock">>
      BY <2>4 DEF Todo, WinUpgrade
    <3> QED
      BY <1>2, <1>4, <1>7, <1>8, <2>4, <3>1 DEF CallState, InWinUpgrade, Converts, Holding
  <2> QED
    BY <2>1, <2>2, <2>3, <2>4 DEF Op
<1>13. KernelExcludes'
  <2>1. CASE grant[h] = "none"
    <3>1. held[h] = Free /\ held[h].exclusive = 0
      BY <1>8, <2>1, LockFacts
    <3> SUFFICES ASSUME NEW f \in Handle, NEW g \in Handle, f # g, Overlap(f, g)',
                        held[f].exclusive > 0
                 PROVE  held[g] = Free
      BY <1>2 DEF KernelExcludes
    <3>2. f # h
      BY <3>1
    <3>3. CASE g # h
      BY <1>1, <1>7, <3>2, <3>3 DEF KernelExcludes, Overlap
    <3> QED
      BY <3>1, <3>3
  <2>2. CASE grant[h] # "none"
    <3>1. region' = region
      BY <1>1, <1>2, <2>2 DEF Types
    <3> QED
      BY <1>1, <1>2, <3>1 DEF KernelExcludes, Overlap
  <2> QED
    BY <2>1, <2>2
<1>14. Queued'
  <2>1. \A i \in 1 .. Len(queue) : queue[i] \in Handle /\ queue[i] # h
    BY <1>1, <1>2 DEF Types, Queued
  <2>2. CASE ~wait
    BY <1>1, <1>2, <1>7, <2>1, <2>2 DEF Queued
  <2>3. CASE wait
    <3>1. Len(queue') = Len(queue) + 1 /\ queue'[Len(queue) + 1] = h
          /\ Len(queue) \in Nat
          /\ \A i \in 1 .. Len(queue) : queue'[i] = queue[i]
      BY <1>1, <1>2, <2>3 DEF Types
    <3>2. req'[h].at = "queue"
      BY <1>4, <1>7, <2>3
    <3>3. \A i \in 1 .. Len(queue') : i \in 1 .. Len(queue) \/ i = Len(queue) + 1
      BY <3>1
    <3>6. \A i \in 1 .. Len(queue) :
             queue'[i] = queue[i] /\ queue'[i] # h /\ queue'[i] \in Handle
      BY <2>1, <3>1
    <3>7. \A i \in 1 .. Len(queue) : req'[queue'[i]].at = "queue"
      BY <1>1, <1>7, <3>6 DEF Queued
    <3>4. ASSUME NEW i \in 1 .. Len(queue'), NEW j \in 1 .. Len(queue'), queue'[i] = queue'[j]
          PROVE  i = j
      <4>1. CASE i = Len(queue) + 1
        BY <3>1, <3>3, <3>4, <3>6, <4>1
      <4>2. CASE j = Len(queue) + 1
        BY <3>1, <3>3, <3>4, <3>6, <4>2
      <4>3. CASE i \in 1 .. Len(queue) /\ j \in 1 .. Len(queue)
        BY <1>1, <3>1, <3>4, <4>3 DEF Queued
      <4> QED
        BY <3>3, <4>1, <4>2, <4>3
    <3>5. \A i \in 1 .. Len(queue') : req'[queue'[i]].at = "queue"
      BY <3>1, <3>2, <3>3, <3>7
    <3> QED
      BY <3>4, <3>5 DEF Queued
  <2> QED
    BY <2>2, <2>3
<1> QED
  BY <1>2, <1>7, <1>9, <1>10, <1>11, <1>12, <1>13, <1>14, Local

LEMMA TakeKeeps == IInv /\ Take => IInv'
<1> SUFFICES ASSUME IInv, Take PROVE IInv'
  OBVIOUS
<1>1. Types /\ KernelExcludes /\ Queued
  BY DEF IInv
<1>14. PICK h \in Handle : h = Head(queue)
  BY <1>1 DEF Take, Types
<1>2. /\ queue # << >> /\ queue' = Tail(queue)
      /\ platform' = platform /\ held' = held /\ region' = region /\ grant' = grant
      /\ status' = status /\ calls' = calls /\ doubt' = doubt /\ faults' = faults
  BY DEF Take
<1>3. /\ h = queue[1] /\ Len(queue) \in Nat /\ 1 \in 1 .. Len(queue) /\ h \in Handle
      /\ queue' \in Seq(Handle) /\ Len(queue') = Len(queue) - 1
      /\ \A i \in 1 .. Len(queue') : queue'[i] = queue[i + 1]
  BY <1>1, <1>2, <1>14 DEF Types
<1>4. req[h].at = "queue" /\ \A i \in 1 .. Len(queue) : i # 1 => queue[i] # h
  BY <1>1, <1>3 DEF Queued
<1> DEFINE c == [req[h] EXCEPT !.at = "worker"]
<1>5. req' = [req EXCEPT ![h] = c] /\ req[h] \in CallType
  BY <1>1, <1>14 DEF Take, Types
<1>6. /\ c \in CallType /\ c.at = "worker" /\ c.op = req[h].op /\ c.todo = req[h].todo
      /\ c.shared = req[h].shared /\ c.wait = req[h].wait /\ c.err = req[h].err
  BY <1>5 DEF CallType, Place
<1> HIDE DEF c
<1>7. req'[h] = c /\ \A k \in Handle \ {h} : req'[k] = req[k]
  BY <1>1, <1>3, <1>5 DEF Types
<1>8. Placed(h) /\ CallState(h) /\ Doubtful(h) /\ RegionTaken(h)
  BY <1>3 DEF IInv
<1>9. Types'
  BY <1>1, <1>2, <1>3, <1>5, <1>6 DEF Types
<1>10. Placed(h)' /\ RegionTaken(h)' /\ Doubtful(h)'
  BY <1>2, <1>4, <1>6, <1>7, <1>8 DEF Placed, RegionTaken, Rejected, Doubtful
<1>11. CallState(h)'
  BY <1>2, <1>6, <1>7, <1>8
     DEF CallState, InLock, InUnlock, InUnixConversion, InWinDowngrade, InWinUpgrade, Told
<1>12. KernelExcludes'
  BY <1>1, <1>2 DEF KernelExcludes, Overlap
<1>13. Queued'
  <2>1. ASSUME NEW i \in 1 .. Len(queue')
        PROVE  /\ i + 1 \in 1 .. Len(queue) /\ queue'[i] = queue[i + 1]
               /\ queue'[i] \in Handle \ {h}
    <3>1. i + 1 \in 1 .. Len(queue) /\ i + 1 # 1
      BY <1>3
    <3> QED
      BY <1>1, <1>3, <1>4, <3>1 DEF Types
  <2>2. ASSUME NEW i \in 1 .. Len(queue'), NEW j \in 1 .. Len(queue'), queue'[i] = queue'[j]
        PROVE  i = j
    <3>1. i + 1 \in 1 .. Len(queue) /\ j + 1 \in 1 .. Len(queue) /\ queue[i + 1] = queue[j + 1]
      BY <2>1, <2>2
    <3>2. i + 1 = j + 1
      BY <1>1, <3>1 DEF Queued
    <3> QED
      BY <1>3, <3>2
  <2>3. ASSUME NEW i \in 1 .. Len(queue') PROVE req'[queue'[i]].at = "queue"
    BY <1>1, <1>7, <2>1 DEF Queued
  <2> QED
    BY <2>2, <2>3 DEF Queued
<1> QED
  BY <1>2, <1>3, <1>7, <1>9, <1>10, <1>11, <1>12, <1>13, Local

(* What the program is told is what the call left.                         *)
LEMMA OutcomeIsHeld ==
  ASSUME IInv, NEW h \in Handle, req[h].todo = << >>, req[h].op # "none",
         NEW g, NEW d, g = Outcome(h), d = Doubt(h)
  PROVE  /\ g \in Mode \cup {"none"} /\ d \in {"none", "less", "more"}
         /\ \/ held[h] = Holding(g)
            \/ d = "less" /\ held[h] = Free
            \/ d = "more" /\ held[h] = Stacked(g)
         /\ g = "none" => held[h] = Free
         /\ g # "none" => grant[h] # "none" \/ held[h] # Free
         /\ d # "none" => g # "none" /\ platform # "linux" /\ faults > 0
         /\ d = "more" => platform = "win"
<1>1. CallState(h) /\ Types /\ Doubtful(h) /\ Placed(h)
  BY DEF IInv
<1>2. (grant[h] = "none" \/ grant[h] \in Mode) /\ platform \in Platform
  BY <1>1 DEF Types
<1>3. req[h].shared \in BOOLEAN /\ doubt[h] \in {"none", "less", "more"}
  BY <1>1 DEF Types, CallType
<1>9. ModeOf(req[h].shared) \in Mode /\ Holding("none") = Free
      /\ \A m \in Mode : Holding(m) = Only(m) /\ Only(m) # Free /\ m # "none"
  BY <1>3, ModeFacts, LockFacts DEF Mode
<1>10. "shared" \in Mode /\ "exclusive" \in Mode
       /\ (req[h].shared => ModeOf(req[h].shared) = "shared")
       /\ (~req[h].shared => ModeOf(req[h].shared) = "exclusive")
  BY DEF Mode, ModeOf
<1>4. CASE req[h].op = "lock"
  <2>1. /\ grant[h] = "none"
        /\ req[h].err = "OK" => held[h] = Only(ModeOf(req[h].shared))
        /\ req[h].err # "OK" => held[h] = Free
    BY <1>1, <1>4, TodoFacts DEF CallState, InLock
  <2>2. d = "none" /\ g = IF req[h].err = "OK" THEN ModeOf(req[h].shared) ELSE "none"
    BY <1>4, <2>1 DEF Outcome, Doubt
  <2> QED
    BY <1>9, <2>1, <2>2
<1>5. CASE req[h].op = "unlock"
  <2>1. CASE req[h].err = "ENOTLOCKED" \/ (req[h].err = "OK" /\ doubt[h] # "more")
    <3>1. held[h] = Free
      BY <1>1, <1>5, <2>1, TodoFacts DEF CallState, InUnlock
    <3>2. g = "none" /\ d = "none"
      BY <1>5, <2>1 DEF Outcome, Doubt
    <3> QED
      BY <1>9, <3>1, <3>2
  <2>2. CASE req[h].err = "OK" /\ doubt[h] = "more"
    <3>1. held[h] = Free \/ held[h] = Only("shared")
      BY <1>1, <1>5, <2>2, TodoFacts DEF CallState, InUnlock
    <3>2. g = "shared" /\ d = "less"
      BY <1>5, <2>2 DEF Outcome, Doubt
    <3> QED
      BY <1>1, <1>9, <1>10, <2>2, <3>1, <3>2 DEF Doubtful
  <2>3. CASE req[h].err \in {"EINVAL", "EIO"}
    <3>1. Told(h) /\ g = grant[h]
      BY <1>1, <1>5, <2>3, TodoFacts DEF CallState, InUnlock, Outcome
    <3>2. d = doubt[h]
      BY <1>5, <2>3 DEF Doubt
    <3> QED
      BY <1>1, <1>2, <1>3, <1>9, <3>1, <3>2 DEF Told, Doubtful
  <2> QED
    BY <1>1, <1>5, <2>1, <2>2, <2>3, TodoFacts DEF CallState, InUnlock
<1>6. CASE req[h].op = "downgrade"
  <2>1. req[h].shared /\ grant[h] \in Mode /\ doubt[h] = "none"
        /\ (req[h].err = "OK" => held[h] = Only("shared"))
        /\ req[h].err \in {"OK", "EAGAIN", "EBUSY", "EIO"}
        /\ (req[h].err # "OK" =>
              \/ held[h] = Only(grant[h])
              \/ platform = "win" /\ req[h].err = "EIO" /\ held[h] = Stacked(grant[h]))
    BY <1>1, <1>2, <1>6, <1>10, TodoFacts
       DEF CallState, InUnixConversion, InWinDowngrade
  <2>2. g = IF req[h].err = "OK" THEN "shared" ELSE grant[h]
    BY <1>6, <1>10, <2>1 DEF Outcome
  <2>3. d = IF req[h].err = "EIO" /\ platform = "win" THEN "more" ELSE "none"
    BY <1>6 DEF Doubt
  <2>4. req[h].err = "EIO" => faults > 0
    BY <1>1, <1>6 DEF Placed
  <2> QED
    BY <1>9, <1>10, <2>1, <2>2, <2>3, <2>4
<1>7. CASE req[h].op = "upgrade"
  <2>1. ~req[h].shared /\ grant[h] \in Mode /\ doubt[h] = "none"
        /\ (req[h].err = "OK" => held[h] = Only("exclusive"))
        /\ req[h].err \in {"OK", "EAGAIN", "EBUSY", "EIO"}
        /\ (req[h].err = "EAGAIN" => platform # "win" /\ held[h] = Only(grant[h]))
        /\ (req[h].err = "EBUSY" => platform = "win" /\ held[h] = Free)
        /\ (req[h].err = "EIO" =>
              \/ held[h] = Only(grant[h])
              \/ held[h] = Free /\ (platform = "win" \/ (platform = "mac" /\ req[h].wait)))
    BY <1>1, <1>2, <1>7, <1>10, TodoFacts
       DEF CallState, InUnixConversion, InWinUpgrade
  <2>2. g = IF req[h].err = "OK" THEN "exclusive"
            ELSE IF req[h].err = "EBUSY" THEN "none" ELSE grant[h]
    BY <1>7, <1>10, <2>1 DEF Outcome
  <2>3. d = IF /\ req[h].err = "EIO"
               /\ platform = "win" \/ (platform = "mac" /\ req[h].wait)
            THEN "less" ELSE "none"
    BY <1>7 DEF Doubt
  <2>4. req[h].err = "EIO" => faults > 0
    BY <1>1, <1>7 DEF Placed
  <2> QED
    BY <1>9, <1>10, <2>1, <2>2, <2>3, <2>4
<1>8. req[h].op \in Op
  BY <1>1 DEF Types, CallType
<1> QED
  BY <1>4, <1>5, <1>6, <1>7, <1>8 DEF Op

LEMMA EndKeeps ==
  ASSUME IInv, NEW h \in Handle, req[h].at \in {"done", "loop"},
         NEW err \in Err \ {"EBUSY"}, End(h, err)
  PROVE  IInv'
<1>1. /\ Types /\ KernelExcludes /\ Queued
      /\ Placed(h) /\ CallState(h) /\ Doubtful(h) /\ RegionTaken(h)
  BY DEF IInv
<1>11. PICK g, d : g = Outcome(h) /\ d = Doubt(h)
  OBVIOUS
<1>2. /\ req[h].todo = << >> /\ req[h].op # "none"
      /\ platform' = platform /\ held' = held /\ queue' = queue /\ calls' = calls
      /\ grant' = [grant EXCEPT ![h] = g] /\ status' = err
      /\ doubt' = [doubt EXCEPT ![h] = d] /\ faults' = faults
      /\ req' = [req EXCEPT ![h] = None]
  BY <1>1, <1>11 DEF End, Placed
<1>3. /\ g \in Mode \cup {"none"} /\ d \in {"none", "less", "more"}
      /\ \/ held[h] = Holding(g)
         \/ d = "less" /\ held[h] = Free
         \/ d = "more" /\ held[h] = Stacked(g)
      /\ g = "none" => held[h] = Free
      /\ g # "none" => grant[h] # "none" \/ held[h] # Free
      /\ d # "none" => g # "none" /\ platform # "linux" /\ faults > 0
      /\ d = "more" => platform = "win"
  BY <1>2, <1>11, OutcomeIsHeld
<1>4. None \in CallType
  BY DEF None, CallType, Todos, Place, Err
<1>5. /\ req'[h] = None /\ grant'[h] = g /\ doubt'[h] = d
      /\ region'[h] = IF g = "none" THEN Whole ELSE region[h]
      /\ region' = [region EXCEPT ![h] = IF g = "none" THEN Whole ELSE region[h]]
      /\ \A k \in Handle \ {h} :
           /\ req'[k] = req[k] /\ grant'[k] = grant[k]
           /\ doubt'[k] = doubt[k] /\ region'[k] = region[k]
  BY <1>1, <1>2 DEF Types, End
<1>6. Types'
  <2>1. region' = [k \in Handle |-> region'[k]]
    BY <1>1, <1>5 DEF Types
  <2>2. \A k \in Handle : region'[k] \in Region[k] \cup {Whole}
    BY <1>1, <1>5 DEF Types
  <2> QED
    BY <1>1, <1>2, <1>3, <1>4, <1>5, <2>1, <2>2 DEF Types
<1>7. Placed(h)' /\ CallState(h)' /\ Doubtful(h)'
  BY <1>2, <1>3, <1>5 DEF Placed, CallState, Told, Doubtful, None
<1>8. RegionTaken(h)'
  <2>1. CASE g = "none"
    BY <1>5, <2>1 DEF RegionTaken, Rejected, MacRejects, WinRejects, Whole
  <2>2. CASE g # "none"
    BY <1>1, <1>2, <1>3, <1>5, <2>2 DEF RegionTaken, Rejected
  <2> QED
    BY <2>1, <2>2
<1>9. KernelExcludes'
  <2>1. CASE g = "none"
    <3>1. held[h] = Free /\ held[h].exclusive = 0
      BY <1>3, <2>1, LockFacts
    <3> SUFFICES ASSUME NEW f \in Handle, NEW k \in Handle, f # k, Overlap(f, k)',
                        held[f].exclusive > 0
                 PROVE  held[k] = Free
      BY <1>2 DEF KernelExcludes
    <3>2. f # h
      BY <3>1
    <3>3. CASE k # h
      BY <1>1, <1>5, <3>2, <3>3 DEF KernelExcludes, Overlap
    <3> QED
      BY <3>1, <3>3
  <2>2. CASE g # "none"
    <3>1. region' = region
      BY <1>1, <1>5, <2>2 DEF Types
    <3> QED
      BY <1>1, <1>2, <3>1 DEF KernelExcludes, Overlap
  <2> QED
    BY <2>1, <2>2
<1>10. Queued'
  BY <1>1, <1>2, <1>5, QueueKept
<1> QED
  BY <1>2, <1>5, <1>6, <1>7, <1>8, <1>9, <1>10, Local

(* EBUSY stays inside.                                                     *)
LEMMA LoopKeeps ==
  ASSUME IInv, NEW h \in Handle, Loop(h)
  PROVE  IInv'
<1>1. Placed(h) /\ req[h].err \in Err
  BY DEF IInv, Types, CallType
<1>2. CASE AfterWork(h)
  <2>1. req[h].at = "done" /\ End(h, req[h].err)
    BY <1>2 DEF AfterWork
  <2>2. req[h].err \in Err \ {"EBUSY"}
    BY <1>1, <2>1 DEF Placed, Err
  <2> QED
    BY <2>1, <2>2, EndKeeps
<1>3. CASE TryReturn(h)
  <2>1. TryErr(req[h].err) \in Err \ {"EBUSY"}
    BY <1>1 DEF TryErr, Err
  <2> QED
    BY <1>3, <2>1, EndKeeps DEF TryReturn
<1>4. CASE UnlockReturn(h)
  <2>1. req[h].at = "loop" /\ req[h].op = "unlock" /\ End(h, req[h].err)
    BY <1>4 DEF UnlockReturn
  <2>2. req[h].err \in Err \ {"EBUSY"}
    BY <1>1, <2>1 DEF Placed, Err
  <2> QED
    BY <2>1, <2>2, EndKeeps
<1> QED
  BY <1>2, <1>3, <1>4 DEF Loop

LEMMA StepKeeps == IInv /\ [Next]_vars => IInv'
<1> SUFFICES ASSUME IInv, [Next]_vars PROVE IInv'
  OBVIOUS
<1>1. Types /\ MaxCalls \in Nat
  BY LockAssumption DEF IInv
<1>2. Counted => calls' \in 0 .. MaxCalls
  BY <1>1 DEF Types, Counted
<1>3. \A h \in Handle : region[h] \in Region[h] \cup {Whole}
  BY <1>1 DEF Types
<1>4. ASSUME NEW h \in Handle, NEW r \in Region[h], NEW s \in BOOLEAN,
             FsLock(h, r, s) \/ FsTryLock(h, r, s)
      PROVE  IInv'
  BY <1>2, <1>4, BeginKeeps DEF FsLock, FsTryLock, Op
<1>5. ASSUME NEW h \in Handle, FsDowngradeLock(h) \/ FsTryDowngradeLock(h)
      PROVE  IInv'
  BY <1>2, <1>3, <1>5, BeginKeeps DEF Converts, FsDowngradeLock, FsTryDowngradeLock, Op
<1>6. ASSUME NEW h \in Handle, FsUpgradeLock(h) \/ FsTryUpgradeLock(h)
      PROVE  IInv'
  BY <1>2, <1>3, <1>6, BeginKeeps DEF Converts, FsUpgradeLock, FsTryUpgradeLock, Op
<1>7. ASSUME NEW h \in Handle, FsUnlock(h)
      PROVE  IInv'
  <2>1. calls' \in 0 .. MaxCalls
    BY <1>1, <1>2, <1>7 DEF FsUnlock, Types
  <2> QED
    BY <1>3, <1>7, <2>1, BeginKeeps DEF FsUnlock, Op
<1>8. CASE Take
  BY <1>8, TakeKeeps
<1>9. ASSUME NEW h \in Handle, System(h) PROVE IInv'
  BY <1>9, SystemKeeps
<1>10. ASSUME NEW h \in Handle, Loop(h) PROVE IInv'
  BY <1>10, LoopKeeps
<1>11. CASE UNCHANGED vars
  BY <1>11
     DEF vars, IInv, Types, Placed, CallState, InLock, InUnlock, InUnixConversion,
         InWinDowngrade, InWinUpgrade, Told, Doubtful, RegionTaken, Rejected,
         KernelExcludes, Overlap, Queued
<1> QED
  BY <1>4, <1>5, <1>6, <1>7, <1>8, <1>9, <1>10, <1>11 DEF Next

-----------------------------------------------------------------------------
(* The theorems.                                                           *)

(* Of every reachable state IInv holds.                                    *)
THEOREM Invariance == Spec => []IInv
<1>1. Init => IInv
  BY InitEstablishes
<1>2. IInv /\ [Next]_vars => IInv'
  BY StepKeeps
<1> QED
  BY <1>1, <1>2, PTL DEF Spec

(* How many locks a handle can have: two on Windows, and one elsewhere.    *)
LEMMA HeldIsSmall ==
  ASSUME IInv, NEW h \in Handle
  PROVE  held[h].shared \in 0 .. 2 /\ held[h].exclusive \in 0 .. 2
<1>1. CallState(h) /\ Types /\ Doubtful(h)
  BY DEF IInv
<1>2. /\ grant[h] = "none" \/ grant[h] \in Mode
      /\ doubt[h] = "more" => grant[h] \in Mode
      /\ req[h].shared \in BOOLEAN
  BY <1>1 DEF Types, CallType, Doubtful
<1>3. \/ held[h] = Free \/ \E m \in Mode : held[h] = Only(m)
      \/ \E m \in Mode : held[h] = Stacked(m)
  BY <1>1, <1>2, ModeFacts
     DEF CallState, InLock, InUnlock, InUnixConversion, InWinDowngrade, InWinUpgrade,
         Told, Holding, Mode
<1>4. CASE held[h] = Free
  BY <1>4, LockFacts
<1>5. ASSUME NEW m \in Mode, held[h] = Only(m)
      PROVE  held[h].shared \in 0 .. 2 /\ held[h].exclusive \in 0 .. 2
  BY <1>5, LockFacts
<1>6. ASSUME NEW m \in Mode, held[h] = Stacked(m)
      PROVE  held[h].shared \in 0 .. 2 /\ held[h].exclusive \in 0 .. 2
  <2>1. /\ held[h].exclusive = IF m = "exclusive" THEN 1 ELSE 0
        /\ held[h].shared = IF m = "shared" THEN 2 ELSE 1
    BY <1>6, StackedFacts
  <2> QED
    BY <2>1
<1> QED
  BY <1>3, <1>4, <1>5, <1>6

(* Every field keeps its type, and no error but the listed ones reaches    *)
(* the program: EBUSY of Windows becomes EAGAIN.                           *)
THEOREM TypeCorrect == Spec => []TypeOK
<1>1. IInv => TypeOK
  <2> SUFFICES ASSUME IInv PROVE TypeOK
    OBVIOUS
  <2>1. Types
    BY DEF IInv
  <2>2. \A h \in Handle : held[h] \in [Mode -> Nat] /\ \A m \in Mode : held[h][m] \in 0 .. 2
    BY <2>1, HeldIsSmall DEF Types, Mode
  <2>3. held \in [Handle -> [Mode -> 0 .. 2]]
    BY <2>1, <2>2 DEF Types
  <2> QED
    BY <2>1, <2>3 DEF Types, TypeOK, CallType
<1> QED
  BY <1>1, Invariance, PTL

(* On every platform, between its calls a handle has exactly the lock its  *)
(* last call left it, whatever happened between two system calls of one.   *)
(* The exceptions are the conversions of which a system call failed for a  *)
(* reason of its own, on macOS (an upgrade) and on Windows (either way).   *)
THEOREM CallsTellTheTruth == Spec => []GrantIsHeld
<1>1. IInv => GrantIsHeld
  <2> SUFFICES ASSUME IInv, NEW h \in Handle, Idle(h)
               PROVE  Told(h) /\ (platform = "linux" \/ faults = 0 => doubt[h] = "none")
    BY DEF GrantIsHeld
  <2>1. Told(h)
    BY DEF IInv, CallState, Idle
  <2> QED
    BY <2>1 DEF IInv, Doubtful
<1> QED
  BY <1>1, Invariance, PTL

(* What the program can be sure is exclusive is: two handles never both    *)
(* have overlapping regions, of any size, when one lock is exclusive.      *)
THEOREM LocksExclude == Spec => []Exclusion
<1>1. ASSUME IInv, NEW g \in Handle, NEW h \in Handle, g # h, Idle(g), Idle(h),
             Overlap(g, h), Sure(g), Sure(h)
      PROVE  grant[g] = "shared"
  <2>1. Told(g) /\ Told(h) /\ grant[g] \in Mode /\ grant[h] \in Mode
    BY <1>1 DEF IInv, Types, CallState, Idle, Sure
  <2>2. held[h] # Free
    BY <1>1, <2>1, LockFacts, StackedFacts DEF Told, Sure
  <2>3. ASSUME grant[g] = "exclusive" PROVE held[g].exclusive > 0
    <3>1. "exclusive" \in Mode
      BY DEF Mode
    <3>2. Stacked("exclusive").exclusive = 1 /\ Only("exclusive").exclusive = 1
      BY <3>1, LockFacts, StackedFacts
    <3>3. held[g] = Only("exclusive") \/ held[g] = Stacked("exclusive")
      BY <1>1, <2>1, <2>3, <3>1, LockFacts DEF Told, Sure
    <3> QED
      BY <3>2, <3>3
  <2>4. ~(held[g].exclusive > 0)
    BY <1>1, <2>2 DEF IInv, KernelExcludes
  <2> QED
    BY <2>1, <2>3, <2>4 DEF Mode
<1>2. \A g, h \in Handle : Overlap(g, h) => Overlap(h, g)
  BY DEF Overlap
<1>3. IInv => Exclusion
  BY <1>1, <1>2 DEF Exclusion
<1> QED
  BY <1>3, Invariance, PTL

(* A downgrade never leaves its handle without a lock, nor does an upgrade *)
(* on Linux: no other handle gets in between.                              *)
THEOREM ConversionsKeepLocks == Spec => []ConversionKeepsLock
<1>1. IInv => ConversionKeepsLock
  <2> SUFFICES ASSUME IInv, NEW h \in Handle,
                      req[h].op = "downgrade" \/ (req[h].op = "upgrade" /\ platform = "linux")
               PROVE  held[h] # Free
    BY DEF ConversionKeepsLock
  <2>1. CallState(h) /\ grant[h] \in Mode /\ req[h].shared \in BOOLEAN
    BY DEF IInv, Types, CallType, CallState
  <2>2. \/ \E m \in Mode : held[h] = Only(m)
        \/ held[h] = Stacked(grant[h])
    BY <2>1, ModeFacts DEF CallState, InUnixConversion, InWinDowngrade, InWinUpgrade, Mode
  <2> QED
    BY <2>1, <2>2, LockFacts, StackedFacts
<1> QED
  BY <1>1, Invariance, PTL

-----------------------------------------------------------------------------
(* Deadlocks.                                                              *)

(* What a handle that stands in the way of another one holds.              *)
LEMMA BlockerHolds ==
  ASSUME IInv, NEW h \in Handle, NEW g \in Blockers(h)
  PROVE  /\ g \in Handle /\ held[g] # Free /\ Overlap(g, h) /\ Overlap(h, g)
         /\ req[h].shared => held[g].exclusive > 0
         /\ g = h => platform = "win" /\ ~req[h].shared
<1>1. /\ g \in Handle /\ Overlap(g, h)
      /\ held[g].exclusive > 0 \/ (Asked(h) = "exclusive" /\ held[g].shared > 0)
      /\ g # h \/ (platform = "win" /\ Asked(h) = "exclusive")
  BY DEF Blockers
<1>2. held[g] \in [Mode -> Nat] /\ req[h].shared \in BOOLEAN
  BY <1>1 DEF IInv, Types, CallType
<1>3. Overlap(h, g)
  BY <1>1 DEF Overlap
<1> QED
  BY <1>1, <1>2, <1>3, LockFacts DEF Asked, ModeOf

(* The only call that waits while its handle holds a lock is an upgrade on *)
(* Linux.  A downgrade never waits: who stands in the way of a shared lock *)
(* has an exclusive one, and beside it nobody has a lock.                  *)
LEMMA WaitingHolderUpgrades ==
  ASSUME IInv, NEW g \in Handle, Waits(g), held[g] # Free
  PROVE  platform = "linux" /\ req[g].op = "upgrade" /\ ~req[g].shared
<1>1. /\ Types /\ KernelExcludes /\ CallState(g)
      /\ req[g].todo # << >> /\ Head(req[g].todo) = "lock"
      /\ platform # "mac" /\ platform \in Platform
  BY DEF IInv, Types, Waits
<1>2. ~req[g].shared
  <2> SUFFICES ASSUME req[g].shared PROVE FALSE
    BY <1>1 DEF Types, CallType
  <2>1. PICK k \in Blockers(g) : TRUE
    BY DEF Waits
  <2>2. k \in Handle /\ k # g /\ Overlap(k, g) /\ held[k].exclusive > 0
    BY <2>1, BlockerHolds
  <2> QED
    BY <1>1, <2>2 DEF KernelExcludes
<1>3. req[g].op \notin {"none", "lock", "unlock", "downgrade"}
  <2>1. req[g].op # "none"
    BY DEF IInv, Placed, Waits
  <2>2. req[g].op # "lock"
    BY <1>1, TodoFacts DEF CallState, InLock
  <2>3. req[g].op # "unlock"
    BY <1>1, TodoFacts DEF CallState, InUnlock
  <2> QED
    BY <1>1, <1>2, <2>1, <2>2, <2>3 DEF CallState
<1>4. platform # "win"
  BY <1>1, <1>3, TodoFacts DEF CallState, InUnixConversion, InWinUpgrade
<1> QED
  BY <1>1, <1>2, <1>3, <1>4 DEF CallState, Platform

(* Who waits for a lock is stuck only behind an upgrade on Linux, or       *)
(* behind a call that the pool has no thread for: no third deadlock exists *)
(* (src/lock.c:32, 51, 70, src/win/lock.c:46).                             *)
THEOREM DeadlocksHaveCause == Spec => []DeadlockHasCause
<1>1. IInv => DeadlockHasCause
  <2> DEFINE busy == {h \in Handle : ~Idle(h)}
             full == Cardinality(Running) = Workers
  <2>1. SUFFICES ASSUME IInv, busy # {},
                        \A h \in busy : Waits(h) \/ (req[h].at = "queue" /\ full),
                        \A h \in Running : \A g \in Blockers(h) : ~Idle(g)
                 PROVE  UpgradeDeadlock \/ PoolDeadlock
    BY DEF DeadlockHasCause
  <2>2. \A h \in Running : h \in busy /\ req[h].at = "worker" /\ Waits(h)
    BY <2>1 DEF Running, Idle, IInv, Placed
  <2>3. \A h \in Handle : Waits(h) => h \in Running
    BY DEF Waits, Running
  <2>4. Running # {}
    <3>1. full => Running # {}
      BY LockAssumption, FS_EmptySet
    <3> QED
      BY <2>1, <2>3, <3>1
  <2>5. ASSUME NEW h \in Running, NEW g \in Blockers(h)
        PROVE  PoolDeadlock \/ (Waits(g) /\ g \in Handle /\ held[g] # Free)
    <3>1. h \in Handle /\ g \in Handle /\ held[g] # Free /\ g \in busy
      BY <2>1, <2>5, BlockerHolds DEF Running
    <3>2. req[g].at = "queue" /\ full => PoolDeadlock
      BY <2>2, <2>5 DEF PoolDeadlock
    <3> QED
      BY <2>1, <3>1, <3>2
  <2>6. PICK h \in Running : TRUE
    BY <2>4
  <2>7. PICK g \in Blockers(h) : TRUE
    BY <2>2 DEF Waits
  <2>8. SUFFICES ASSUME ~PoolDeadlock PROVE UpgradeDeadlock
    OBVIOUS
  <2>9. g \in Handle /\ g \in Running /\ Waits(g) /\ held[g] # Free
    BY <2>3, <2>5, <2>6, <2>7, <2>8
  <2>10. PICK k \in Blockers(g) : TRUE
    BY <2>9 DEF Waits
  <2>11. k \in Handle /\ Waits(k) /\ held[k] # Free
    BY <2>5, <2>8, <2>9, <2>10
  <2>12. /\ platform = "linux" /\ req[g].op = "upgrade" /\ req[k].op = "upgrade"
         /\ ~req[k].shared
    BY <2>1, <2>9, <2>11, WaitingHolderUpgrades
  <2>13. k # g /\ Overlap(g, k)
    BY <2>1, <2>9, <2>10, <2>12, BlockerHolds
  <2>14. g \in Blockers(k)
    <3>1. held[g] \in [Mode -> Nat]
      BY <2>1, <2>9 DEF IInv, Types
    <3> QED
      BY <2>9, <2>12, <2>13, <3>1, LockFacts DEF Blockers, Asked, ModeOf
  <2> QED
    BY <2>9, <2>10, <2>11, <2>12, <2>13, <2>14 DEF UpgradeDeadlock, Waits
<1> QED
  BY <1>1, Invariance, PTL
=============================================================================
