-------------------------------- MODULE Lock --------------------------------
(***************************************************************************)
(* The file locks: src/lock.c, src/try-lock.c, src/unlock.c and the three  *)
(* implementations behind them, linux/, mac/ and win/ (and unix/).         *)
(*                                                                         *)
(* Several handles of one file belong to one event loop.  A call that      *)
(* waits is run by a worker thread of libuv, which it occupies until the   *)
(* lock is granted; a call that only tries, and fs_unlock, run on the loop *)
(* thread.  On Windows a conversion takes two system calls, and anything   *)
(* may happen on the other handles between them.                           *)
(*                                                                         *)
(* Any of these system calls may fail, one that waits also after it has    *)
(* waited, and what a conversion did before stays done.                    *)
(*                                                                         *)
(* The program makes one call at a time on a handle, locks only a handle   *)
(* without a lock, converts and unlocks the region it locked, and only     *)
(* unlocks a handle when an error does not tell what it has.               *)
(***************************************************************************)
EXTENDS Naturals, Sequences, FiniteSets, SequencesExt

CONSTANTS
  Handle,      (* the open files                                           *)
  Region,      (* the regions to lock by each handle: an off and a len     *)
  MaxByte,     (* the last byte a region can reach                         *)
  Workers,     (* the size of the thread pool                              *)
  MaxCalls,    (* how many calls the program makes, fs_unlock not counted  *)
  MaxFaults    (* how many system calls fail for a reason of their own     *)

VARIABLES
  platform,    (* "linux", "mac" or "win"                                  *)
  held,        (* the kernel's locks of each handle, by mode               *)
  region,      (* the region each handle has locked, or is about to        *)
  req,         (* the call under way on each handle                        *)
  queue,       (* the requests that wait for a worker thread               *)
  grant,       (* the lock each handle has by what the calls returned      *)
  doubt,       (* whether it may also have less or more, after an error    *)
  status,      (* what the last call returned, if no other was made since  *)
  calls,       (* how many calls were made                                 *)
  faults       (* how many system calls failed for a reason of their own   *)

vars ==
  <<platform, held, region, req, queue, grant, doubt, status, calls, faults>>

Platform == {"linux", "mac", "win"}
Mode == {"shared", "exclusive"}
Op   == {"lock", "downgrade", "upgrade", "unlock"}

(* EIO is any error but the others: EINTR and ENOLCK, an invalid range.    *)
Err == {"OK", "EAGAIN", "EBUSY", "EINVAL", "ENOTLOCKED", "EIO"}

(* length 0 is the rest of the file: l_len 0 of fcntl, SIZE_MAX on Windows.*)
Bytes(r) == r.off .. IF r.len = 0 THEN MaxByte ELSE r.off + r.len - 1

Whole == [off |-> 0, len |-> 0]

ASSUME LockAssumption ==
  /\ IsFiniteSet(Handle)
  /\ MaxByte \in Nat /\ Workers \in Nat \ {0}
  /\ MaxCalls \in Nat /\ MaxFaults \in Nat
  /\ \A h \in Handle : \A r \in Region[h] : r.off \in Nat /\ r.len \in Nat

Free == [m \in Mode |-> 0]
Only(mode) == [Free EXCEPT ![mode] = 1]
Holding(mode) == IF mode = "none" THEN Free ELSE Only(mode)

(* A call: its system calls yet to be made, its arguments, where it is     *)
(* run, and its result.                                                    *)
None == [op |-> "none", todo |-> << >>, shared |-> FALSE, wait |-> FALSE,
         at |-> "nowhere", err |-> "OK"]

Idle(h)  == req[h].op = "none"
LoopFree == \A h \in Handle : req[h].at # "loop"
Running  == {h \in Handle : req[h].at = "worker"}

-----------------------------------------------------------------------------
(* The system calls behind each function.                                  *)

(* Slips: the exclusive lock goes first; it is kept.                       *)
WinDowngradeReversed == <<"unlock", "lock">>
WinDowngradeStacked  == <<"lock">>

(* fs__downgrade_lock on Windows, where a handle may add a shared lock to  *)
(* its exclusive one, and unlocking releases the exclusive one first.      *)
WinDowngrade == <<"lock", "unlock">>

(* A slip: the exclusive lock is added to the shared one.                  *)
WinUpgradeReversed == <<"lock", "unlock">>

(* fs__upgrade_lock on Windows.                                            *)
WinUpgrade == <<"unlock", "lock">>

(* Both on Linux and macOS, where locking again converts.                  *)
UnixConvert == <<"lock">>

Todo(op) ==
  CASE op = "downgrade" -> IF platform = "win" THEN WinDowngrade ELSE UnixConvert
    [] op = "upgrade"   -> IF platform = "win" THEN WinUpgrade ELSE UnixConvert
    [] OTHER            -> <<op>>

-----------------------------------------------------------------------------
Init ==
  /\ platform \in Platform
  /\ held = [h \in Handle |-> Free]
  /\ region = [h \in Handle |-> Whole]
  /\ req = [h \in Handle |-> None]
  /\ queue = << >>
  /\ grant = [h \in Handle |-> "none"]
  /\ doubt = [h \in Handle |-> "none"]
  /\ status = "none"
  /\ calls = 0 /\ faults = 0

(* A function is called: one that waits is queued, another runs at once.   *)
Begin(h, op, r, shared, wait) ==
  /\ LoopFree /\ Idle(h)
  /\ region' = [region EXCEPT ![h] = r]
  /\ req' = [req EXCEPT ![h] =
       [op |-> op, todo |-> Todo(op), shared |-> shared, wait |-> wait,
        at |-> IF wait THEN "queue" ELSE "loop", err |-> "OK"]]
  /\ status' = "none"
  /\ queue' = IF wait THEN Append(queue, h) ELSE queue
  /\ UNCHANGED <<platform, held, grant, doubt, faults>>

Counted == calls < MaxCalls /\ calls' = calls + 1

FsLock(h, r, shared) ==
  grant[h] = "none" /\ Counted /\ Begin(h, "lock", r, shared, TRUE)

FsTryLock(h, r, shared) ==
  grant[h] = "none" /\ Counted /\ Begin(h, "lock", r, shared, FALSE)

Converts(h) == grant[h] # "none" /\ doubt[h] = "none"

FsDowngradeLock(h) ==
  Converts(h) /\ Counted /\ Begin(h, "downgrade", region[h], TRUE, TRUE)

FsTryDowngradeLock(h) ==
  Converts(h) /\ Counted /\ Begin(h, "downgrade", region[h], TRUE, FALSE)

FsUpgradeLock(h) ==
  Converts(h) /\ Counted /\ Begin(h, "upgrade", region[h], FALSE, TRUE)

FsTryUpgradeLock(h) ==
  Converts(h) /\ Counted /\ Begin(h, "upgrade", region[h], FALSE, FALSE)

FsUnlock(h) ==
  /\ IF grant[h] = "none" THEN Counted ELSE UNCHANGED calls
  /\ Begin(h, "unlock", region[h], FALSE, FALSE)

(* A worker thread of libuv takes the first request from the queue.        *)
Take ==
  /\ queue # << >> /\ Cardinality(Running) < Workers
  /\ req' = [req EXCEPT ![Head(queue)].at = "worker"]
  /\ queue' = Tail(queue)
  /\ UNCHANGED <<platform, held, region, grant, doubt, status, calls, faults>>

-----------------------------------------------------------------------------
(* The system calls on each platform.                                      *)

(* A slip: the flag is the wrong way round.                                *)
ModeSwapped(shared) == IF shared THEN "exclusive" ELSE "shared"

(* shared ? F_RDLCK : F_WRLCK, and its likes.                              *)
ModeOf(shared) == IF shared THEN "shared" ELSE "exclusive"
Asked(h) == ModeOf(req[h].shared)

Overlap(g, h) == Bytes(region[g]) \cap Bytes(region[h]) # {}

(* The handles whose locks stand in the way.  On Windows a handle can be   *)
(* in its own way: an exclusive lock goes over no other lock.              *)
Blockers(h) ==
  {g \in Handle :
     /\ Overlap(g, h)
     /\ held[g].exclusive > 0 \/ (Asked(h) = "exclusive" /\ held[g].shared > 0)
     /\ g # h \/ (platform = "win" /\ Asked(h) = "exclusive")}

(* The next system call of h, made by a thread that waits or one that must *)
(* not.                                                                    *)
At(h, on, syscall) ==
  /\ platform = on
  /\ req[h].at \in {"worker", "loop"}
  /\ req[h].todo # << >> /\ Head(req[h].todo) = syscall
  /\ UNCHANGED <<platform, region, queue, grant, doubt, status, calls>>

(* It changes the locks of h to locks; it returns an error, and the call   *)
(* returns it (if (res < 0) return res); it fails whatever it was to do.   *)
Does(h, locks) ==
  /\ held' = [held EXCEPT ![h] = locks]
  /\ req' = [req EXCEPT ![h].todo = Tail(@)]
  /\ UNCHANGED faults

Returns(h, err) ==
  /\ req' = [req EXCEPT ![h].todo = << >>, ![h].err = err]
  /\ UNCHANGED held

Fails(h, err) == Returns(h, err) /\ UNCHANGED faults

Fault(h) == Returns(h, "EIO") /\ faults < MaxFaults /\ faults' = faults + 1

LinuxLock(h) ==
  /\ At(h, "linux", "lock") /\ req[h].wait
  /\ \/ Blockers(h) = {} /\ Does(h, Only(Asked(h)))
     \/ Fault(h)

LinuxTryLock(h) ==
  /\ At(h, "linux", "lock") /\ ~req[h].wait
  /\ \/ Blockers(h) = {} /\ Does(h, Only(Asked(h)))
     \/ Blockers(h) # {} /\ Fails(h, "EAGAIN")
     \/ Fault(h)

LinuxUnlock(h) == At(h, "linux", "unlock") /\ (Does(h, Free) \/ Fault(h))

(* offset != 0 || length != 0                                              *)
MacRejects(r) == r.off # 0 \/ r.len # 0

(* flock(2) gives up the lock it is to convert before it waits, and a wait *)
(* that fails does not bring it back.                                      *)
MacLock(h) ==
  /\ At(h, "mac", "lock") /\ req[h].wait
  /\ \/ MacRejects(region[h]) /\ Fails(h, "EINVAL")
     \/ ~MacRejects(region[h]) /\ Blockers(h) = {} /\ Does(h, Only(Asked(h)))
     \/ /\ ~MacRejects(region[h]) /\ Blockers(h) # {} /\ held[h] # Free
        /\ held' = [held EXCEPT ![h] = Free]
        /\ UNCHANGED <<req, faults>>
     \/ ~MacRejects(region[h]) /\ Fault(h)

MacTryLock(h) ==
  /\ At(h, "mac", "lock") /\ ~req[h].wait
  /\ \/ MacRejects(region[h]) /\ Fails(h, "EINVAL")
     \/ ~MacRejects(region[h]) /\ Blockers(h) = {} /\ Does(h, Only(Asked(h)))
     \/ ~MacRejects(region[h]) /\ Blockers(h) # {} /\ Fails(h, "EAGAIN")
     \/ ~MacRejects(region[h]) /\ Fault(h)

MacUnlock(h) ==
  /\ At(h, "mac", "unlock")
  /\ \/ MacRejects(region[h]) /\ Fails(h, "EINVAL")
     \/ ~MacRejects(region[h]) /\ (Does(h, Free) \/ Fault(h))

(* LockFileEx refuses a range whose end is past 2^64 - 1, as it is with    *)
(* length = SIZE_MAX from the third byte on.                               *)
WinRejects(r) == r.len = 0 /\ r.off > 1

WinAdds(h) == Does(h, [held[h] EXCEPT ![Asked(h)] = @ + 1])

WinLock(h) ==
  /\ At(h, "win", "lock") /\ req[h].wait
  /\ \/ WinRejects(region[h]) /\ Fails(h, "EIO")
     \/ ~WinRejects(region[h]) /\ Blockers(h) = {} /\ WinAdds(h)
     \/ Fault(h)

WinTryLock(h) ==
  /\ At(h, "win", "lock") /\ ~req[h].wait
  /\ \/ WinRejects(region[h]) /\ Fails(h, "EIO")
     \/ ~WinRejects(region[h]) /\ Blockers(h) = {} /\ WinAdds(h)
     \/ ~WinRejects(region[h]) /\ Blockers(h) # {} /\ Fails(h, "EBUSY")
     \/ Fault(h)

WinUnlock(h) ==
  /\ At(h, "win", "unlock")
  /\ \/ held[h] = Free /\ Fails(h, "ENOTLOCKED")
     \/ held[h].exclusive > 0 /\ Does(h, [held[h] EXCEPT !.exclusive = @ - 1])
     \/ /\ held[h].exclusive = 0 /\ held[h].shared > 0
        /\ Does(h, [held[h] EXCEPT !.shared = @ - 1])
     \/ Fault(h)

-----------------------------------------------------------------------------
(* The end of a call.                                                      *)

(* A slip: the error is passed on as it is.                                *)
TryErrRaw(err) == err

(* The errors for "locked by somebody else" become one.                    *)
TryErr(err) == IF err \in {"EACCES", "EAGAIN", "EBUSY"} THEN "EAGAIN" ELSE err

(* What the program has after it.  An upgrade on Windows that was refused  *)
(* has given up the shared lock, and an unlock that finds nothing to       *)
(* unlock says there is no lock.                                           *)
Outcome(h) ==
  LET refused == platform = "win" /\ req[h].op = "upgrade" /\ req[h].err = "EBUSY"
  IN CASE req[h].err = "OK" /\ req[h].op # "unlock" -> ModeOf(req[h].shared)
       [] req[h].err = "OK" /\ req[h].op = "unlock" ->
            IF doubt[h] = "more" THEN "shared" ELSE "none"
       [] req[h].err = "ENOTLOCKED" \/ refused -> "none"
       [] OTHER -> grant[h]

(* What it cannot know.  An error does not say which system call of an     *)
(* upgrade failed, and whether the lock was given up before; nor, of a     *)
(* downgrade on Windows, whether the shared lock was added before.  One    *)
(* unlock takes off one of two locks.                                      *)
Doubt(h) ==
  LET failed == req[h].err = "EIO"
      gaveUp == platform = "win" \/ (platform = "mac" /\ req[h].wait)
  IN CASE req[h].op = "unlock" /\ req[h].err \in {"EINVAL", "EIO"} -> doubt[h]
       [] req[h].op = "unlock" /\ req[h].err = "OK" /\ doubt[h] = "more" -> "less"
       [] req[h].op = "upgrade" /\ failed /\ gaveUp -> "less"
       [] req[h].op = "downgrade" /\ failed /\ platform = "win" -> "more"
       [] OTHER -> "none"

End(h, err) ==
  /\ req[h].todo = << >>
  /\ grant' = [grant EXCEPT ![h] = Outcome(h)]
  /\ doubt' = [doubt EXCEPT ![h] = Doubt(h)]
  /\ status' = err
  /\ region' = [region EXCEPT ![h] = IF grant'[h] = "none" THEN Whole ELSE @]
  /\ req' = [req EXCEPT ![h] = None]
  /\ UNCHANGED <<platform, held, queue, calls, faults>>

(* The worker thread is done and free for the next request.                *)
Done(h) ==
  /\ req[h].at = "worker" /\ req[h].todo = << >>
  /\ req' = [req EXCEPT ![h].at = "done"]
  /\ UNCHANGED <<platform, held, region, queue, grant, doubt, status, calls, faults>>

(* fs__lock_after_work: the callback of the program.                       *)
AfterWork(h) == req[h].at = "done" /\ LoopFree /\ End(h, req[h].err)

(* fs_try_lock and the like return, and so does fs_unlock.                 *)
TryReturn(h) ==
  req[h].at = "loop" /\ req[h].op # "unlock" /\ End(h, TryErr(req[h].err))
UnlockReturn(h) ==
  req[h].at = "loop" /\ req[h].op = "unlock" /\ End(h, req[h].err)

-----------------------------------------------------------------------------
System(h) ==
  \/ LinuxLock(h) \/ LinuxTryLock(h) \/ LinuxUnlock(h)
  \/ MacLock(h) \/ MacTryLock(h) \/ MacUnlock(h)
  \/ WinLock(h) \/ WinTryLock(h) \/ WinUnlock(h)
  \/ Done(h)

Loop(h) == AfterWork(h) \/ TryReturn(h) \/ UnlockReturn(h)

Next ==
  \/ \E h \in Handle : \E r \in Region[h], s \in BOOLEAN : FsLock(h, r, s)
  \/ \E h \in Handle : \E r \in Region[h], s \in BOOLEAN : FsTryLock(h, r, s)
  \/ \E h \in Handle : FsDowngradeLock(h)
  \/ \E h \in Handle : FsTryDowngradeLock(h)
  \/ \E h \in Handle : FsUpgradeLock(h)
  \/ \E h \in Handle : FsTryUpgradeLock(h)
  \/ \E h \in Handle : FsUnlock(h)
  \/ Take
  \/ \E h \in Handle : System(h)
  \/ \E h \in Handle : Loop(h)

(* The threads run, and a program that makes no other call unlocks what it *)
(* holds; no system call has to fail.  Of one handle never two of these    *)
(* are enabled.                                                            *)
Progress(h) ==
  \/ System(h) /\ faults' = faults
  \/ Loop(h)
  \/ grant[h] # "none" /\ FsUnlock(h)

Fairness == WF_vars(Take) /\ \A h \in Handle : WF_vars(Progress(h))

Spec == Init /\ [][Next]_vars /\ Fairness

-----------------------------------------------------------------------------
(* Properties.                                                             *)

(* Every field keeps its type.  No error but these reaches the program: a  *)
(* lock somebody else holds is EAGAIN on every platform.                   *)
TypeOK ==
  /\ platform \in Platform
  /\ held \in [Handle -> [Mode -> 0 .. 2]]
  /\ \A h \in Handle : region[h] \in Region[h] \cup {Whole}
  /\ \A h \in Handle : req[h].op \in Op \cup {"none"} /\ req[h].err \in Err
  /\ queue \in Seq(Handle)
  /\ grant \in [Handle -> Mode \cup {"none"}]
  /\ doubt \in [Handle -> {"none", "less", "more"}]
  /\ status \in {"none"} \cup (Err \ {"EBUSY"})
  /\ calls \in 0 .. MaxCalls /\ faults \in 0 .. MaxFaults

Stacked(mode) == [Only(mode) EXCEPT !["shared"] = @ + 1]

(* What the results of its calls leave open a handle holds.                *)
Told(h) ==
  \/ held[h] = Holding(grant[h])
  \/ doubt[h] = "less" /\ held[h] = Free
  \/ doubt[h] = "more" /\ held[h] = Stacked(grant[h])

(* What the calls returned is what the kernel holds: between calls a handle*)
(* has exactly the lock its last call left it, so that one fs_unlock frees *)
(* the region (src/win/lock.c:36-50, src/win/try-lock.c:36-50).  Not so    *)
(* only after a conversion whose system call failed for a reason of its    *)
(* own: on macOS and Windows an upgrade may then have lost the lock, and on*)
(* Windows a downgrade may have kept it and added a second one.  On Linux, *)
(* and where no such failure happened, there is no exception, a conversion *)
(* that was refused included.                                              *)
GrantIsHeld ==
  \A h \in Handle :
    Idle(h) => Told(h) /\ (platform = "linux" \/ faults = 0 => doubt[h] = "none")

(* It has a lock, and no failed upgrade can have lost it.                  *)
Sure(h) == grant[h] # "none" /\ doubt[h] # "less"

(* Two handles never both have overlapping regions when one of the locks   *)
(* is exclusive (src/linux/lock.c:19, src/mac/lock.c:15, src/win/lock.c:16)*)
Exclusion ==
  \A g, h \in Handle :
    g # h /\ Idle(g) /\ Idle(h) /\ Overlap(g, h) /\ Sure(g) /\ Sure(h)
      => grant[g] = "shared" /\ grant[h] = "shared"

(* A conversion that must not let anybody in does not: a lock is held      *)
(* throughout a downgrade, and on Linux throughout an upgrade, also one    *)
(* that is refused or of which a system call fails (src/win/lock.c:38-41,  *)
(* src/unix/lock.c:11, 21).                                                *)
ConversionKeepsLock ==
  \A h \in Handle :
    req[h].op = "downgrade" \/ (req[h].op = "upgrade" /\ platform = "linux")
      => held[h] # Free

(* h waits for locks of others, and can do nothing else.                   *)
Waits(h) ==
  /\ req[h].at = "worker" /\ req[h].todo # << >> /\ Head(req[h].todo) = "lock"
  /\ Blockers(h) # {}
  /\ platform = "mac" => held[h] = Free /\ ~MacRejects(region[h])

(* Two handles upgrade at once on Linux: neither gives up its shared lock. *)
UpgradeDeadlock ==
  \E g, h \in Handle :
    /\ g # h /\ platform = "linux" /\ g \in Blockers(h) /\ h \in Blockers(g)
    /\ \A k \in {g, h} : req[k].op = "upgrade" /\ req[k].at \in {"queue", "worker"}

(* Every worker thread waits, and a lock they wait for is to be converted  *)
(* by a request that gets no worker thread.                                *)
PoolDeadlock ==
  /\ Cardinality(Running) = Workers
  /\ \A h \in Running : Waits(h)
  /\ \E h \in Running : \E g \in Blockers(h) : req[g].at = "queue"

(* When all calls under way wait and no call from the program can free one *)
(* of them, one of two things happened: two upgrades on Linux, or a        *)
(* conversion that finds the pool full of waiting calls.  On Windows and   *)
(* macOS a conversion that waits has given up its lock and blocks nobody   *)
(* (src/lock.c:32, 51, 70, src/win/lock.c:46).                             *)
DeadlockHasCause ==
  LET busy == {h \in Handle : ~Idle(h)}
  IN (/\ busy # {}
      /\ \A h \in busy : Waits(h) \/ (req[h].at = "queue" /\ Cardinality(Running) = Workers)
      /\ \A h \in Running : \A g \in Blockers(h) : ~Idle(g))
       => UpgradeDeadlock \/ PoolDeadlock

(* When the program makes no more calls, but unlocks what it holds, every  *)
(* call is answered in the end, unless one of these two deadlocks happened.*)
Answered ==
  <>[]((\A h \in Handle : Idle(h)) \/ UpgradeDeadlock \/ PoolDeadlock)
=============================================================================
