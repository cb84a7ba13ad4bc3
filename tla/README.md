# libfs in TLA+

Specifications of [libfs](../src), an asynchronous file system library in C on top of libuv: TLA+
modules for the parts of it that have state of their own, model-checked with TLC on small
instances, and proofs checked by TLAPS for instances of any size.

## The system

A program calls `fs_*` functions with a request structure it owns and a callback. The library
submits a request to libuv, a worker thread makes the system call, and the loop thread runs the
library's handler, which submits the next request or calls the program back. There is no lock and no
thread in the library itself; what makes it hard is that many requests are in flight, that they
finish in any order, and that the file system changes between two of them.

| component | source (`src/src/`) | state | operations | module |
|---|---|---|---|---|
| recursive removal | `rmdir.c` | a tree of `fs_rmdir_step_t` with `missing` counters, `result` | `fs_rmdir`, `on_rmdir`, `on_rmdir_recursive`, `on_scandir`, `on_unlink` | `Rmdir` |
| directory creation | `mkdir.c` | `rec->next`, a path with separators overwritten by NUL | `fs_mkdir`, `on_mkdir`, `on_mkdir_recursive`, `on_stat` | `Mkdir` |
| merge of trees | `merge.c` | a tree of `fs_merge_step_t` with `missing` counters, `result`, `replace` | `fs_merge`, `on_stat_dir`, `on_stat_file`, `on_scandir`, `on_rename`, `on_rmdir` | `Merge` |
| batched reads and writes | `read-batch.c`, `write-batch.c` | `remaining`, `batched`, `len`, the moving `bufs` and `offsets` | `fs_read_batch`, `fs_write_batch` and their callback | `Batch` |
| file locks | `lock.c`, `try-lock.c`, `unlock.c`, `unix/`, `linux/`, `mac/`, `win/` | the kernel's locks, the worker threads that wait | lock, try, downgrade, upgrade, unlock | `Lock` |
| swap of two paths | `swap.c` and the platforms | on Windows a temporary file | `fs_swap` | `Swap` |
| hole punching | `trim.c` and the platforms | on macOS an offset and a length that move | `fs_trim` | `Trim` |
| sparse flag | `sparse.c` and the platforms | on Windows an attribute of the file | `fs_sparse` | `Trim` |
| extended attributes | `attr.c` and the platforms | buffers the callbacks release, on Windows open streams | get, set, remove, list | `Attr` |
| single-request wrappers | `open.c`, `close.c`, `read.c`, `write.c`, `stat.c`, ... | none | one libuv call and its callback | not modelled |
| interface | `include/fs.h`, `platform.h`, `win/nt.h` | none | declarations | not modelled |

The components do not call each other. They meet in the file system: tests create with `fs_mkdir`
what `fs_merge` moves and `fs_rmdir` removes, and calls of several programs may work in one tree.
Every model of an operation on trees therefore lets another process change the tree.

What makes each of them correct:

- **Removal.** A step counts exactly the entries that still report to it; no callback reaches a
  freed step; the request embedded in the caller's structure is never freed; the callback is the
  last thing that happens; entries go from the leaves up; success means that no file the call found
  is left; the call ends.
- **Creation.** The walk up and down the path keeps its place; success means a directory; a failure
  has a cause; the call ends under every interference.
- **Merge.** As removal for steps and requests; entries only move to their place, files are replaced
  only when asked for, directories go only when onto has them; success means that base is gone and
  onto is the overlay; a merge nothing stands in the way of succeeds.
- **Batches.** Every request covers the next run of adjacent buffers; every byte is where it was or
  where it belongs; the reported length is the number of bytes moved; success is reported once, last.
- **Locks.** What calls return is what the kernel holds; overlapping exclusive locks exclude; a
  downgrade lets nobody in; a call that is never answered is one of two known deadlocks.
- **Attributes.** What a get or a list delivers was so at a moment of the call; an error has a cause;
  the buffer that is freed after the callback is the call's own.
- **Swap.** Calls that overlap have the effect of exchanges one after the other; wherever a call
  fails, no content is lost, doubled or overwritten.
- **Trim.** The bytes of the range become zero and its whole blocks are freed, and nothing else
  changes; a call that no system call fails succeeds.

## Modules

```
FileTree            paths, trees, system calls (external)
 |- Rmdir           src/rmdir.c      -- implements --> TreeRemoval
 |- Mkdir           src/mkdir.c
 |- Merge           src/merge.c      -- implements --> TreeMerge
 '- FileTreeProofs  lemmas on paths
      |- RmdirProofs   EXTENDS Rmdir
      |- MkdirProofs   EXTENDS Mkdir
      '- MergeProofs   EXTENDS Merge
Lock                src/lock.c, src/try-lock.c, src/unlock.c, the platforms
 '- LockProofs       EXTENDS Lock
Attr                src/attr.c, the platforms
 '- AttrProofs       EXTENDS Attr
Swap                src/swap.c, the platforms   -- implements --> Exchange
 '- SwapProofs       EXTENDS Swap
Batch               src/read-batch.c, src/write-batch.c
Trim                src/trim.c, src/sparse.c, the platforms
 '- FileDataProofs   EXTENDS Batch, Trim
MCRmdir, MCMkdir, MCMerge, MCBatch, MCLock, MCAttr, MCSwap, MCTrim    instances for TLC
```

**FileTree** is the file system as the library uses it. A path is the sequence of its components, a
tree maps each path to nothing, a directory or a file. Every system call is an error operator and an
effect. It is derived from what the handlers tell apart, and external to the repository.

**A request** (`uv_fs_t`) has the same form in all modules that use libuv's file functions: the
callback it waits for, whether a worker has run it (`done`), and its results. Each takes three steps
of the model: a handler submits it, a worker runs the system call on the tree of that moment
(`Work...`), and the loop delivers it (`On...`). Between any two of these steps all other requests
and the other process may act. An action of the loop thread is one whole handler: every nested call
(`on_finished_maybe`, `on_finished`) is part of it.

**Rmdir.** `steps` are the live `fs_rmdir_step_t`, named by their path; `missing`, `uv` and `result`
are the C fields; `calls` and `status` record the caller's callback. `buf` tells the request in the
caller's `fs_rmdir_t` from the malloc'ed ones, because finished requests are handed from step to
step. `env` holds what the surroundings decide: entries that may not be removed, directories that
may not be listed, paths `path_join` rejects, and whether `unlink` of a directory is EISDIR or EPERM.
`TreeRemoval` is what the caller sees of it.

**Mkdir.** Several calls on one tree. `cuts` is where `rec->next` has a NUL for a separator, so that
the string ends at the first cut, as for `strlen`. `gone` and `meddled` are history variables that
only the properties read. A call of the plain form whose callback is NULL is not modelled.

**Merge.** Two trees, `base` and `onto`, neither inside the other. As Rmdir, but a step never finishes
before its children have, and an error does not make the library try again. `before` and `touched`
are history variables. `env.typed` is false on file systems that leave `d_type` unknown, where
`on_scandir` takes every entry for a file. `TreeMerge` is what the caller sees.

**Batch.** Both functions are the same code but for the call that submits the first run, so that `op`
distinguishes them. File and buffers are modelled byte by byte, every byte with a value of its own.

**Lock.** The handles of one file in one process, a pool of `Workers` threads, and the three
platforms, chosen by `platform` in `Init`. A call is the list of its system calls (`todo`): one on
Linux and macOS, two for a conversion on Windows. The kernels are external: locks of open file
descriptions on Linux, `flock` on macOS (which gives up a lock before it waits for its conversion),
`LockFileEx` on Windows (where a handle can have an exclusive and a shared lock on one region, and
unlocking releases the exclusive one first). Every system call may also fail for a reason of its own
(`Fault`, EIO stands for all of them), one that waits also after it has waited, and a flock on macOS
after it has given up what it converts; a length of 0 behind the first byte overflows on Windows and
is refused (`WinRejects`). What a conversion did before stays done. `grant` is what a program
concludes from the results, and `doubt` what the error of a conversion leaves open: that its handle
has lost the lock, or that it has two.

**Attr.** Calls on the attributes of one file, one system call a step; requests can be used again.
On Linux and macOS a get and a list ask for the size (`sized`), then for the data. On Windows an
attribute is a stream: `opened` says that a call has a handle, `Shared` who may have one at the same
time, and `doomed` which streams go with their last handle. `data` is what the callback is given,
with `junk` for the entries a list makes of memory nobody wrote; `base` is where the pointer the
callback frees came from. `seen` is a history variable: the values the attribute (or the sets of
names the file) had while the call was under way. fgetxattr and the Nt functions are external. The
streams are opened for asynchronous access, and the code takes STATUS_PENDING for success: `Lag`
is a read or write that is pending when it returns. Such a read delivers a buffer nothing has filled;
such a write is `late`, and `Lands` at any time, on whatever the stream then has, or never.

**Swap.** Calls on the same few paths, on any of the worker threads. `file` says what each path and
each temporary name names; what is there is told by the path it had at first. Linux and macOS
exchange in one step, Windows names a file and moves three times (`named`, `moved`, `crossed`).
MoveFileEx is external: it replaces files, not directories. `Exchange` is what the callers see: each
call begins, makes one exchange of its own two paths and succeeds, or fails; where the exchange is
not one system call, it commits itself first, and a failure after that costs one of its paths what it
names (`LoseTo`, `LoseFrom`). `Contents` maps to it by showing, at a path a call has emptied for a
while, what the call has put away, and `Calling` by the stage each call has reached.

Batch and Trim share a proof module, so that the names of Trim's specification say whose they are
(`TrimInit`, `TrimNext`, `TrimSpec`).

**Trim.** One call on any range of a file, byte by byte and block by block, while others write and
truncate. macOS goes on in the steps of `mac/trim.c`, each with the offset and the length the one
before has left (`trim.off`, `trim.len`). fallocate, F_PUNCHHOLE, FSCTL_SET_ZERO_DATA and pwrite are
external. fs_sparse sets the flag of the file that decides on Windows whether blocks are freed.

Operators commented as *a slip* are plausible mistakes in the definition that follows them. No
specification uses them; replacing a definition by its slip makes TLC find the corresponding property
violated, which shows that the property depends on that line of the code.

## Runs

`tlc -workers 2 -config <cfg> <module>` in this directory.

| run | cfg | distinct states | bounds |
|---|---|---|---|
| `rmdir` | MCRmdir.cfg | 229 thousand | every tree of five paths (two levels), ten surroundings, one entry created by another process, any number removed |
| `mkdir` | MCMkdir.cfg | 124 thousand | two calls with a common ancestor, every tree of five paths (three levels), three sets of permissions, one change by another process |
| `merge` | MCMerge.cfg | 411 thousand | every pair of trees of four paths (two levels), eight surroundings, one change by another process in either tree |
| `batch` | MCBatch.cfg | 40 thousand | every batch of up to three buffers of up to two bytes, a file of six, up to two faults |
| `lock` | MCLock.cfg | 754 thousand | three handles, one with one region and two with two, two workers, four calls and any unlocks, one fault, three platforms |
| `attr` | MCAttr.cfg | 1.4 million (up to symmetry) | two requests, three calls on two attributes, values of three sizes, one fault, one pending read or write, three platforms |
| `swap` | MCSwap.cfg | 174 thousand (up to symmetry) | three calls that may all overlap, three paths that name files, directories or nothing, one fault |
| `trim` | MCTrim.cfg | 3.5 million | every file and range of up to 11 bytes in blocks of 4, two other calls, one fault, three platforms |
| `rmdir_residue` | RmdirResidue.cfg | | one violation, see below |
| `rmdir_livelock` | RmdirLivelock.cfg | | one violation |
| `mkdir_race` | MkdirRace.cfg | | one violation |
| `batch_write` | BatchWrite.cfg | | one violation |

Why the bounds are enough for what they are meant to show. A directory with two entries, one of
which may be a directory of two, has every case of the step counters: siblings that finish in either
order, a step that brings its parent to zero and one that does not, a hand-over over two levels. Two
overlapping `fs_mkdir` have the race for the shared ancestor, and with three levels the walk goes up
and down past more than one cut. Three buffers give runs of one, two and three with a boundary on
either side. Three handles and two workers are the least with which two calls that wait fill the
pool and a third holds what they wait for; all of them may lock the whole file, two of them also
regions that do not overlap, and one fault is enough to hit either system call of a conversion. One
get or list needs two system calls, so that the two calls that can fall between them (a removal and
a set) are the third and last. One pending write can land between the two calls of a get, and on the
value of a later set. Three swaps on three paths have every chain and cycle of shared paths. Eleven
bytes hold an unaligned head, a whole block and a tail, and every range that lacks some of them.

What the passing runs show:

- `rmdir`: `MissingIsExact`, `NoDanglingStep`, `FreesOnlyHeap` and `QuietAfterCallback` hold for every
  order of requests and every change of the tree. `RefinesRemoval`: fs_rmdir implements TreeRemoval;
  in particular success means that every file still there was created meanwhile or lies under a path
  too long. `ReturnsIfRemovable`: a tree whose entries can all be removed makes the callback run.
- `mkdir`: `CutsAreContiguous`, `SuccessMeansDirectory`; `FailureHasCause`: a recursive call never
  reports that something exists, and reports ENOENT only when it lost a race, the volume is missing
  or read-only; `Returns`.
- `merge`: `MissingIsExact` (with the one case in which a step is left with nobody to finish it: all
  its entries have paths too long), `QuietAfterCallback`; `RefinesMerge`: fs_merge implements
  TreeMerge; `MergeableIsMerged`; `ReturnsIfJoinable`: apart from that case the callback runs in the
  end, whatever fails.
- `batch`: `RequestIsNextRun`, `NoMisplacedByte`, `AnsweredReadIsComplete`, `LenCountsBytes`,
  `SuccessIsFinal`, `Returns`.
- `lock`: `GrantIsHeld`: between calls a handle has the lock the results say, a conversion aside
  that failed for a reason of its own; `Exclusion`, `ConversionKeepsLock`, `DeadlockHasCause`;
  `Answered`: when the program only unlocks what it holds any more, every call is answered, unless
  one of the two deadlocks happened.
- `attr`: `GetIsTrue`, `ListIsTrue`, `ErrorHasCause`, `FreesOnlyOwn`.
- `swap`: `NothingLost`; `RefinesExchange`: fs_swap implements Exchange; a success is one exchange of
  the call's own paths, a failure none, apart from a second or third move that fails.
- `trim`: `TrimIsTrue`, `KeepsRest`.

What the others show, each against an assertion or a declaration of the repository:

- `rmdir_residue`: when the last entry to be unlinked is a file, a recursive fs_rmdir reports success
  and leaves the directory (`rmdir.c:92`, `40-49`).
- `rmdir_livelock`: an entry below the top that may not be removed makes it list and unlink for ever
  (`rmdir.c:49`, `156`).
- `mkdir_race`: two recursive fs_mkdir that share a missing ancestor: one fails with ENOENT
  (`mkdir.c:97`).
- `batch_write`: fs_write_batch reads instead of writing from its second run on (`write-batch.c:48`).

Properties that would not hold, and that nothing in the repository claims, are stated with their
exception instead: a file that appears at its destination after the stat is overwritten by fs_merge
also without `replace` (`touched` in TreeMerge); a failed try-upgrade on Windows has lost the shared
lock (`Outcome` in Lock); a conversion of which a system call fails for a reason of its own leaves a
handle without its lock (an upgrade on macOS, `mac/lock.c:17`, or on Windows, `win/lock.c:48-49`) or
with two (a downgrade on Windows whose unlock fails, `win/lock.c:41`), and its error does not tell
whether (`Doubt` in Lock); two upgrades at once on Linux, or a conversion that finds all worker
threads waiting, are never answered (`UpgradeDeadlock`, `PoolDeadlock`); a batch goes on after its
callback got an error, and calls back again (`SuccessIsFinal` in Batch, `read-batch.c:29-38`); a get
or list of attributes that races with a shorter value or a removal hands over memory nobody wrote
(`GetIsTrue`, `ListIsTrue`), and so does a get on Windows whose read was still pending, while a set
whose write was has not happened when it is reported (`Lagged`, `win/attr.c:68-88`, `133-153`); a
list that fails at once frees what its structure held before (`FreesOnlyOwn`); on Windows a swap
that fails half-way, for instance because `from` is missing, is `to` itself, or overlaps with
another call, leaves what `to` named in the directory for temporary files (`LoseTo`, `LoseFrom` in
Exchange); on macOS a trim makes the file longer when its range ends behind the end of the file, and
reports success after a short write (`KeepsRest`, `TrimIsTrue`).

### Fairness

Attr, Swap and Trim state safety only: each of their steps is one system call of a worker thread,
and no call waits for another.

Weak fairness of the worker's and of the loop's step for each request: libuv takes requests from a
queue and every iteration of the loop delivers all finished ones, so that one that stays enabled is
not passed over for ever. The caller and the other process are not fair, with one exception: in Lock
a program that holds a lock and makes no other call unlocks it in the end, since otherwise no waiting
call could be expected to return. No system call has to fail: a step of a call counts as taken only
when it is not a fault (`Progress` in Lock), so that nothing is answered because of a failure.

`CHECK_DEADLOCK FALSE` in all runs, since every operation ends with its callback and may stop there.

## Proofs

`tlapm RmdirProofs.tla` and the other proof modules. Every invariant, action property and refinement
of the passing runs is a theorem. The theorems about trees hold for every set of paths that is
finite and closed under prefixes (`PathAssumption`), every set of trees and surroundings, any number
of changes by other processes and, in Mkdir, any number of concurrent calls. Those about Batch hold
for any list of buffers whose places in the file do not overlap, any file size and any number of
failures (`BatchAssumption`); those about Lock for any finite set of handles, any regions, any
number of worker threads, of calls and of failures (`LockAssumption`); those about Swap for any
paths and temporary names that differ, any number of calls and of failures (`SwapAssumption`); those
about Attr for any requests, any finite set of names, any values and sizes in which only one value
is empty, any number of failures and of pending reads and writes (`AttrAssumption`); those about
Trim for any block size that is a power of two, any range and file (`TrimAssumption`).

| theorem | states |
|---|---|
| `RmdirProofs!Invariance` | `Spec => []IInv` |
| `RmdirProofs!TypeCorrect`, `CountsAreExact`, `StepsOutliveRequests`, `OnlyHeapIsFreed`, `CallbackIsLast` | the five invariants of the run `rmdir` |
| `RmdirProofs!RemovalIsRefined` | `Spec => RefinesRemoval`: Rmdir implements TreeRemoval |
| `MkdirProofs!Invariance` | `Spec => []IInv` |
| `MkdirProofs!TypeCorrect`, `WalkKeepsItsPlace`, `SuccessIsTrue`, `FailuresHaveCause` | the four invariants of the run `mkdir` |
| `MergeProofs!Invariance`, `TreesAreKept` | `Spec => []IInv`, `Spec => []RInv` |
| `MergeProofs!TypeCorrect`, `CountsAreExact`, `CallbackIsLast`, `MergeableSucceeds` | the four invariants of the run `merge` |
| `MergeProofs!MergeIsRefined` | `Spec => RefinesMerge`: Merge implements TreeMerge |
| `LockProofs!Invariance` | `Spec => []IInv` |
| `LockProofs!TypeCorrect`, `CallsTellTheTruth`, `LocksExclude`, `ConversionsKeepLocks`, `DeadlocksHaveCause` | the five invariants of the run `lock` |
| `SwapProofs!Invariance` | `Spec => []IInv` |
| `SwapProofs!TypeCorrect`, `ContentsSurvive` | the types, and the invariant of the run `swap` |
| `SwapProofs!SwapIsExchange` | `Spec => RefinesExchange`: Swap implements Exchange |
| `AttrProofs!Invariance`, `CausesAreKept` | `Spec => []IInv`, `Spec => []CInv` |
| `AttrProofs!TypeCorrect`, `GetsAreTrue`, `ListsAreTrue`, `ErrorsHaveCause`, `OwnIsFreed` | the five invariants of the run `attr` |
| `FileDataProofs!BatchInvariance` | `Spec => []IInv`, of Batch |
| `FileDataProofs!TypeCorrect`, `RunsAreTakenInOrder`, `NoByteIsMisplaced`, `AnsweredReadsAreComplete`, `LengthsAreExact`, `SuccessIsLast` | the six invariants of the run `batch` |
| `FileDataProofs!TrimInvariance` | `TrimSpec => []TrimInv` |
| `FileDataProofs!TrimsAreTrue`, `TrimKeepsRest` | the invariant and the action property of the run `trim` |

*Rmdir.* The counters alone are not inductive. When the last request of a step frees it, nothing
below the step may be left; the counter only speaks of its children. `IInv` therefore adds that every
ancestor of a live step is live (`ClosedSteps`), which turns "no child is outstanding" into "no
descendant is" (lemma `NothingBelow`), that each request belongs to a live step of the right kind
(`RequestsHaveSteps`), and that a listing holds entries of the directory that was listed
(`ListsHoldEntries`). The bulk is one lemma, `OnFinishedMaybeKeeps`, used by three of the handlers.

That a reported success is true is nowhere to be seen while requests are under way. `FilesAreCovered`
says it of the time before: as long as no error was retained, every file of the tree was created
meanwhile, or lies below a path whose request has not run, has failed, or has listed an entry on the
way to the file. A scandir hands its cover to the requests for its entries; when the last request
ends nobody is left to cover a file, which is what `Succeed` of TreeRemoval asks. The entry a worker
removes has no children in a well-formed tree, so that it is a step of TreeRemoval whatever else
happens; all other steps are hidden from it.

*Mkdir.* An answer travels from the worker through the request to the callback while the tree
changes. `AnswersHold` says what the answer of a finished request still means; with
`CutsAreContiguous` (the path worked on is the prefix before the first cut, and the cuts are all the
separators behind it) it gives what a reported success means.

That a failure has a cause is a second invariant, `CInv`. `WalkIsCurrent` says what the walk may rely
on if nobody has meddled with its path: nothing is there from the component it tries on, and what a
finished mkdir has found is still so. `AnswersHaveCause` says why a system call answered what it did,
and `Justified` why the call may report it. A file that stood in the way may be gone when the call
reports it, which is why `Blocked` also speaks of what others have removed (`gone`).

*Merge.* Every entry has a step, and a step ends when its request is done and its counter is zero, so
that the count itself is inductive once it is known that a listing holds entries of its directory.
`RInv` relates the trees to those at the call: a path nobody touched is as it was or as it belongs
(`Settled`), a stat is still true when its callback runs (`StatIsCurrent`), a step that lists or
removes has a directory in onto (`EnteredAreDirs`), and a rename takes the place of nothing it may not
(`RenamesYield`). With these every step is one of TreeMerge. `MInv` follows a merge that nothing
stands in the way of: `Expected` says for each step what its request will find. Its heart is the last
rmdir, which finds the directory of base empty because every entry listed got a step, and a step of a
child that is still live keeps its parent waiting (`ParentWaits`).

*Lock.* What a handle holds between calls is not inductive, since a call may be anywhere between two
system calls, or have failed there. `CallState` says, for each call and platform, what is held after
each of them, also of those that failed; `Doubtful` says which error leaves which doubt, so that the
lock a result leaves open is the one the kernel has (`Told`), or none, or two;
`KernelExcludes` is what the kernel promises about overlapping regions, which every grant keeps
because nothing stood in its way (`NoBlockers`, `ExclusionKept`); `Queued` says that a waiting request
is in the queue once. The theorems are the cases of `CallState` in which no call is under way, or in
which the call is a conversion. `DeadlocksHaveCause` needs no further invariant: who waits does so for
a handle that holds a lock (`BlockerHolds`), and the only call that waits while its handle holds one
is an upgrade on Linux (`WaitingHolderUpgrades`); so either the holders are upgrades that wait for
each other, or they are calls the pool has no thread for.

*Swap.* A move replaces whatever it finds. That nothing is lost rests on `Holes`: the path to which a
call moves is one the call has emptied itself, and no two calls have emptied the same; and on
`TempsHeld`: the file a call moves over in the first place is the empty one. The other conjuncts of
`IInv` (temporary names differ, contents have one name) are what each step needs to keep these two.
For the refinement the same facts say what `Contents` shows (`ContentsAre`): the first and the third
move leave it as it is, the second exchanges the paths of its call (`ExchangeStep`), and a failure
before the first changes nothing, while one behind it takes from the path that waits for the next
move, and from no other (`FailRefines`). What a step does to the stage of its call is `Staged`.

*Attr.* What a get delivers is what it reads, and what it reads is what the calls so far have left
(`SeesValue`). On Linux and macOS that is all: between the two system calls `GoodSize` only says
that the size was that of a value seen. On Windows three facts are needed about handles: those that
could change a stream exclude each other (`Apart`), a stream that is about to go has the handle of a
remove (`HeldByRemove`), and the size a get has asked for stays that of the stream while it is open,
unless a write lands that was pending (`GoodOpen`); what lands was pending before (`Behind`).
`GoodBase` says where the buffer of a request comes from.

Lists and errors need what the call has seen, which is a second invariant, `CInv`, proved with the
help of the first: a call under way has seen what is there now (`SeesNow`), a list the names whose
size it has asked for (`GoodListSize`), and a stream that is open is there (`OpenIsThere`). An error
then speaks of something that was seen: ERANGE of two values or two sets of names that differ,
ENODATA of none. That an EIO of Windows comes from another call is a count: two calls under way, or
one and a doomed stream, are two calls (`Counted`). The size of a list is the number of its bytes,
so that sizes of lists need no recursion.

*Batch.* A run is a list of adjacent buffers. The place of a byte in the file is therefore a bijection
from the bytes of a run to an interval that keeps their order (`RunHasNoGap`, `PlacesDiffer`): the rank
of a byte in the request, by which the model says what a short read fills, is its distance from the
offset (`RankIsPlace`), and the first n bytes of the request are n bytes of the file. `IInv` adds to
the properties which buffers no request has touched (`Untouched`) and which are filled (`Filled`). The
length is exact because the bytes of a reply were not moved before (`Counting`). That there is a
first place where buffers stop being adjacent, which an induction would give, is a fact about finite
sets of numbers (`LeastNatural`).

*Trim.* `KeepsRest` is about one step, but the range of a step on macOS depends on the offset and the
length the steps before have left. `Moving` says that what is left to do always ends where the range
ends; with the bounds on `fs__align_up` and `fs__align_down` (`AlignBounds`) each step stays inside.
That nothing of the range is left out (`TrimIsTrue`) needs in addition what is behind the offset and
where the pieces end (`Pieces`): the hole starts at the first block of the range, which
`fs__align_up` gives because it is the least multiple that is not below (`AlignUpIsLeast`), and the
tail is less than a block, since `fs__align_down` is the greatest (`AlignDownIsMost`).

*FileTreeProofs* has the lemmas on prefixes and parents that the proofs of Rmdir, Mkdir and Merge rest
on.

Only model-checked: liveness, that is `ReturnsIfRemovable` and `ReturnsIfJoinable`, `Returns` of Mkdir
and of Batch, and `Answered`. TLAPS does not reason about ENABLED and fairness here. The four
violations are runs of TLC as well.

## Not modelled

Symbolic links; a base inside onto; relative paths in fs_mkdir; writes past the end of the file and
negative offsets in batches; a request reused or freed in its own callback; memory that is not
released (`on_finished_maybe` of rmdir.c and merge.c drops the heap request of the root, on_scandir
those of nested steps); paths inside one another or links in fs_swap, and other programs that change
its paths; negative offsets and offsets near the limits of `int64_t` in fs_trim; the encoding of
attribute names on Windows; what a pending read or write does to memory that was freed or has left
the stack; a list of the streams of a directory; failures of malloc and of uv_fs_* where the code
asserts; `uv_cancel`; the wrappers, which have no state.

## Plan

Order of work, most important behaviour first. All are done.

1. FileTree, Rmdir with TreeRemoval, RmdirProofs.
2. Mkdir, MkdirProofs.
3. Batch.
4. Merge with TreeMerge.
5. Lock, LockProofs.
6. Attr, AttrProofs.
7. Swap with Exchange, SwapProofs.
8. Trim, FileDataProofs (Trim, then Batch).
9. The remaining proofs: MergeProofs; the refinements of TreeRemoval and TreeMerge; the causes of
   failures in Mkdir and Attr and of deadlocks in Lock.
