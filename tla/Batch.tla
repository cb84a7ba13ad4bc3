------------------------------- MODULE Batch --------------------------------
(***************************************************************************)
(* fs_read_batch and fs_write_batch: src/read-batch.c, src/write-batch.c.  *)
(*                                                                         *)
(* A batch is a list of buffers, each with an offset in the file.  The     *)
(* library cuts the list into runs of buffers that are adjacent in the     *)
(* file and submits one libuv request per run, one after the other.  The   *)
(* two files differ only in the call that submits the first run, so one    *)
(* module models both: op tells them apart.                                *)
(*                                                                         *)
(* Memory and file are modelled byte by byte, each byte with a value of    *)
(* its own, so that a byte in the wrong place can be told.                 *)
(***************************************************************************)
EXTENDS Integers, Sequences, FiniteSets

CONSTANTS
  Jobs,        (* the batches the caller may submit: len and off of each   *)
               (* buffer, at places that are not negative or shared        *)
  FileSize,    (* the size of the file                                     *)
  MaxFaults,   (* how many requests may fail or fall short                 *)
  SizeMax      (* what -1 becomes as a size_t                              *)

VARIABLES
  op,          (* "read" or "write": which of the two was called           *)
  job,         (* the batch                                                *)
  phase,       (* "idle", "running", or "refused": the call returned an    *)
               (* error and no callback will run                           *)
  pos,         (* how many buffers req->bufs and req->offsets moved on     *)
  remaining,   (* req->remaining                                           *)
  batched,     (* req->batched                                             *)
  len,         (* req->len                                                 *)
  uv,          (* the libuv request                                        *)
  memory,      (* the bytes of the buffers                                 *)
  file,        (* the bytes of the file                                    *)
  faults,      (* how many requests failed or fell short                   *)
  replies      (* what the callback was called with, in order              *)

vars == <<op, job, phase, pos, remaining, batched, len, uv, memory, file, faults, replies>>

ASSUME BatchAssumption ==
  /\ FileSize \in Nat /\ MaxFaults \in Nat /\ SizeMax \in Nat
  /\ \A j \in Jobs : /\ j.len \in Seq(Nat) /\ j.off \in Seq(Nat)
                     /\ Len(j.len) = Len(j.off)
                     /\ \A i, k \in DOMAIN j.len : i < k =>
                          \/ j.off[i] + j.len[i] <= j.off[k]
                          \/ j.off[k] + j.len[k] <= j.off[i]

(* The number of buffers, and the bytes <<i, k>>: the k-th of buffer i.    *)
Bufs(j)  == Len(j.len)
Bytes(j) == UNION {{i} \X (0 .. j.len[i] - 1) : i \in 1 .. Bufs(j)}

(* Where byte b of the batch belongs in the file.                          *)
Place(j, b) == j.off[b[1]] + b[2]

(* The values a byte had before the call.                                  *)
OldMemory(j) == [b \in Bytes(j) |-> <<"memory", b[1], b[2]>>]
OldFile      == [c \in 0 .. FileSize - 1 |-> <<"file", c>>]

Err == {"OK", "EIO", "ENOMEM"}

(* A uv_fs_t: the system call, the buffers and the offset it was given,    *)
(* the error and the number of bytes it ended with.                        *)
Idle == [call |-> "none", first |-> 0, count |-> 0, off |-> 0,
         done |-> FALSE, err |-> "OK", n |-> 0]

Submit(call, first, count, off) ==
  [Idle EXCEPT !.call = call, !.first = first, !.count = count, !.off = off]

-----------------------------------------------------------------------------
(* A slip: the last buffer of the run is compared with nothing.            *)
AdjacentAlways(j, i) == i < Bufs(j)

(* offsets[n - 1] + bufs[n - 1].len == offsets[n]                          *)
Adjacent(j, i) == j.off[i] + j.len[i] = j.off[i + 1]

(* contiguous_bufs: the longest run of adjacent buffers behind the first p *)
(* of the r that remain.                                                   *)
ContiguousBufs(j, p, r) ==
  CHOOSE n \in 1 .. r : /\ \A i \in 1 .. n - 1 : Adjacent(j, p + i)
                        /\ n < r => ~Adjacent(j, p + n)

Init ==
  /\ op \in {"read", "write"}
  /\ job \in Jobs
  /\ op = "write" => \A b \in Bytes(job) : Place(job, b) < FileSize
  /\ phase = "idle"
  /\ pos = 0 /\ remaining = 0 /\ batched = 0 /\ len = 0
  /\ uv = Idle
  /\ memory = OldMemory(job)
  /\ file = OldFile
  /\ faults = 0
  /\ replies = << >>

(* fs_read_batch, fs_write_batch.                                          *)
Call ==
  /\ phase = "idle"
  /\ \/ /\ Bufs(job) < 1
        /\ phase' = "refused"
        /\ UNCHANGED <<remaining, batched, uv, faults>>
     \/ /\ Bufs(job) >= 1
        /\ remaining' = Bufs(job)
        /\ batched' = ContiguousBufs(job, 0, Bufs(job))
        /\ \/ /\ phase' = "running"
              /\ uv' = Submit(op, 1, batched', job.off[1])
              /\ UNCHANGED faults
           \/ /\ faults < MaxFaults              (* uv_fs_* returned an error *)
              /\ phase' = "refused"
              /\ faults' = faults + 1
              /\ UNCHANGED uv
  /\ UNCHANGED <<op, job, pos, len, memory, file, replies>>

-----------------------------------------------------------------------------
(* preadv and pwritev on a worker thread.                                  *)

(* The bytes of the buffers of the request, and how many of them are in    *)
(* front of byte b.                                                        *)
Requested == {b \in Bytes(job) : b[1] \in uv.first .. uv.first + uv.count - 1}
Before(b) == {d \in Requested : d[1] < b[1] \/ (d[1] = b[1] /\ d[2] < b[2])}
Rank(b)   == Cardinality(Before(b))

(* How many bytes there are to transfer.                                   *)
Available ==
  LET asked == Cardinality(Requested)
      upto  == IF uv.off < FileSize THEN FileSize - uv.off ELSE 0
  IN IF asked < upto THEN asked ELSE upto

(* The bytes among the first n of the request.                             *)
First(n) == {b \in Requested : Rank(b) < n}

(* The first n bytes go to the buffers, in their order.                    *)
ReadInto(n) ==
  memory' = [b \in Bytes(job) |->
               IF b \in First(n) THEN file[uv.off + Rank(b)] ELSE memory[b]]

(* The first n bytes go to the file.                                       *)
WriteFrom(n) ==
  file' = [c \in 0 .. FileSize - 1 |->
             IF \E b \in First(n) : uv.off + Rank(b) = c
             THEN memory[CHOOSE b \in First(n) : uv.off + Rank(b) = c]
             ELSE file[c]]

Work ==
  /\ uv.call # "none" /\ ~uv.done
  /\ \/ \E n \in 0 .. Available :
          /\ n = Available \/ faults < MaxFaults
          /\ faults' = IF n = Available THEN faults ELSE faults + 1
          /\ uv' = [uv EXCEPT !.done = TRUE, !.n = n]
          /\ IF uv.call = "read" THEN ReadInto(n) /\ UNCHANGED file
                                 ELSE WriteFrom(n) /\ UNCHANGED memory
     \/ /\ faults < MaxFaults
        /\ faults' = faults + 1
        /\ uv' = [uv EXCEPT !.done = TRUE, !.err = "EIO"]
        /\ UNCHANGED <<memory, file>>
  /\ UNCHANGED <<op, job, phase, pos, remaining, batched, len, replies>>

-----------------------------------------------------------------------------
(* The loop thread.                                                        *)

(* A slip: the run is counted off when it is submitted and when it ends.   *)
LeftTwice == IF remaining > 2 * batched THEN remaining - 2 * batched ELSE 0

(* req->remaining -= batched                                               *)
Left == remaining - batched

(* A slip: every run ends with a success.                                  *)
ReplyEach(err, n, rest) ==
  IF err # "OK" THEN <<[status |-> err, len |-> 0]>>
                ELSE <<[status |-> "OK", len |-> len + n]>>

(* The callback of the caller, if it is called: at every error, and at the *)
(* end of the last run.                                                    *)
Reply(err, n, rest) ==
  IF err # "OK" THEN <<[status |-> err, len |-> 0]>>
  ELSE IF rest = 0 THEN <<[status |-> "OK", len |-> len + n]>>
  ELSE << >>

(* A slip: the offsets do not move on with the buffers.                    *)
NextRunAtOldOffset(p, count) == Submit("read", p + 1, count, job.off[1])

(* A slip: the next run is never submitted.                                *)
NextRunForgotten(p, count) == Idle

(* The request for the next run.  Both files call uv_fs_read here.         *)
NextRun(p, count) == Submit("read", p + 1, count, job.off[p + 1])

(* Slips: only the last run counts; a negative result is added like any    *)
(* other.                                                                  *)
TotalOfLast(err, n) == IF err = "OK" THEN n ELSE len
TotalOfAll(err, n)  == IF err = "OK" THEN len + n ELSE len - 1

(* read_req->len += read                                                   *)
Total(err, n) == IF err = "OK" THEN len + n ELSE len

(* on_read_batch, on_write_batch.                                          *)
OnBatch ==
  /\ uv.call # "none" /\ uv.done
  /\ remaining' = Left
  /\ len' = Total(uv.err, uv.n)
  /\ LET replied == replies \o Reply(uv.err, uv.n, remaining') IN
       \/ /\ remaining' = 0
          /\ replies' = replied
          /\ uv' = Idle
          /\ UNCHANGED <<pos, batched, faults>>
       \/ /\ remaining' # 0
          /\ pos' = pos + batched
          /\ batched' = ContiguousBufs(job, pos', remaining')
          /\ \/ /\ uv' = NextRun(pos', batched')
                /\ replies' = replied
                /\ UNCHANGED faults
             \/ /\ faults < MaxFaults             (* uv_fs_read returned an error *)
                /\ faults' = faults + 1
                /\ uv' = Idle
                /\ replies' = Append(replied, [status |-> "ENOMEM", len |-> SizeMax])
  /\ UNCHANGED <<op, job, phase, memory, file>>

-----------------------------------------------------------------------------
Next == Call \/ Work \/ OnBatch

(* libuv runs every submitted request and delivers every finished one.     *)
Spec == Init /\ [][Next]_vars /\ WF_vars(Work) /\ WF_vars(OnBatch)

-----------------------------------------------------------------------------
(* Properties.                                                             *)

(* Every field keeps its type; remaining never wraps.                      *)
TypeOK ==
  /\ op \in {"read", "write"}
  /\ phase \in {"idle", "running", "refused"}
  /\ pos \in Nat /\ remaining \in Nat /\ batched \in Nat /\ len \in Nat
  /\ uv.call \in {"none", "read", "write"} /\ uv.err \in Err
  /\ DOMAIN memory = Bytes(job) /\ DOMAIN file = 0 .. FileSize - 1
  /\ faults \in 0 .. MaxFaults
  /\ replies \in Seq([status : Err, len : Nat])

(* No buffer is skipped or submitted twice: the request in flight covers   *)
(* the first run of the buffers that remain, all of it and nothing else,   *)
(* at its place in the file (src/read-batch.c:38-56).                      *)
RequestIsNextRun ==
  uv.call # "none" =>
    /\ pos + remaining = Bufs(job)
    /\ batched \in 1 .. remaining
    /\ uv.first = pos + 1 /\ uv.count = batched /\ uv.off = job.off[pos + 1]
    /\ \A i \in 1 .. batched - 1 : job.off[pos + i] + job.len[pos + i] = job.off[pos + i + 1]
    /\ batched < remaining =>
         job.off[pos + batched] + job.len[pos + batched] # job.off[pos + batched + 1]

(* Whatever fails or falls short, a byte is where it was or where the      *)
(* offsets of the batch put it: one vectored call per run is as good as a  *)
(* call per buffer (src/read-batch.c:6-14).                                *)
NoMisplacedByte ==
  /\ \A b \in Bytes(job) :
       memory[b] \in {OldMemory(job)[b]} \cup
                     {OldFile[c] : c \in {Place(job, b)} \cap DOMAIN file}
  /\ \A c \in DOMAIN file :
       file[c] \in {OldFile[c]} \cup
                  {OldMemory(job)[b] : b \in {d \in Bytes(job) : Place(job, d) = c}}

(* A read that is answered without a fault has filled every buffer, up to  *)
(* the end of the file (src/read-batch.c:33-35).                           *)
AnsweredReadIsComplete ==
  op = "read" /\ faults = 0 /\ replies # << >> =>
    \A b \in Bytes(job) :
      memory[b] = IF Place(job, b) < FileSize THEN OldFile[Place(job, b)] ELSE OldMemory(job)[b]

(* The len of the callback is the number of bytes that moved, also when    *)
(* runs before or after failed or fell short (src/read-batch.c:31, 34).    *)
LenCountsBytes ==
  LET moved == Cardinality({b \in Bytes(job) : memory[b] # OldMemory(job)[b]})
               + Cardinality({c \in DOMAIN file : file[c] # OldFile[c]})
  IN /\ len + (IF uv.done THEN uv.n ELSE 0) = moved
     /\ \A i \in DOMAIN replies : replies[i].status = "OK" => replies[i].len = moved

(* Success is reported at the very end, and the callback runs once unless  *)
(* something failed (src/read-batch.c:28-36, 58-60).                       *)
SuccessIsFinal ==
  /\ faults = 0 => Len(replies) <= 1
  /\ \A i \in DOMAIN replies : replies[i].status = "OK" =>
       i = Len(replies) /\ remaining = 0 /\ uv.call = "none"

(* A batch that was accepted ends, and has been answered then.             *)
Returns == phase = "running" ~> uv.call = "none" /\ replies # << >>

(* fs_write_batch takes const buffers and writes them (include/fs.h:371):  *)
(* once it succeeds they are in the file.                                  *)
AnsweredWriteIsComplete ==
  op = "write" /\ faults = 0 /\ replies # << >> =>
    \A b \in Bytes(job) : file[Place(job, b)] = OldMemory(job)[b]
=============================================================================
