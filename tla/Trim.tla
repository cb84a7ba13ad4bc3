-------------------------------- MODULE Trim --------------------------------
(***************************************************************************)
(* fs_trim and fs_sparse: src/trim.c and src/sparse.c with linux/trim.c,   *)
(* mac/trim.c, win/trim.c, unix/sparse.c and win/sparse.c.                 *)
(*                                                                         *)
(* One call on a worker thread, while other calls write and truncate the   *)
(* file.  Linux and Windows make one system call.  macOS punches holes of  *)
(* whole blocks only: what is left of the range in front of them and       *)
(* behind them is overwritten with zeros.                                  *)
(***************************************************************************)
EXTENDS Integers

CONSTANTS
  Align,       (* the size of a block: st_blksize                          *)
  MaxSize,     (* the end of the largest range                             *)
  MaxOthers,   (* how many other calls change the file                     *)
  MaxFailures  (* how many system calls fail or fall short                 *)

VARIABLES
  platform,    (* "linux", "mac" or "win"                                  *)
  sparse,      (* the file attribute of Windows                            *)
  ones,        (* the bytes of the file that are not zero                  *)
  size,        (* the size of the file                                     *)
  backed,      (* the blocks that are allocated                            *)
  trim,        (* the call: its arguments, and offset and length as they   *)
               (* move                                                     *)
  written,     (* history: the bytes others wrote during the call          *)
  others,      (* how many other calls there were                          *)
  failures     (* how many system calls failed or fell short               *)

trimVars == <<platform, sparse, ones, size, backed, trim, written, others, failures>>

ASSUME TrimAssumption ==
  /\ Align \in Nat \ {0} /\ \E k \in 0 .. Align : Align = 2^k
  /\ MaxSize \in Nat /\ MaxOthers \in Nat /\ MaxFailures \in Nat

Status == {"OK", "EINVAL", "EIO"}
At  == {"idle", "queued", "head", "hole", "tail", "done"}

Interval(off, len) == off .. off + len - 1
Larger(m, n) == IF m < n THEN n ELSE m
Smaller(m, n) == IF m < n THEN m ELSE n

Block(i) == i \div Align
BlocksOf(bytes) == {Block(i) : i \in bytes}
Whole(bytes) == {b \in BlocksOf(bytes) : Interval(b * Align, Align) \subseteq bytes}

-----------------------------------------------------------------------------
TrimInit ==
  /\ platform \in {"linux", "mac", "win"} /\ sparse = FALSE
  /\ size \in 0 .. MaxSize
  /\ ones = Interval(0, size) /\ backed = BlocksOf(ones)
  /\ trim = [at |-> "idle", start |-> 0, total |-> 0, off |-> 0, len |-> 0, err |-> "OK"]
  /\ written = {} /\ others = 0 /\ failures = 0

(* fs__sparse: FSCTL_SET_SPARSE.                                           *)
SetSparse ==
  \/ sparse' = TRUE /\ UNCHANGED failures
  \/ failures < MaxFailures /\ failures' = failures + 1 /\ UNCHANGED sparse

(* A program that wants holes calls fs_sparse before and waits for it; it  *)
(* does nothing except on Windows.                                         *)
FsSparse ==
  /\ trim.at = "idle" /\ platform = "win"
  /\ SetSparse
  /\ UNCHANGED <<platform, ones, size, backed, trim, written, others>>

(* uv_queue_work.                                                          *)
FsTrim(off, len) ==
  /\ trim.at = "idle"
  /\ trim' = [trim EXCEPT !.at = "queued", !.start = off, !.total = len,
                          !.off = off, !.len = len]
  /\ UNCHANGED <<platform, sparse, ones, size, backed, written, others, failures>>

(* Writes and truncations by other calls and programs.                     *)
Other ==
  /\ others < MaxOthers /\ others' = others + 1
  /\ \/ \E i \in 0 .. MaxSize - 1 :
          /\ ones' = ones \cup {i} /\ size' = Larger(size, i + 1)
          /\ backed' = backed \cup BlocksOf(
               IF platform = "win" /\ ~sparse THEN Interval(0, i + 1) ELSE {i})
          /\ written' = IF trim.at = "idle" THEN {} ELSE written \cup {i}
     \/ \E n \in 0 .. size :
          /\ ones' = ones \cap Interval(0, n) /\ size' = n
          /\ backed' = backed \cap BlocksOf(Interval(0, n))
          /\ UNCHANGED written
  /\ UNCHANGED <<platform, sparse, trim, failures>>

-----------------------------------------------------------------------------
(* One system call of the trim.                                            *)
Turn(at, on) ==
  /\ trim.at = at /\ platform = on
  /\ UNCHANGED <<platform, sparse, written, others>>

Ends(err) == trim' = [trim EXCEPT !.at = "done", !.err = err]

(* Where the call goes on with n bytes behind it.                          *)
Advance(n, at) == trim' = [trim EXCEPT !.at = at, !.off = @ + n, !.len = @ - n]

Same == UNCHANGED <<ones, size, backed>>
Spend == failures < MaxFailures /\ failures' = failures + 1
Fault == Spend /\ Ends("EIO") /\ Same

(* Zeros without a block for whole blocks, the size stays.                 *)
Punch(off, len) ==
  /\ ones' = ones \ Interval(off, len) /\ backed' = backed \ Whole(Interval(off, len))
  /\ UNCHANGED <<size, failures>>

(* Zeros that are written, behind the end of the file too.                 *)
WriteZeros(off, len) ==
  /\ ones' = ones \ Interval(off, len) /\ backed' = backed \cup BlocksOf(Interval(off, len))
  /\ size' = IF len = 0 THEN size ELSE Larger(size, off + len)

(* fallocate with FALLOC_FL_PUNCH_HOLE and FALLOC_FL_KEEP_SIZE.            *)
LinuxTrim ==
  /\ Turn("queued", "linux")
  /\ \/ trim.len = 0 /\ Ends("EINVAL") /\ Same /\ UNCHANGED failures
     \/ trim.len > 0 /\ Punch(trim.off, trim.len) /\ Ends("OK")
     \/ Fault

(* FSCTL_SET_ZERO_DATA: holes only in a file that is sparse.               *)
WinTrim ==
  /\ Turn("queued", "win")
  /\ \/ sparse /\ Punch(trim.off, trim.len) /\ Ends("OK")
     \/ /\ ~sparse /\ ones' = ones \ Interval(trim.off, trim.len)
        /\ Ends("OK") /\ UNCHANGED <<size, backed, failures>>
     \/ Fault

(* fs__align_up and fs__align_down, for an Align that is a power of two.   *)
AlignUp(n) == IF n % Align = 0 THEN n ELSE n + (Align - (n % Align))

(* A slip: the length is not cut to whole blocks.                          *)
AlignDownNever(n) == IF n < Align THEN 0 ELSE n

AlignDown(n) == n - (n % Align)

MacStat ==
  /\ Turn("queued", "mac")
  /\ \/ Advance(0, "head") /\ Same /\ UNCHANGED failures
     \/ Fault

(* pwrite: what it reports is only compared with -1, so that a short one   *)
(* passes for all of it.                                                   *)
Pwrite(n) ==
  \/ WriteZeros(trim.off, n) /\ UNCHANGED failures
  \/ \E short \in 0 .. n - 1 : WriteZeros(trim.off, short) /\ Spend

(* A slip: a range that ends before the first whole block is overrun.      *)
HeadLengthToBlock(off, len) == AlignUp(off) - off

HeadLength(off, len) == Smaller(len, AlignUp(off) - off)

(* The range up to a block.                                                *)
MacHead ==
  /\ Turn("head", "mac")
  /\ LET n == HeadLength(trim.off, trim.len)
     IN \/ AlignUp(trim.off) = trim.off /\ Advance(0, "hole") /\ Same /\ UNCHANGED failures
        \/ AlignUp(trim.off) # trim.off /\ (Fault \/ (Pwrite(n) /\ Advance(n, "hole")))

(* F_PUNCHHOLE for whole blocks; EINVAL for anything else.                 *)
MacHole ==
  /\ Turn("hole", "mac")
  /\ LET n == AlignDown(trim.len)
         aligned == trim.off % Align = 0 /\ n % Align = 0
     IN \/ n < Align /\ Advance(0, "tail") /\ Same /\ UNCHANGED failures
        \/ n >= Align /\ ~aligned /\ Ends("EINVAL") /\ Same /\ UNCHANGED failures
        \/ n >= Align /\ aligned /\ Punch(trim.off, n) /\ Advance(n, "tail")
        \/ n >= Align /\ Fault

(* What is left.                                                           *)
MacTail ==
  /\ Turn("tail", "mac")
  /\ \/ trim.len = 0 /\ Ends("OK") /\ Same /\ UNCHANGED failures
     \/ trim.len > 0 /\ (Fault \/ (Pwrite(trim.len) /\ Ends("OK")))

TrimNext ==
  \/ FsSparse
  \/ \E off \in 0 .. MaxSize : \E len \in 0 .. MaxSize - off : FsTrim(off, len)
  \/ Other
  \/ LinuxTrim \/ WinTrim
  \/ MacStat \/ MacHead \/ MacHole \/ MacTail

TrimSpec == TrimInit /\ [][TrimNext]_trimVars

-----------------------------------------------------------------------------
TrimRange == Interval(trim.start, trim.total)

(* A call that no system call has failed succeeds, but that Linux rejects  *)
(* an empty range: the pieces of macOS are always such that F_PUNCHHOLE    *)
(* takes them (mac/trim.c:37-70).  Then no byte of the range is left but   *)
(* those that others wrote, and no block that lies in the range whole and  *)
(* in which nobody wrote, except in a file of Windows that is not sparse.  *)
TrimIsTrue ==
  trim.at = "done" /\ failures = 0 =>
    /\ trim.err = IF platform = "linux" /\ trim.total = 0 THEN "EINVAL" ELSE "OK"
    /\ ones \cap TrimRange \subseteq written
    /\ (platform = "win" /\ ~sparse) \/ Whole(TrimRange) \cap backed \subseteq BlocksOf(written)

(* Whatever fails or falls short, and whatever others do between its       *)
(* steps, the trim itself clears only bytes and frees only blocks of its   *)
(* range.  The file never gets shorter; and longer only on macOS, whose    *)
(* zeros are written behind the end of the file too, up to the end of the  *)
(* range (mac/trim.c:44, 75).                                              *)
KeepsRest ==
  [][trim' # trim =>
       /\ ones' \subseteq ones /\ ones \ ones' \subseteq TrimRange
       /\ backed \ backed' \subseteq Whole(TrimRange)
       /\ backed' \ backed \subseteq BlocksOf(TrimRange)
       /\ size' # size => platform = "mac" /\ size' \in size .. trim.start + trim.total]_trimVars
=============================================================================
