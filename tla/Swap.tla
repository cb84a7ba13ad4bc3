-------------------------------- MODULE Swap --------------------------------
(***************************************************************************)
(* fs_swap: src/swap.c, linux/swap.c, mac/swap.c and win/swap.c.           *)
(*                                                                         *)
(* Calls run on the worker threads, in any order and on the same paths.    *)
(* Linux and macOS exchange two paths in one system call.  Windows moves   *)
(* files three times, over a file it has created in the directory for      *)
(* temporary files, and returns at the first move that fails.              *)
(*                                                                         *)
(* The paths are different and none is inside another; nothing but fs_swap *)
(* changes them.                                                           *)
(***************************************************************************)
EXTENDS Naturals

CONSTANTS
  Req,         (* the request structures of the program                    *)
  Path,        (* the paths that are swapped                               *)
  Temp,        (* the names GetTempFileName can give                       *)
  Missing,     (* no file                                                  *)
  Blank,       (* the empty file GetTempFileName creates                   *)
  MaxCalls,    (* how many calls the program makes                         *)
  MaxFaults    (* how many system calls fail for no reason modelled here   *)

VARIABLES
  platform,    (* "unix" or "win"                                          *)
  dirs,        (* which of the paths named a directory at first            *)
  file,        (* what each name names, told by the path that named it     *)
               (* first, Blank or Missing                                  *)
  req,         (* the call under way with each request                     *)
  had,         (* history: the paths that named something at first         *)
  left,        (* history: the temporary names of the calls that failed    *)
  calls,       (* how many calls were made                                 *)
  faults       (* how many system calls failed without a reason            *)

vars == <<platform, dirs, file, req, had, left, calls, faults>>

ASSUME SwapAssumption ==
  /\ Path \cap Temp = {}
  /\ {Missing, Blank} \cap (Path \cup Temp) = {} /\ Missing # Blank
  /\ MaxCalls \in Nat /\ MaxFaults \in Nat

Err == {"OK", "ENOENT", "EACCES", "EIO"}
At  == {"free", "queued", "named", "moved", "crossed", "done"}

Free == [at |-> "free", from |-> Missing, to |-> Missing, swap |-> Missing, err |-> "OK"]

Init ==
  /\ platform \in {"unix", "win"}
  /\ had \in SUBSET Path /\ dirs \in SUBSET had
  /\ file = [x \in Path \cup Temp |-> IF x \in had THEN x ELSE Missing]
  /\ req = [r \in Req |-> Free]
  /\ left = {} /\ calls = 0 /\ faults = 0

(* uv_queue_work, with copies of the paths.                                *)
FsSwap(r, from, to) ==
  /\ req[r].at = "free" /\ calls < MaxCalls
  /\ req' = [req EXCEPT ![r] = [Free EXCEPT !.at = "queued", !.from = from, !.to = to]]
  /\ calls' = calls + 1
  /\ UNCHANGED <<platform, dirs, file, had, left, faults>>

(* The rest of a step that goes on, and of one that returns.               *)
Goes(r, at) == req' = [req EXCEPT ![r].at = at] /\ UNCHANGED <<left, faults>>

Returns(r, err) ==
  /\ req' = [req EXCEPT ![r].at = "done", ![r].err = err]
  /\ left' = IF err # "OK" /\ req[r].at \in {"named", "moved", "crossed"}
             THEN left \cup {req[r].swap} ELSE left

Fault(r) ==
  /\ faults < MaxFaults /\ faults' = faults + 1
  /\ Returns(r, "EIO") /\ UNCHANGED file

Fails(r, err) == Returns(r, err) /\ UNCHANGED <<file, faults>>

-----------------------------------------------------------------------------
(* A slip: the flag for an exchange is missing, and from replaces to.      *)
Renamed(from, to) == [file EXCEPT ![to] = file[from], ![from] = Missing]

Exchanged(from, to) == [file EXCEPT ![to] = file[from], ![from] = file[to]]

(* renameat2 with RENAME_EXCHANGE, renameatx_np with RENAME_SWAP.          *)
UnixSwap(r) ==
  /\ platform = "unix" /\ req[r].at = "queued"
  /\ LET from == req[r].from
         to == req[r].to
     IN \/ Missing \in {file[from], file[to]} /\ Fails(r, "ENOENT")
        \/ /\ Missing \notin {file[from], file[to]}
           /\ file' = Exchanged(from, to)
           /\ Returns(r, "OK") /\ UNCHANGED faults
        \/ Fault(r)
  /\ UNCHANGED <<platform, dirs, had, calls>>

(* A slip: a unique number is passed, and no file is looked for.           *)
UnusedUnchecked(t) == TRUE

Unused(t) == file[t] = Missing

(* fs__temp_path: a name that is not in use, and an empty file.            *)
TempPath(r) ==
  /\ platform = "win" /\ req[r].at = "queued"
  /\ \/ \E t \in Temp :
          /\ Unused(t)
          /\ file' = [file EXCEPT ![t] = Blank]
          /\ req' = [req EXCEPT ![r].at = "named", ![r].swap = t]
          /\ UNCHANGED <<left, faults>>
     \/ Fault(r)
  /\ UNCHANGED <<platform, dirs, had, calls>>

(* fs__move: MoveFileEx with MOVEFILE_REPLACE_EXISTING, which neither      *)
(* replaces a directory nor replaces anything by one.                      *)
Blocked(from, to) == file[to] # Missing /\ {file[from], file[to]} \cap dirs # {}

Moved(from, to) == [file EXCEPT ![to] = file[from], ![from] = Missing]

(* One move of r, after which it is at "at", or returns what the last does.*)
Move(r, from, to, at) ==
  /\ \/ file[from] = Missing /\ Fails(r, "ENOENT")
     \/ file[from] # Missing /\ Blocked(from, to) /\ Fails(r, "EACCES")
     \/ /\ file[from] # Missing /\ ~Blocked(from, to)
        /\ file' = Moved(from, to)
        /\ IF at = "done" THEN Returns(r, "OK") /\ UNCHANGED faults ELSE Goes(r, at)
     \/ Fault(r)
  /\ UNCHANGED <<platform, dirs, had, calls>>

MoveAway(r) == req[r].at = "named" /\ Move(r, req[r].to, req[r].swap, "moved")

(* A slip: the last move is forgotten.                                     *)
MoveOverOnly(r) == req[r].at = "moved" /\ Move(r, req[r].from, req[r].to, "done")

MoveOver(r) == req[r].at = "moved" /\ Move(r, req[r].from, req[r].to, "crossed")
MoveBack(r) == req[r].at = "crossed" /\ Move(r, req[r].swap, req[r].from, "done")

(* The callback.                                                           *)
AfterWork(r) ==
  /\ req[r].at = "done" /\ req' = [req EXCEPT ![r] = Free]
  /\ UNCHANGED <<platform, dirs, file, had, left, calls, faults>>

Next ==
  \E r \in Req :
    \/ \E from, to \in Path : FsSwap(r, from, to)
    \/ UnixSwap(r)
    \/ TempPath(r) \/ MoveAway(r) \/ MoveOver(r) \/ MoveBack(r)
    \/ AfterWork(r)

Spec == Init /\ [][Next]_vars

-----------------------------------------------------------------------------
Call == [at: At \ {"free"}, from: Path, to: Path, swap: Temp \cup {Missing}, err: Err]

Holding(r, t) == req[r].at \in {"named", "moved", "crossed"} /\ req[r].swap = t

(* The types, and that no two calls have one temporary file.               *)
TypeOK ==
  /\ platform \in {"unix", "win"}
  /\ had \subseteq Path /\ dirs \subseteq had
  /\ file \in [Path \cup Temp -> had \cup {Missing, Blank}]
  /\ req \in [Req -> Call \cup {Free}]
  /\ \A r \in Req : req[r].at \in {"named", "moved", "crossed"} =>
       req[r].swap \in Temp /\ \A q \in Req : Holding(q, req[r].swap) => q = r
  /\ left \subseteq Temp
  /\ calls \in 0 .. MaxCalls /\ faults \in 0 .. MaxFaults

(* However calls overlap and wherever they fail, each file and directory   *)
(* is still there, under exactly one name: MOVEFILE_REPLACE_EXISTING never *)
(* replaces anything but the empty file (win/swap.c:22-31), since whoever  *)
(* moves something to a path has taken away what was there.  And the name  *)
(* is a path, unless a call is under way or has failed: one that succeeds  *)
(* leaves nothing in the directory for temporary files.                    *)
NothingLost ==
  /\ \A c \in had : \E x \in Path \cup Temp :
       file[x] = c /\ \A y \in Path \cup Temp : file[y] = c => y = x
  /\ \A t \in Temp : file[t] # Missing => t \in left \/ \E r \in Req : Holding(r, t)

(* The path from which a call has taken what it has under its own name.    *)
TakenFrom(r, p) ==
  \/ req[r].at = "moved" /\ req[r].to = p
  \/ req[r].at = "crossed" /\ req[r].from = p

(* What the paths name, with what is taken away for a while still there.   *)
Contents ==
  [p \in Path |->
    IF \E r \in Req : TakenFrom(r, p)
    THEN file[req[CHOOSE r \in Req : TakenFrom(r, p)].swap] ELSE file[p]]

(* How far a call is with its exchange.                                    *)
Stage(r) ==
  CASE req[r].at = "free"                -> "idle"
    [] req[r].at \in {"queued", "named"} -> "begun"
    [] req[r].at = "moved"               -> "committed"
    [] req[r].at = "crossed"             -> "exchanged"
    [] req[r].at = "done"                -> IF req[r].err = "OK" THEN "succeeded" ELSE "failed"

Calling == [r \in Req |-> [at |-> Stage(r), from |-> req[r].from, to |-> req[r].to]]

Abstract == INSTANCE Exchange
              WITH contents <- Contents, atomic <- platform = "unix", call <- Calling

(* Calls that overlap have the effect of exchanges one after the other:    *)
(* each call that succeeds has made one, of its own two paths, before it   *)
(* returned, and one that fails has changed nothing.  On Windows it is the *)
(* second move that makes it (win/swap.c:42), and there is one exception:  *)
(* a call whose second or third move fails loses what its "to" named       *)
(* first, for the path "to" in the one case, and in the other for "from",  *)
(* with the exchange made (win/swap.c:43-45).  Nothing else is ever lost.  *)
RefinesExchange == Abstract!ExchangeSpec
=============================================================================
