-------------------------------- MODULE Attr --------------------------------
(***************************************************************************)
(* Extended attributes: src/attr.c and the three implementations behind    *)
(* it, linux/attr.c, mac/attr.c and win/attr.c.                            *)
(*                                                                         *)
(* Calls on one file run on the worker threads, in any order.  On Linux    *)
(* and macOS a get and a list ask for the size first and for the data      *)
(* then; on Windows an attribute is a stream of the file, which is opened  *)
(* for every get, set and remove.  What other calls do in between is what  *)
(* the properties are about.  The streams are opened for asynchronous      *)
(* access, and the code takes STATUS_PENDING for success: NtReadFile and   *)
(* NtWriteFile may still be under way when it returns.                     *)
(*                                                                         *)
(* A value is told by its identity and its size.  A buffer that is larger  *)
(* than what was written to it has a tail that malloc left undefined.      *)
(***************************************************************************)
EXTENDS Naturals, FiniteSets

CONSTANTS
  Req,         (* the request structures of the program                    *)
  Name,        (* the names of attributes                                  *)
  Value,       (* the values of attributes                                 *)
  Empty,       (* the value of size 0                                      *)
  Absent,      (* no attribute: not a value                                *)
  Size,        (* the size of each value, and of each name with its NUL    *)
  MaxCalls,    (* how many calls the program makes                         *)
  MaxFaults,   (* how many system calls fail for no reason modelled here   *)
  MaxLags      (* how many reads and writes are pending when they return   *)

VARIABLES
  platform,    (* "linux", "mac" or "win"                                  *)
  attrs,       (* the attributes of the file                               *)
  doomed,      (* streams deleted on Windows that somebody has still open  *)
  req,         (* the call under way with each request                     *)
  seen,        (* history: for a list the sets of names, for other calls   *)
               (* the values of the name, the file had during the call     *)
  calls,       (* how many calls were made                                 *)
  faults,      (* how many system calls failed without a reason            *)
  late,        (* the writes on Windows still pending after their call     *)
  lags         (* how many reads and writes were pending when they returned*)

vars == <<platform, attrs, doomed, req, seen, calls, faults, late, lags>>

Platform == {"linux", "mac", "win"}
Op  == {"get", "set", "remove", "list"}
Err == {"OK", "ENODATA", "ENOATTR", "ERANGE", "EIO"}

ASSUME AttrAssumption ==
  /\ IsFiniteSet(Name) /\ Name # {} /\ Empty \in Value /\ Absent \notin Value
  /\ Size \in [Name \cup Value -> Nat]
  /\ \A v \in Value : Size[v] = 0 <=> v = Empty
  /\ \A n \in Name : Size[n] > 0
  /\ MaxCalls \in Nat /\ MaxFaults \in Nat /\ MaxLags \in Nat

Present == {n \in Name : attrs[n] # Absent}

(* The bytes of a list of names, and how many they are.                    *)
NameBytes(names) == UNION {{n} \X (1 .. Size[n]) : n \in names}
SizeOf(names)    == Cardinality(NameBytes(names))

(* A request: at is "free", "queued", "sized" (the first of two calls is   *)
(* made), "opened" (a stream is open) or "done".  data is the buffer to be *)
(* handed over: what was written to it, its size, and for a list how many  *)
(* entries its undefined tail was taken for.  base is the pointer the      *)
(* callback frees: "null", "own", or "before", whatever the structure held *)
(* before the call.  old is history: what a set has truncated.             *)
NoData == [got |-> Absent, size |-> 0, junk |-> 0]

Free == [op |-> "get", name |-> CHOOSE n \in Name : TRUE, value |-> Empty, at |-> "free",
         data |-> NoData, base |-> "null", old |-> Absent, err |-> "OK"]

(* The streams of name n that are open.                                    *)
Opened(op, n) == {r \in Req : req[r].at = "opened" /\ req[r].op = op /\ req[r].name = n}

(* The value of n as the calls so far leave it: a set counts when it ends. *)
Committed(n) ==
  IF Opened("set", n) # {} THEN req[CHOOSE r \in Opened("set", n) : TRUE].old
  ELSE IF n \in doomed THEN Absent ELSE attrs[n]

Observed(r) == IF req[r].op = "list" THEN Present ELSE Committed(req[r].name)

(* Every step is observed by the calls under way.                          *)
Observe ==
  seen' = [r \in Req |->
    IF req'[r].at = "free" THEN {}
    ELSE IF req[r].at = "done" THEN seen[r]
    ELSE seen[r] \cup {Observed(r)'}]

-----------------------------------------------------------------------------
Init ==
  /\ platform \in Platform
  /\ attrs \in [Name -> Value \cup {Absent}]
  /\ doomed = {}
  /\ req = [r \in Req |-> Free]
  /\ seen = [r \in Req |-> {}]
  /\ calls = 0 /\ faults = 0
  /\ late = {} /\ lags = 0

(* uv_queue_work, with the fields the function sets.                       *)
Begin(r, op, n, v, base) ==
  /\ req[r].at = "free" /\ calls < MaxCalls
  /\ req' = [req EXCEPT ![r] = [Free EXCEPT !.op = op, !.name = n, !.value = v,
                                            !.at = "queued", !.base = base]]
  /\ calls' = calls + 1
  /\ UNCHANGED <<platform, attrs, doomed, faults, late, lags>>
  /\ Observe

(* A slip: the buffer is left as it is.                                    *)
FsGetAttrUnset(r, n) == Begin(r, "get", n, Empty, "before")

FsGetAttr(r, n)    == Begin(r, "get", n, Empty, "null")
FsSetAttr(r, n, v) == Begin(r, "set", n, v, "null")
FsRemoveAttr(r, n) == Begin(r, "remove", n, Empty, "null")

(* names and length are not set.                                           *)
FsListAttrs(r) == Begin(r, "list", Free.name, Empty, "before")

-----------------------------------------------------------------------------
(* One system call of r on a worker thread.  It changes r and the          *)
(* attributes, or it fails.                                                *)
Turn(r, op, at, on) ==
  /\ platform \in on /\ req[r].at = at /\ req[r].op = op
  /\ UNCHANGED <<platform, calls>>

Goes(r, at) == req' = [req EXCEPT ![r].at = at]
Ends(r, err) == req' = [req EXCEPT ![r].at = "done", ![r].err = err]
Delivers(r, data) == req' = [req EXCEPT ![r].at = "done", ![r].data = data]
Allocates(r, size) ==
  req' = [req EXCEPT ![r].at = "sized", ![r].base = "own", ![r].data.size = size]

Reads == UNCHANGED <<attrs, doomed, faults, late, lags>>
Sets(n, v) ==
  attrs' = [attrs EXCEPT ![n] = v] /\ UNCHANGED <<doomed, faults, late, lags>>

Fault(r) ==
  /\ faults < MaxFaults /\ faults' = faults + 1
  /\ Ends(r, "EIO")
  /\ UNCHANGED <<attrs, doomed, late, lags>>

Unix == {"linux", "mac"}
Has(r) == attrs[req[r].name]

(* A slip: ENOATTR is not the error of the other platforms.                *)
NoAttrRaw == IF platform = "mac" THEN "ENOATTR" ELSE "ENODATA"

(* errno == ENOATTR: UV_ENODATA                                            *)
NoAttr == "ENODATA"

(* fs__get_attr: the size, then the value.                                 *)
GetSize(r) ==
  /\ Turn(r, "get", "queued", Unix)
  /\ \/ Has(r) = Absent /\ Ends(r, NoAttr) /\ Reads
     \/ Has(r) # Absent /\ Allocates(r, Size[Has(r)]) /\ Reads
     \/ Fault(r)
  /\ Observe

(* The kernel takes a buffer of size 0 for the question how large it is.   *)
TooSmall(size, needed) == size > 0 /\ needed > size

(* A slip: the result of the second call is not looked at.                 *)
GetValueUnchecked(r) ==
  /\ Turn(r, "get", "sized", Unix)
  /\ Delivers(r, [got |-> Has(r), size |-> req[r].data.size, junk |-> 0]) /\ Reads
  /\ Observe

GetValue(r) ==
  /\ Turn(r, "get", "sized", Unix)
  /\ LET size == req[r].data.size
     IN \/ /\ Has(r) = Absent
           /\ Ends(r, IF platform = "mac" THEN "ENOATTR" ELSE "ENODATA") /\ Reads
        \/ Has(r) # Absent /\ TooSmall(size, Size[Has(r)]) /\ Ends(r, "ERANGE") /\ Reads
        \/ /\ Has(r) # Absent /\ ~TooSmall(size, Size[Has(r)])
           /\ Delivers(r, [got |-> IF size = 0 THEN Empty ELSE Has(r), size |-> size, junk |-> 0])
           /\ Reads
        \/ Fault(r)
  /\ Observe

(* fs__set_attr and fs__remove_attr.                                       *)
SetAttr(r) ==
  /\ Turn(r, "set", "queued", Unix)
  /\ \/ Ends(r, "OK") /\ Sets(req[r].name, req[r].value)
     \/ Fault(r)
  /\ Observe

RemoveAttr(r) ==
  /\ Turn(r, "remove", "queued", Unix)
  /\ \/ Has(r) = Absent /\ Ends(r, NoAttr) /\ Reads
     \/ Has(r) # Absent /\ Ends(r, "OK") /\ Sets(req[r].name, Absent)
     \/ Fault(r)
  /\ Observe

(* fs__list_attrs: the size, then the names.                               *)
ListSize(r) ==
  /\ Turn(r, "list", "queued", Unix)
  /\ \/ Allocates(r, SizeOf(Present)) /\ Reads
     \/ Fault(r)
  /\ Observe

(* A slip: the first name is not counted.                                  *)
EntriesButOne(size, names) ==
  {[got |-> names \ {n}, size |-> size, junk |-> 0] : n \in names}

(* The entries between NULs in the size bytes that were asked for, not in  *)
(* those that were written: an undefined tail has one for each NUL in it,  *)
(* and one that runs on behind its end.                                    *)
Entries(size, names) ==
  LET tail == size - SizeOf(names)
  IN {[got |-> names, size |-> size, junk |-> k] : k \in IF tail = 0 THEN {0} ELSE 1 .. tail}

ListNames(r) ==
  /\ Turn(r, "list", "sized", Unix)
  /\ LET size == req[r].data.size
         names == IF size = 0 THEN {} ELSE Present
     IN \/ TooSmall(size, SizeOf(Present)) /\ Ends(r, "ERANGE") /\ Reads
        \/ /\ ~TooSmall(size, SizeOf(Present))
           /\ \E data \in Entries(size, names) : Delivers(r, data)
           /\ Reads
        \/ Fault(r)
  /\ Observe

-----------------------------------------------------------------------------
(* Windows: an attribute is a stream, and who has it open keeps out those  *)
(* whose access it does not share.                                         *)
Win == {"win"}

(* A slip: nobody is kept out of a stream.                                 *)
SharedByAll(op, n) == TRUE

(* GENERIC_READ with FILE_SHARE_READ, GENERIC_WRITE with nothing, DELETE   *)
(* with FILE_SHARE_DELETE: two gets may be open at once, and two removes.  *)
Shared(op, n) ==
  \A other \in {"get", "set", "remove"} :
    Opened(other, n) # {} => op = other /\ op # "set"

Open(r) == Shared(req[r].op, req[r].name) /\ req[r].name \notin doomed

(* NtOpenFile: EIO when others keep it out or the stream is being deleted. *)
WinOpen(r, op) ==
  /\ Turn(r, op, "queued", Win)
  /\ \/ ~Open(r) /\ Ends(r, "EIO") /\ Reads
     \/ Open(r) /\ Has(r) = Absent /\ Ends(r, NoAttr) /\ Reads
     \/ Open(r) /\ Has(r) # Absent /\ Goes(r, "opened") /\ Reads
     \/ Fault(r)
  /\ Observe

WinGetOpen(r)    == WinOpen(r, "get")
WinRemoveOpen(r) == WinOpen(r, "remove")

(* NtQueryInformationFile: the size of the stream.                         *)
WinGetQuery(r) ==
  /\ Turn(r, "get", "opened", Win) /\ req[r].base = "null"
  /\ \/ /\ req' = [req EXCEPT ![r].base = "own", ![r].data.size = Size[Has(r)]]
        /\ Reads
     \/ Fault(r)
  /\ Observe

(* A read or write that is pending when it returns: res >= 0.              *)
Lag == lags < MaxLags /\ lags' = lags + 1 /\ UNCHANGED <<attrs, doomed, faults>>

(* NtReadFile and NtClose.  While the read is pending nothing is in the    *)
(* buffer that anybody wrote.                                              *)
WinGetRead(r) ==
  /\ Turn(r, "get", "opened", Win) /\ req[r].base = "own"
  /\ \/ Delivers(r, [req[r].data EXCEPT !.got = Has(r)]) /\ Reads
     \/ Delivers(r, req[r].data) /\ Lag /\ UNCHANGED late
     \/ Fault(r)
  /\ Observe

(* NtCreateFile with FILE_OVERWRITE_IF: the stream is there, and empty.    *)
WinSetCreate(r) ==
  /\ Turn(r, "set", "queued", Win)
  /\ \/ ~Open(r) /\ Ends(r, "EIO") /\ Reads
     \/ /\ Open(r)
        /\ req' = [req EXCEPT ![r].at = "opened", ![r].old = Has(r)]
        /\ Sets(req[r].name, Empty)
     \/ Fault(r)
  /\ Observe

(* Writing v over w, from the first byte on, leaves the end of a longer w. *)
Over(v, w) == IF Size[w] > Size[v] THEN {u \in Value : Size[u] = Size[w]} ELSE {v}

(* NtWriteFile and NtClose, which waits for nothing.                       *)
WinSetWrite(r) ==
  /\ Turn(r, "set", "opened", Win)
  /\ \/ \E v \in Over(req[r].value, Has(r)) : Ends(r, "OK") /\ Sets(req[r].name, v)
     \/ /\ Ends(r, "OK") /\ Lag
        /\ late' = late \cup {[name |-> req[r].name, size |-> Size[req[r].value], nr |-> lags]}
     \/ Fault(r)
  /\ Observe

(* A pending write lands, or comes to nothing.  Its bytes are those that   *)
(* the program now has where the value was.                                *)
Lands(w) ==
  /\ late' = late \ {w}
  /\ \/ UNCHANGED attrs
     \/ /\ attrs[w.name] # Absent
        /\ \E v \in Value :
             /\ Size[v] = w.size
             /\ \E u \in Over(v, attrs[w.name]) : attrs' = [attrs EXCEPT ![w.name] = u]
  /\ UNCHANGED <<platform, doomed, req, calls, faults, lags>>
  /\ Observe

(* NtDeleteFile and NtClose: the last handle that is closed takes the      *)
(* stream along, and what was to be written to it.  Only the first of      *)
(* several deletions succeeds.                                             *)
WinRemoveDelete(r) ==
  /\ Turn(r, "remove", "opened", Win)
  /\ LET n == req[r].name
         last == Opened("remove", n) = {r}
     IN \/ /\ attrs' = IF last THEN [attrs EXCEPT ![n] = Absent] ELSE attrs
           /\ doomed' = IF last THEN doomed \ {n} ELSE doomed \cup {n}
           /\ late' = IF last THEN {w \in late : w.name # n} ELSE late
           /\ Ends(r, IF n \in doomed THEN "EIO" ELSE "OK")
           /\ UNCHANGED <<faults, lags>>
        \/ n \notin doomed /\ Fault(r)
  /\ Observe

(* fs__list_attrs: all names at once, in a buffer that is large enough.    *)
WinList(r) ==
  /\ Turn(r, "list", "queued", Win)
  /\ \/ /\ req' = [req EXCEPT ![r].at = "done", ![r].base = "own",
                              ![r].data = [got |-> Present, size |-> SizeOf(Present), junk |-> 0]]
        /\ Reads
     \/ Fault(r)
  /\ Observe

-----------------------------------------------------------------------------
(* The callback, and free.                                                 *)
AfterWork(r) ==
  /\ req[r].at = "done" /\ req' = [req EXCEPT ![r] = Free]
  /\ UNCHANGED <<platform, attrs, doomed, calls, faults, late, lags>>
  /\ Observe

Step(r) ==
  \/ \E n \in Name : FsGetAttr(r, n)
  \/ \E n \in Name, v \in Value : FsSetAttr(r, n, v)
  \/ \E n \in Name : FsRemoveAttr(r, n)
  \/ FsListAttrs(r)
  \/ GetSize(r) \/ GetValue(r) \/ SetAttr(r) \/ RemoveAttr(r)
  \/ ListSize(r) \/ ListNames(r)
  \/ WinGetOpen(r) \/ WinGetQuery(r) \/ WinGetRead(r)
  \/ WinSetCreate(r) \/ WinSetWrite(r)
  \/ WinRemoveOpen(r) \/ WinRemoveDelete(r) \/ WinList(r)
  \/ AfterWork(r)

Next ==
  \/ \E r \in Req : Step(r)
  \/ \E w \in late : Lands(w)

Spec == Init /\ [][Next]_vars

-----------------------------------------------------------------------------
Data == [got: Value \cup {Absent} \cup SUBSET Name, size: Nat, junk: Nat]

(* The types, and that on Windows whoever sets an attribute has it for     *)
(* itself: all access to its stream is exclusive (win/attr.c:117-129).     *)
TypeOK ==
  /\ platform \in Platform
  /\ attrs \in [Name -> Value \cup {Absent}]
  /\ doomed \subseteq Present
  /\ req \in [Req -> [op: Op, name: Name, value: Value, data: Data,
                      at: {"free", "queued", "sized", "opened", "done"},
                      base: {"null", "own", "before"},
                      old: Value \cup {Absent}, err: Err]]
  /\ \A r \in Req : seen[r] \subseteq (SUBSET Name) \cup Value \cup {Absent}
  /\ calls \in 0 .. MaxCalls /\ faults \in 0 .. MaxFaults
  /\ late \subseteq [name: Name, size: Nat, nr: Nat] /\ lags \in 0 .. MaxLags
  /\ \A n \in Name : Opened("set", n) # {} =>
       /\ Cardinality(Opened("set", n)) = 1
       /\ Opened("get", n) = {} /\ Opened("remove", n) = {}

Succeeded(op) == {r \in Req : req[r].at = "done" /\ req[r].op = op /\ req[r].err = "OK"}

(* Reads and writes of this platform have been pending when they returned. *)
Lagged == platform = "win" /\ lags > 0

(* A get that succeeds delivers a value the attribute had during the call, *)
(* in a buffer that is as large as such a value.  On Linux and macOS it is *)
(* whole: when a shorter one was set before the data was read, the rest of *)
(* the buffer is undefined, and a longer one is an error (linux/attr.c:12- *)
(* 18, mac/attr.c:12-24).  On Windows it is whole and as long as the       *)
(* buffer, since the stream that is open keeps writers out, as long as no  *)
(* read or write is pending when it returns.  After one that is, a buffer  *)
(* may be undefined, or the value have changed since it was asked for its  *)
(* size (win/attr.c:33-40, 68-88, 133-153).                                *)
GetIsTrue ==
  \A r \in Succeeded("get") :
    LET d == req[r].data
    IN /\ \/ d.got \in seen[r] \ {Absent} /\ (d.size >= Size[d.got] \/ Lagged)
          \/ d.got = Absent /\ Lagged
       /\ \E v \in seen[r] \ {Absent} : d.size = Size[v]
       /\ platform = "win" /\ ~Lagged => d.size = Size[d.got]

(* A list that succeeds has the names the file had at one moment of the    *)
(* call, all of them, and nothing else, unless names were removed between  *)
(* the two calls of Linux and macOS: the entries that are then counted     *)
(* are what malloc left there (linux/attr.c:46-57, mac/attr.c:56-67).      *)
ListIsTrue ==
  \A r \in Succeeded("list") :
    LET d == req[r].data
    IN /\ d.got \in seen[r]
       /\ d.junk # 0 => /\ platform # "win"
                        /\ \E names \in seen[r] : SizeOf(names) > SizeOf(d.got)

(* An error has a cause during the call.  ENODATA says the attribute was   *)
(* missing, on all platforms; macOS says ENOATTR for one that goes between *)
(* the two calls, where only the first is translated (mac/attr.c:15,24);   *)
(* ERANGE says that it grew.  EIO without a failing system call is what    *)
(* Windows says of a stream another call has open.  And a missing          *)
(* attribute is never got or removed, nor one that is there found missing. *)
ErrorHasCause ==
  \A r \in Req : req[r].at = "done" =>
    LET err == req[r].err
        values == seen[r] \cap Value
    IN /\ err \in {"ENODATA", "ENOATTR"} => Absent \in seen[r]
       /\ err = "ENOATTR" => platform = "mac" /\ req[r].op = "get" /\ values # {}
       /\ err = "ERANGE" => platform # "win" /\ Cardinality(seen[r]) > 1
       /\ err = "EIO" /\ faults = 0 => platform = "win" /\ calls > 1
       /\ req[r].op \in {"get", "remove"} /\ values = {} => err \in {"ENODATA", "EIO"}

(* What the callback's caller frees is null or was allocated by the call,  *)
(* but for a list that has failed before it set names: fs_list_attrs does  *)
(* not clear the field, and what the structure held is passed to the       *)
(* callback and to free (attr.c:99-107).                                   *)
FreesOnlyOwn ==
  \A r \in Req : req[r].at = "done" /\ req[r].base = "before" =>
    req[r].op = "list" /\ req[r].err # "OK" /\ req[r].data = NoData
=============================================================================
