----------------------------- MODULE AttrProofs -----------------------------
(***************************************************************************)
(* Proofs about Attr, for any requests, names and values and any number of *)
(* calls, failures and pending reads and writes.                           *)
(*                                                                         *)
(* What a get delivers is true because what it reads is what the calls so  *)
(* far have left.  On Windows that takes three facts: handles that could   *)
(* change a stream exclude each other (Apart), a stream that is about to   *)
(* go has the handle of a remove (HeldByRemove), and the size a get has    *)
(* asked for stays that of the stream while it is open (Good), unless a    *)
(* write was pending when it returned and lands only then (Behind).        *)
(*                                                                         *)
(* What an error says and a list delivers is true because of what the call *)
(* has seen before: what is there now (SeesNow), what was there when it    *)
(* asked for the size (GoodListSize, OpenIsThere), and, for an EIO nobody  *)
(* but another call explains, that there are two calls (Counted).  These   *)
(* causes are a second invariant, proved with the help of the first.       *)
(***************************************************************************)
EXTENDS Attr, FiniteSetTheorems, TLAPS

-----------------------------------------------------------------------------
(* The inductive invariant.                                                *)

At == {"free", "queued", "sized", "opened", "done"}
Buffer == [got : Value \cup {Absent} \cup SUBSET Name, size : Nat, junk : Nat]
Request ==
  [op : Op, name : Name, value : Value, at : At, data : Buffer,
   base : {"null", "own", "before"}, old : Value \cup {Absent}, err : Err]

Types ==
  /\ platform \in Platform
  /\ attrs \in [Name -> Value \cup {Absent}]
  /\ doomed \subseteq Name
  /\ req \in [Req -> Request]

(* Streams are open only on Windows, and what is open there excludes.      *)
OnlyOnWindows ==
  /\ doomed # {} => platform = "win"
  /\ \A r \in Req : req[r].at = "opened" => platform = "win" /\ req[r].op # "list"

Apart ==
  \A r, q \in Req :
    r # q /\ req[r].at = "opened" /\ req[q].at = "opened" /\ req[r].name = req[q].name =>
      req[r].op = req[q].op /\ req[r].op # "set"

HeldByRemove ==
  \A n \in doomed : \E r \in Req : req[r].at = "opened" /\ req[r].op = "remove" /\ req[r].name = n

(* What is still to land was pending once, on Windows.                     *)
Behind ==
  /\ late \subseteq [name : Name, size : Nat, nr : Nat]
  /\ lags \in 0 .. MaxLags
  /\ late # {} => Lagged

(* What a request has at each stage of its call.                           *)
GoodOpen(r) ==
  req[r].at = "opened" /\ req[r].op = "get" =>
    /\ attrs[req[r].name] \in Value /\ req[r].data.got = Absent
    /\ req[r].base = "own" =>
         /\ \E v \in seen[r] \cap Value : req[r].data.size = Size[v]
         /\ ~Lagged => req[r].data.size = Size[attrs[req[r].name]]

GoodSize(r) ==
  req[r].at = "sized" /\ req[r].op = "get" =>
    \E v \in seen[r] \cap Value : req[r].data.size = Size[v]

GoodValue(r) ==
  req[r].at = "done" /\ req[r].op = "get" /\ req[r].err = "OK" =>
    LET d == req[r].data
    IN /\ \/ d.got \in seen[r] \cap Value /\ (d.size >= Size[d.got] \/ Lagged)
          \/ d.got = Absent /\ Lagged
       /\ \E v \in seen[r] \cap Value : d.size = Size[v]
       /\ platform = "win" /\ ~Lagged => d.size = Size[d.got]

GoodBase(r) ==
  /\ req[r].at = "queued" =>
       req[r].data = NoData /\ req[r].base = IF req[r].op = "list" THEN "before" ELSE "null"
  /\ req[r].base = "before" =>
       /\ req[r].op = "list" /\ req[r].at \in {"queued", "done"} /\ req[r].data = NoData
       /\ req[r].at = "done" => req[r].err # "OK"

Good(r) == GoodOpen(r) /\ GoodSize(r) /\ GoodValue(r) /\ GoodBase(r)

IInv ==
  /\ Types /\ OnlyOnWindows /\ Apart /\ HeldByRemove /\ Behind
  /\ \A r \in Req : Good(r)

-----------------------------------------------------------------------------
(* Small facts.                                                            *)

LEMMA SizeIsNat == \A v \in Value \cup Name : Size[v] \in Nat
BY AttrAssumption

LEMMA EmptyHasNone == \A v \in Value : Size[v] = 0 <=> v = Empty
BY AttrAssumption

(* A list of names has as many bytes as all names have, and none only when *)
(* it has no name.                                                         *)
LEMMA SizeOfNames ==
  \A names \in SUBSET Name : SizeOf(names) \in Nat /\ (SizeOf(names) = 0 <=> names = {})
<1> SUFFICES ASSUME NEW names \in SUBSET Name
             PROVE  SizeOf(names) \in Nat /\ (SizeOf(names) = 0 <=> names = {})
  OBVIOUS
<1> DEFINE All == {{n} \X (1 .. Size[n]) : n \in Name}
<1>1. \A n \in Name : Size[n] \in Nat /\ Size[n] > 0
  BY SizeIsNat, AttrAssumption
<1>2. IsFiniteSet(All)
  <2>1. IsFiniteSet(Name)
    BY AttrAssumption
  <2> DEFINE f == [n \in Name |-> {n} \X (1 .. Size[n])]
  <2>2. f \in Surjection(Name, All)
    BY DEF Surjection
  <2> QED
    BY <2>1, <2>2, FS_Surjection
<1>3. \A T \in All : IsFiniteSet(T)
  <2> SUFFICES ASSUME NEW n \in Name PROVE IsFiniteSet({n} \X (1 .. Size[n]))
    OBVIOUS
  <2>1. 1 \in Int /\ Size[n] \in Int
    BY <1>1
  <2>2. IsFiniteSet(1 .. Size[n])
    BY <2>1, FS_Interval
  <2>3. IsFiniteSet({n})
    BY FS_Singleton
  <2> QED
    BY <2>2, <2>3, FS_Product
<1>4. IsFiniteSet(UNION All)
  <2> HIDE DEF All
  <2> QED
    BY <1>2, <1>3, FS_UNION
<1>5. NameBytes(names) \in SUBSET UNION All
  BY DEF NameBytes
<1> HIDE DEF All
<1>6. IsFiniteSet(NameBytes(names))
  BY <1>4, <1>5, FS_Subset
<1>7. ASSUME NEW n \in names
      PROVE  <<n, 1>> \in NameBytes(names)
  BY <1>1, <1>7 DEF NameBytes
<1>8. names = {} => NameBytes(names) = {}
  BY DEF NameBytes
<1>9. NameBytes(names) = {} <=> names = {}
  BY <1>7, <1>8
<1> QED
  BY <1>6, <1>9, FS_EmptySet, FS_CardinalityType DEF SizeOf

LEMMA FreeIsRequest == Name # {} => Free \in Request /\ Free.at = "free"
<1> SUFFICES ASSUME Name # {} PROVE Free \in Request
  BY DEF Free
<1>1. (CHOOSE n \in Name : TRUE) \in Name
  OBVIOUS
<1>2. NoData \in Buffer
  BY DEF NoData, Buffer
<1> QED
  BY <1>1, <1>2, AttrAssumption DEF Free, Request, Op, At, Err

(* Who sees a step, sees what it leaves; nothing seen is forgotten.        *)
LEMMA Seeing ==
  ASSUME Observe, NEW r \in Req, req'[r].at # "free"
  PROVE  /\ seen[r] \subseteq seen'[r]
         /\ req[r].at = "done" => seen'[r] = seen[r]
         /\ req[r].at # "done" => Observed(r)' \in seen'[r]
BY DEF Observe

(* A step either leaves what is late alone, or adds to what has been late. *)
LagsGrow ==
  \/ late' = late /\ lags' = lags
  \/ Behind' /\ (Lagged => Lagged')

LEMMA StaysBehind ==
  ASSUME IInv, platform' = platform, LagsGrow
  PROVE  Behind' /\ (Lagged => Lagged')
BY DEF IInv, Behind, Lagged, LagsGrow

(* A request a step leaves alone stays good unless the step changes what   *)
(* it has open, which only a write can do that was late.                   *)
LEMMA StaysGood ==
  ASSUME Observe, platform' = platform, Lagged => Lagged',
         NEW q \in Req, Good(q), req'[q] = req[q],
         req[q].at = "opened" /\ req[q].op = "get" =>
           \/ attrs'[req[q].name] = attrs[req[q].name]
           \/ Lagged' /\ attrs'[req[q].name] \in Value
  PROVE  Good(q)'
<1>1. CASE req[q].at = "free"
  BY <1>1 DEF Good, GoodOpen, GoodSize, GoodValue, GoodBase
<1>2. CASE req[q].at # "free"
  <2>1. seen[q] \subseteq seen'[q]
    BY <1>2, Seeing
  <2>2. GoodOpen(q)'
    <3> SUFFICES ASSUME req[q].at = "opened", req[q].op = "get"
                 PROVE  GoodOpen(q)'
      BY DEF GoodOpen
    <3>1. attrs'[req[q].name] \in Value /\ req[q].data.got = Absent
      BY DEF Good, GoodOpen
    <3>2. ASSUME req[q].base = "own"
          PROVE  /\ \E v \in seen'[q] \cap Value : req[q].data.size = Size[v]
                 /\ ~Lagged' => req[q].data.size = Size[attrs'[req[q].name]]
      <4>1. PICK v \in seen[q] \cap Value : req[q].data.size = Size[v]
        BY <3>2 DEF Good, GoodOpen
      <4>2. v \in seen'[q]
        BY <2>1, <4>1
      <4>3. ~Lagged' => req[q].data.size = Size[attrs'[req[q].name]]
        BY <3>2 DEF Good, GoodOpen
      <4> QED
        BY <4>1, <4>2, <4>3
    <3> QED
      BY <3>1, <3>2 DEF GoodOpen
  <2>3. GoodSize(q)'
    BY <2>1 DEF Good, GoodSize
  <2>4. GoodValue(q)'
    BY <2>1 DEF Good, GoodValue
  <2>5. GoodBase(q)'
    BY DEF Good, GoodBase
  <2> QED
    BY <2>2, <2>3, <2>4, <2>5 DEF Good
<1> QED
  BY <1>1, <1>2

LEMMA OthersGood ==
  ASSUME IInv, Observe, platform' = platform, LagsGrow, NEW r \in Req,
         \A q \in Req \ {r} : req'[q] = req[q],
         \A q \in Req \ {r} : req[q].at = "opened" /\ req[q].op = "get" =>
           attrs'[req[q].name] = attrs[req[q].name]
  PROVE  \A q \in Req \ {r} : Good(q)'
<1>1. Lagged => Lagged'
  BY StaysBehind
<1> QED
  BY <1>1, StaysGood DEF IInv

(* What each way of going on makes of a request.                           *)
LEMMA GoesTo ==
  ASSUME Types, NEW r \in Req, NEW at \in At, Goes(r, at)
  PROVE  /\ req' \in [Req -> Request]
         /\ req'[r].at = at /\ req'[r].op = req[r].op /\ req'[r].name = req[r].name
         /\ req'[r].data = req[r].data /\ req'[r].base = req[r].base
         /\ \A q \in Req \ {r} : req'[q] = req[q]
BY DEF Types, Request, Goes

LEMMA EndsWith ==
  ASSUME Types, NEW r \in Req, NEW err \in Err, Ends(r, err)
  PROVE  /\ req' \in [Req -> Request]
         /\ req'[r].at = "done" /\ req'[r].op = req[r].op /\ req'[r].name = req[r].name
         /\ req'[r].data = req[r].data /\ req'[r].base = req[r].base /\ req'[r].err = err
         /\ \A q \in Req \ {r} : req'[q] = req[q]
BY DEF Types, Request, Ends, At

LEMMA DeliversIt ==
  ASSUME Types, NEW r \in Req, NEW data \in Buffer, Delivers(r, data)
  PROVE  /\ req' \in [Req -> Request]
         /\ req'[r].at = "done" /\ req'[r].op = req[r].op /\ req'[r].name = req[r].name
         /\ req'[r].data = data /\ req'[r].base = req[r].base /\ req'[r].err = req[r].err
         /\ \A q \in Req \ {r} : req'[q] = req[q]
BY DEF Types, Request, Delivers, At

LEMMA AllocatesIt ==
  ASSUME Types, NEW r \in Req, NEW size \in Nat, Allocates(r, size)
  PROVE  /\ req' \in [Req -> Request]
         /\ req'[r].at = "sized" /\ req'[r].op = req[r].op /\ req'[r].name = req[r].name
         /\ req'[r].data.size = size /\ req'[r].base = "own" /\ req'[r].err = req[r].err
         /\ \A q \in Req \ {r} : req'[q] = req[q]
<1>1. req[r] \in Request /\ "sized" \in At
  BY DEF Types, At
<1>2. [req[r].data EXCEPT !.size = size] \in Buffer
  BY <1>1 DEF Request, Buffer
<1>3. req' = [req EXCEPT ![r] = [[req[r] EXCEPT !.at = "sized", !.base = "own"]
                                   EXCEPT !.data = [req[r].data EXCEPT !.size = size]]]
  BY <1>1 DEF Allocates, Types, Request, Buffer
<1> DEFINE to == [[req[r] EXCEPT !.at = "sized", !.base = "own"]
                    EXCEPT !.data = [req[r].data EXCEPT !.size = size]]
<1>4. to \in Request
  BY <1>1, <1>2 DEF Request
<1>5. /\ to.at = "sized" /\ to.op = req[r].op /\ to.name = req[r].name
      /\ to.data.size = size /\ to.base = "own" /\ to.err = req[r].err
  BY <1>1 DEF Request, Buffer
<1> HIDE DEF to
<1>6. req' = [req EXCEPT ![r] = to]
  BY <1>3 DEF to
<1> QED
  BY <1>4, <1>5, <1>6 DEF Types

(* What the attribute is after a step, r has seen.                         *)
LEMMA SeesValue ==
  ASSUME IInv, Observe, NEW r \in Req, req[r].at # "done", req'[r].at # "free",
         req'[r].op # "list",
         req'[r].name \notin doomed',
         \A q \in Req : ~(req'[q].at = "opened" /\ req'[q].op = "set" /\ req'[q].name = req'[r].name)
  PROVE  attrs'[req'[r].name] \in seen'[r]
<1>1. Observed(r)' \in seen'[r]
  BY Seeing
<1>2. Opened("set", req[r].name)' = {}
  BY DEF Opened
<1> QED
  BY <1>1, <1>2 DEF Observed, Committed

(* An error, or the end of a set or remove, leaves its request good.       *)
LEMMA EndsGood ==
  ASSUME IInv, NEW r \in Req, NEW err \in Err, Ends(r, err),
         err # "OK" \/ req[r].op \in {"set", "remove"}
  PROVE  Good(r)'
<1>1. Good(r)
  BY DEF IInv
<1>2. /\ req'[r].at = "done" /\ req'[r].op = req[r].op /\ req'[r].err = err
      /\ req'[r].data = req[r].data /\ req'[r].base = req[r].base
  BY EndsWith DEF IInv
<1>3. GoodOpen(r)' /\ GoodSize(r)' /\ GoodValue(r)'
  BY <1>2 DEF GoodOpen, GoodSize, GoodValue
<1>4. GoodBase(r)'
  BY <1>1, <1>2 DEF Good, GoodBase
<1> QED
  BY <1>3, <1>4 DEF Good

(* A step that opens nothing and deletes nothing keeps the invariant when  *)
(* it leaves its request good, and to others the value they have open.     *)
LEMMA StepKeeps ==
  ASSUME IInv, Observe, platform' = platform, doomed' = doomed, NEW r \in Req,
         attrs' \in [Name -> Value \cup {Absent}], req' \in [Req -> Request], LagsGrow,
         \A q \in Req \ {r} : req'[q] = req[q],
         req'[r].at # "opened",
         req[r].at = "opened" /\ req[r].op = "remove" => req[r].name \notin doomed,
         \A q \in Req \ {r} : req[q].at = "opened" /\ req[q].op = "get" =>
           attrs'[req[q].name] = attrs[req[q].name],
         Good(r)'
  PROVE  IInv'
<1>1. Types'
  BY DEF IInv, Types
<1>2. OnlyOnWindows'
  BY DEF IInv, OnlyOnWindows
<1>3. Apart'
  BY DEF IInv, Apart
<1>4. HeldByRemove'
  BY DEF IInv, HeldByRemove
<1>5. \A q \in Req \ {r} : Good(q)'
  BY OthersGood
<1>6. Behind'
  BY StaysBehind
<1> QED
  BY <1>1, <1>2, <1>3, <1>4, <1>5, <1>6 DEF IInv

(* One more read or write is pending.                                      *)
LEMMA LagGrows ==
  ASSUME IInv, platform = "win", platform' = platform, Lag,
         late' \subseteq [name : Name, size : Nat, nr : Nat]
           \/ late' = late
  PROVE  attrs' = attrs /\ doomed' = doomed /\ faults' = faults /\ LagsGrow /\ Lagged'
<1>1. lags \in Nat /\ lags' = lags + 1 /\ lags' \in 0 .. MaxLags
  BY AttrAssumption DEF IInv, Behind, Lag
<1>2. Lagged'
  BY <1>1 DEF Lagged
<1>3. late' \subseteq [name : Name, size : Nat, nr : Nat]
  BY DEF IInv, Behind
<1> QED
  BY <1>1, <1>2, <1>3 DEF LagsGrow, Behind, Lag

LEMMA NothingOpenOnUnix ==
  ASSUME IInv, platform \in Unix
  PROVE  doomed = {} /\ \A r \in Req : req[r].at # "opened"
BY DEF IInv, OnlyOnWindows, Unix

LEMMA FaultKeeps ==
  ASSUME IInv, Observe, platform' = platform, NEW r \in Req, Fault(r),
         req[r].at = "opened" /\ req[r].op = "remove" => req[r].name \notin doomed
  PROVE  IInv'
<1>1. Ends(r, "EIO") /\ attrs' = attrs /\ doomed' = doomed /\ LagsGrow
  BY DEF Fault, LagsGrow
<1>2. /\ req' \in [Req -> Request] /\ req'[r].at = "done"
      /\ \A q \in Req \ {r} : req'[q] = req[q]
  BY <1>1, EndsWith DEF IInv, Err
<1>3. Good(r)'
  BY <1>1, EndsGood DEF Err
<1> QED
  BY <1>1, <1>2, <1>3, StepKeeps DEF IInv, Types

(* An error of a call that has nothing open.                               *)
LEMMA EndsKeeps ==
  ASSUME IInv, Observe, platform' = platform, NEW r \in Req, NEW err \in Err,
         Ends(r, err), Reads, req[r].at # "opened", err # "OK"
  PROVE  IInv'
<1>1. /\ req' \in [Req -> Request] /\ req'[r].at = "done"
      /\ \A q \in Req \ {r} : req'[q] = req[q]
  BY EndsWith DEF IInv
<1>2. Good(r)'
  BY EndsGood
<1> QED
  BY <1>1, <1>2, StepKeeps DEF IInv, Types, Reads, LagsGrow

-----------------------------------------------------------------------------
(* Each action.                                                            *)

LEMMA BeginKeeps ==
  ASSUME IInv, NEW r \in Req, NEW op \in Op, NEW n \in Name, NEW v \in Value,
         NEW base \in {"null", "before"}, Begin(r, op, n, v, base),
         base = "before" <=> op = "list"
  PROVE  IInv'
<1> DEFINE to == [Free EXCEPT !.op = op, !.name = n, !.value = v, !.at = "queued", !.base = base]
<1>1. Free \in Request
  BY FreeIsRequest, AttrAssumption
<1>2. /\ to \in Request /\ to.at = "queued" /\ to.op = op /\ to.base = base
      /\ to.data = NoData
  BY <1>1 DEF Free, Request, At
<1>3. req' = [req EXCEPT ![r] = to] /\ req[r].at = "free"
  BY DEF Begin
<1> HIDE DEF to
<1>4. req' \in [Req -> Request] /\ req'[r] = to /\ \A q \in Req \ {r} : req'[q] = req[q]
  BY <1>2, <1>3 DEF IInv, Types
<1>5. Good(r)'
  BY <1>2, <1>4 DEF Good, GoodOpen, GoodSize, GoodValue, GoodBase
<1> QED
  BY <1>2, <1>3, <1>4, <1>5, StepKeeps DEF IInv, Types, Begin, LagsGrow

LEMMA GetSizeKeeps ==
  ASSUME IInv, NEW r \in Req, GetSize(r)
  PROVE  IInv'
<1>1. /\ platform \in Unix /\ platform' = platform /\ Observe
      /\ req[r].at = "queued" /\ req[r].op = "get"
  BY DEF GetSize, Turn
<1>2. doomed = {} /\ \A q \in Req : req[q].at # "opened"
  BY <1>1, NothingOpenOnUnix
<1>3. CASE Ends(r, NoAttr) /\ Reads
  BY <1>1, <1>3, EndsKeeps DEF NoAttr, Err
<1>4. CASE Has(r) # Absent /\ Allocates(r, Size[Has(r)]) /\ Reads
  <2>1. Has(r) \in Value /\ Size[Has(r)] \in Nat
    BY <1>4, SizeIsNat DEF Has, IInv, Types, Request
  <2>2. /\ req' \in [Req -> Request]
        /\ req'[r].at = "sized" /\ req'[r].op = "get" /\ req'[r].name = req[r].name
        /\ req'[r].data.size = Size[Has(r)] /\ req'[r].base = "own"
        /\ \A q \in Req \ {r} : req'[q] = req[q]
    BY <1>1, <1>4, <2>1, AllocatesIt DEF IInv
  <2>3. attrs' = attrs /\ doomed' = doomed /\ LagsGrow
    BY <1>4 DEF Reads, LagsGrow
  <2>4. \A q \in Req : req'[q].at # "opened"
    BY <1>2, <2>2
  <2>5. Has(r) \in seen'[r] \cap Value
    BY <1>1, <1>2, <2>1, <2>2, <2>3, <2>4, SeesValue DEF Has
  <2>6. Good(r)'
    BY <2>2, <2>5 DEF Good, GoodOpen, GoodSize, GoodValue, GoodBase
  <2> QED
    BY <1>1, <1>2, <2>2, <2>3, <2>6, StepKeeps DEF IInv, Types
<1>5. CASE Fault(r)
  BY <1>1, <1>5, FaultKeeps
<1> QED
  BY <1>3, <1>4, <1>5 DEF GetSize

LEMMA GetValueKeeps ==
  ASSUME IInv, NEW r \in Req, GetValue(r)
  PROVE  IInv'
<1> DEFINE size == req[r].data.size
<1> DEFINE data == [got |-> IF size = 0 THEN Empty ELSE Has(r), size |-> size, junk |-> 0]
<1>1. /\ platform \in Unix /\ platform' = platform /\ Observe
      /\ req[r].at = "sized" /\ req[r].op = "get"
  BY DEF GetValue, Turn
<1>2. doomed = {} /\ \A q \in Req : req[q].at # "opened"
  BY <1>1, NothingOpenOnUnix
<1>3. CASE Has(r) = Absent /\ Ends(r, IF platform = "mac" THEN "ENOATTR" ELSE "ENODATA") /\ Reads
  BY <1>1, <1>3, EndsKeeps DEF Err
<1>4. CASE Ends(r, "ERANGE") /\ Reads
  BY <1>1, <1>4, EndsKeeps DEF Err
<1>5. CASE Has(r) # Absent /\ ~TooSmall(size, Size[Has(r)]) /\ Delivers(r, data) /\ Reads
  <2>1. Has(r) \in Value
    BY <1>5 DEF Has, IInv, Types, Request
  <2>2. PICK v \in seen[r] \cap Value : size = Size[v]
    BY <1>1 DEF IInv, Good, GoodSize
  <2>3. size \in Nat /\ Size[Has(r)] \in Nat
    BY <2>1, <2>2, SizeIsNat
  <2>4. data \in Buffer
    BY <2>1, <2>3, AttrAssumption DEF Buffer
  <2> HIDE DEF size
  <2>5. data.size = size /\ data.got = IF size = 0 THEN Empty ELSE Has(r)
    OBVIOUS
  <2> HIDE DEF data
  <2>6. /\ req' \in [Req -> Request]
        /\ req'[r].at = "done" /\ req'[r].op = "get" /\ req'[r].name = req[r].name
        /\ req'[r].data = data /\ req'[r].base = req[r].base
        /\ \A q \in Req \ {r} : req'[q] = req[q]
    BY <1>1, <1>5, <2>4, DeliversIt DEF IInv
  <2>7. attrs' = attrs /\ doomed' = doomed /\ LagsGrow
    BY <1>5 DEF Reads, LagsGrow
  <2>8. Has(r) \in seen'[r]
    BY <1>1, <1>2, <2>6, <2>7, SeesValue DEF Has
  <2>9. v \in seen'[r]
    BY <1>1, <2>2, <2>6, Seeing
  <2>10. data.got \in seen'[r] \cap Value /\ data.size >= Size[data.got]
    <3>1. CASE size = 0
      <4>1. v = Empty
        BY <2>2, <3>1, EmptyHasNone
      <4>2. data.got = v /\ data.size = 0 /\ Size[v] = 0
        BY <2>2, <2>5, <3>1, <4>1
      <4> QED
        BY <2>2, <2>9, <4>2
    <3>2. CASE size # 0
      BY <1>5, <2>1, <2>3, <2>5, <2>8, <3>2 DEF TooSmall
    <3> QED
      BY <3>1, <3>2
  <2>11. Good(r)'
    <3>1. GoodValue(r)'
      BY <1>1, <2>2, <2>5, <2>6, <2>9, <2>10 DEF GoodValue, Unix
    <3>2. req[r].base # "before"
      BY <1>1 DEF IInv, Good, GoodBase
    <3> QED
      BY <2>6, <3>1, <3>2 DEF Good, GoodOpen, GoodSize, GoodBase
  <2> QED
    BY <1>1, <1>2, <2>6, <2>7, <2>11, StepKeeps DEF IInv, Types
<1>6. CASE Fault(r)
  BY <1>1, <1>6, FaultKeeps
<1> QED
  BY <1>3, <1>4, <1>5, <1>6 DEF GetValue

LEMMA SetAttrKeeps ==
  ASSUME IInv, NEW r \in Req, SetAttr(r)
  PROVE  IInv'
<1>1. /\ platform \in Unix /\ platform' = platform /\ Observe
      /\ req[r].at = "queued" /\ req[r].op = "set"
  BY DEF SetAttr, Turn
<1>2. \A q \in Req : req[q].at # "opened"
  BY <1>1, NothingOpenOnUnix
<1>3. CASE Ends(r, "OK") /\ Sets(req[r].name, req[r].value)
  <2>1. /\ req' \in [Req -> Request] /\ req'[r].at = "done"
        /\ \A q \in Req \ {r} : req'[q] = req[q]
    BY <1>3, EndsWith DEF IInv, Err
  <2>2. doomed' = doomed /\ attrs' \in [Name -> Value \cup {Absent}] /\ LagsGrow
    BY <1>3 DEF Sets, IInv, Types, Request, LagsGrow
  <2>3. Good(r)'
    BY <1>1, <1>3, EndsGood DEF Err
  <2> QED
    BY <1>1, <1>2, <2>1, <2>2, <2>3, StepKeeps
<1>4. CASE Fault(r)
  BY <1>1, <1>4, FaultKeeps
<1> QED
  BY <1>3, <1>4 DEF SetAttr

LEMMA RemoveAttrKeeps ==
  ASSUME IInv, NEW r \in Req, RemoveAttr(r)
  PROVE  IInv'
<1>1. /\ platform \in Unix /\ platform' = platform /\ Observe
      /\ req[r].at = "queued" /\ req[r].op = "remove"
  BY DEF RemoveAttr, Turn
<1>2. \A q \in Req : req[q].at # "opened"
  BY <1>1, NothingOpenOnUnix
<1>3. CASE Ends(r, NoAttr) /\ Reads
  BY <1>1, <1>3, EndsKeeps DEF NoAttr, Err
<1>4. CASE Ends(r, "OK") /\ Sets(req[r].name, Absent)
  <2>1. /\ req' \in [Req -> Request] /\ req'[r].at = "done"
        /\ \A q \in Req \ {r} : req'[q] = req[q]
    BY <1>4, EndsWith DEF IInv, Err
  <2>2. doomed' = doomed /\ attrs' \in [Name -> Value \cup {Absent}] /\ LagsGrow
    BY <1>4 DEF Sets, IInv, Types, Request, LagsGrow
  <2>3. Good(r)'
    BY <1>1, <1>4, EndsGood DEF Err
  <2> QED
    BY <1>1, <1>2, <2>1, <2>2, <2>3, StepKeeps
<1>5. CASE Fault(r)
  BY <1>1, <1>5, FaultKeeps
<1> QED
  BY <1>3, <1>4, <1>5 DEF RemoveAttr

LEMMA ListSizeKeeps ==
  ASSUME IInv, NEW r \in Req, ListSize(r)
  PROVE  IInv'
<1>1. /\ platform' = platform /\ Observe
      /\ req[r].at = "queued" /\ req[r].op = "list"
  BY DEF ListSize, Turn
<1>2. CASE Allocates(r, SizeOf(Present)) /\ Reads
  <2>1. SizeOf(Present) \in Nat
    BY SizeOfNames DEF Present
  <2>2. /\ req' \in [Req -> Request]
        /\ req'[r].at = "sized" /\ req'[r].op = "list" /\ req'[r].base = "own"
        /\ \A q \in Req \ {r} : req'[q] = req[q]
    BY <1>1, <1>2, <2>1, AllocatesIt DEF IInv
  <2>3. Good(r)'
    BY <2>2 DEF Good, GoodOpen, GoodSize, GoodValue, GoodBase
  <2> QED
    BY <1>1, <1>2, <2>2, <2>3, StepKeeps DEF IInv, Types, Reads, LagsGrow
<1>3. CASE Fault(r)
  BY <1>1, <1>3, FaultKeeps
<1> QED
  BY <1>2, <1>3 DEF ListSize

LEMMA ListNamesKeeps ==
  ASSUME IInv, NEW r \in Req, ListNames(r)
  PROVE  IInv'
<1> DEFINE size == req[r].data.size
           names == IF size = 0 THEN {} ELSE Present
<1>1. /\ platform' = platform /\ Observe
      /\ req[r].at = "sized" /\ req[r].op = "list"
  BY DEF ListNames, Turn
<1>2. CASE Ends(r, "ERANGE") /\ Reads
  BY <1>1, <1>2, EndsKeeps DEF Err
<1>3. CASE (\E data \in Entries(size, names) : Delivers(r, data)) /\ Reads
  <2>1. PICK data \in Entries(size, names) : Delivers(r, data)
    BY <1>3
  <2>2. size \in Nat /\ names \in SUBSET Name
    BY DEF IInv, Types, Request, Buffer, Present
  <2> HIDE DEF size, names
  <2>3. data \in Buffer
    <3>1. PICK k \in Nat : data = [got |-> names, size |-> size, junk |-> k]
      BY <2>1 DEF Entries
    <3> QED
      BY <2>2, <3>1 DEF Buffer
  <2>4. /\ req' \in [Req -> Request] /\ req'[r].at = "done"
        /\ req'[r].op = "list" /\ req'[r].base = req[r].base
        /\ \A q \in Req \ {r} : req'[q] = req[q]
    BY <1>1, <2>1, <2>3, DeliversIt DEF IInv
  <2>5. Good(r)'
    <3>1. req[r].base # "before"
      BY <1>1 DEF IInv, Good, GoodBase
    <3> QED
      BY <2>4, <3>1 DEF Good, GoodOpen, GoodSize, GoodValue, GoodBase
  <2> QED
    BY <1>1, <1>3, <2>4, <2>5, StepKeeps DEF IInv, Types, Reads, LagsGrow
<1>4. CASE Fault(r)
  BY <1>1, <1>4, FaultKeeps
<1> QED
  BY <1>2, <1>3, <1>4 DEF ListNames

(* What is open is alone, or open for the same as all the others.          *)
LEMMA OpenKeepsApart ==
  ASSUME IInv, NEW r \in Req, req[r].at = "queued", Open(r),
         req[r].op \in {"get", "set", "remove"},
         req'[r].op = req[r].op, req'[r].name = req[r].name,
         \A q \in Req \ {r} : req'[q] = req[q]
  PROVE  Apart'
<1> SUFFICES ASSUME NEW q \in Req \ {r}, req[q].at = "opened", req[q].name = req[r].name
             PROVE  req[q].op = req[r].op /\ req[r].op # "set"
  BY DEF Apart, IInv
<1>1. req[q].op \in {"get", "set", "remove"}
  BY DEF IInv, Types, Request, OnlyOnWindows, Op
<1>2. q \in Opened(req[q].op, req[r].name)
  BY DEF Opened
<1> QED
  BY <1>1, <1>2 DEF Open, Shared

LEMMA WinOpenKeeps ==
  ASSUME IInv, NEW r \in Req, NEW op \in {"get", "remove"}, WinOpen(r, op)
  PROVE  IInv'
<1>1. /\ platform = "win" /\ platform' = platform /\ Observe
      /\ req[r].at = "queued" /\ req[r].op = op
  BY DEF WinOpen, Turn, Win
<1>2. CASE Ends(r, "EIO") /\ Reads
  BY <1>1, <1>2, EndsKeeps DEF Err
<1>3. CASE Ends(r, NoAttr) /\ Reads
  BY <1>1, <1>3, EndsKeeps DEF NoAttr, Err
<1>4. CASE Open(r) /\ Has(r) # Absent /\ Goes(r, "opened") /\ Reads
  <2>1. /\ req' \in [Req -> Request]
        /\ req'[r].at = "opened" /\ req'[r].op = op /\ req'[r].name = req[r].name
        /\ req'[r].data = req[r].data /\ req'[r].base = req[r].base
        /\ \A q \in Req \ {r} : req'[q] = req[q]
    BY <1>1, <1>4, GoesTo DEF At, IInv
  <2>2. attrs' = attrs /\ doomed' = doomed /\ LagsGrow
    BY <1>4 DEF Reads, LagsGrow
  <2>3. Types'
    BY <1>1, <2>1, <2>2 DEF IInv, Types
  <2>4. OnlyOnWindows'
    BY <1>1, <2>1, <2>2 DEF IInv, OnlyOnWindows
  <2>5. Apart'
    BY <1>1, <1>4, <2>1, OpenKeepsApart
  <2>6. HeldByRemove'
    BY <1>1, <2>1, <2>2 DEF IInv, HeldByRemove
  <2>7. \A q \in Req \ {r} : Good(q)'
    BY <1>1, <2>1, <2>2, OthersGood
  <2>8. Good(r)'
    <3>1. req[r].base = "null" /\ attrs[req[r].name] \in Value
      BY <1>1, <1>4 DEF IInv, Good, GoodBase, Has, Types, Request
    <3>2. req[r].data.got = Absent
      BY <1>1 DEF IInv, Good, GoodBase, NoData
    <3> QED
      BY <2>1, <2>2, <3>1, <3>2 DEF Good, GoodOpen, GoodSize, GoodValue, GoodBase
  <2>9. Behind'
    BY <1>1, <2>2, StaysBehind
  <2> QED
    BY <2>3, <2>4, <2>5, <2>6, <2>7, <2>8, <2>9 DEF IInv
<1>5. CASE Fault(r)
  BY <1>1, <1>5, FaultKeeps
<1> QED
  BY <1>2, <1>3, <1>4, <1>5 DEF WinOpen

(* What a get has open, no other call is about to change.                  *)
LEMMA NotAboutToChange ==
  ASSUME IInv, NEW r \in Req, req[r].at = "opened", req[r].op = "get",
         req'[r].name = req[r].name, req'[r].op = "get",
         \A q \in Req \ {r} : req'[q] = req[q]
  PROVE  /\ req[r].name \notin doomed
         /\ \A q \in Req :
              ~(req'[q].at = "opened" /\ req'[q].op = "set" /\ req'[q].name = req'[r].name)
BY DEF IInv, Apart, HeldByRemove

LEMMA WinGetQueryKeeps ==
  ASSUME IInv, NEW r \in Req, WinGetQuery(r)
  PROVE  IInv'
<1> DEFINE to == [[req[r] EXCEPT !.base = "own"]
                    EXCEPT !.data = [req[r].data EXCEPT !.size = Size[Has(r)]]]
<1>1. /\ platform = "win" /\ platform' = platform /\ Observe
      /\ req[r].at = "opened" /\ req[r].op = "get"
  BY DEF WinGetQuery, Turn, Win
<1>2. CASE Fault(r)
  BY <1>1, <1>2, FaultKeeps
<1>3. CASE /\ req' = [req EXCEPT ![r].base = "own", ![r].data.size = Size[Has(r)]]
           /\ Reads
  <2>1. Has(r) \in Value /\ Size[Has(r)] \in Nat
    BY <1>1, SizeIsNat DEF IInv, Good, GoodOpen, Has
  <2>2. req[r] \in Request /\ [req[r].data EXCEPT !.size = Size[Has(r)]] \in Buffer
    BY <2>1 DEF IInv, Types, Request, Buffer
  <2>3. to \in Request
    BY <2>2 DEF Request
  <2>4. /\ to.at = "opened" /\ to.op = "get" /\ to.name = req[r].name
        /\ to.data.size = Size[Has(r)] /\ to.base = "own" /\ to.data.got = req[r].data.got
    BY <1>1, <2>2 DEF Request, Buffer
  <2>5. req' = [req EXCEPT ![r] = to]
    BY <1>3, <2>2 DEF Request, Buffer, IInv, Types
  <2> HIDE DEF to
  <2>6. req'[r] = to /\ req' \in [Req -> Request] /\ \A q \in Req \ {r} : req'[q] = req[q]
    BY <2>3, <2>5 DEF IInv, Types
  <2>7. attrs' = attrs /\ doomed' = doomed /\ LagsGrow
    BY <1>3 DEF Reads, LagsGrow
  <2>8. Types'
    BY <1>1, <2>6, <2>7 DEF IInv, Types
  <2>9. OnlyOnWindows'
    BY <1>1, <2>4, <2>6, <2>7 DEF IInv, OnlyOnWindows
  <2>10. Apart'
    BY <1>1, <2>4, <2>6 DEF IInv, Apart
  <2>11. HeldByRemove'
    BY <1>1, <2>4, <2>6, <2>7 DEF IInv, HeldByRemove
  <2>12. \A q \in Req \ {r} : Good(q)'
    BY <1>1, <2>6, <2>7, OthersGood
  <2>13. Has(r) \in seen'[r]
    BY <1>1, <2>4, <2>6, <2>7, NotAboutToChange, SeesValue DEF Has
  <2>14. Good(r)'
    <3>1. req[r].data.got = Absent
      BY <1>1 DEF IInv, Good, GoodOpen
    <3> QED
      BY <2>1, <2>4, <2>6, <2>7, <2>13, <3>1
         DEF Good, GoodOpen, GoodSize, GoodValue, GoodBase, Has
  <2>15. Behind'
    BY <1>1, <2>7, StaysBehind
  <2> QED
    BY <2>8, <2>9, <2>10, <2>11, <2>12, <2>14, <2>15 DEF IInv
<1> QED
  BY <1>2, <1>3 DEF WinGetQuery

LEMMA WinGetReadKeeps ==
  ASSUME IInv, NEW r \in Req, WinGetRead(r)
  PROVE  IInv'
<1> DEFINE data == [req[r].data EXCEPT !.got = Has(r)]
<1>1. /\ platform = "win" /\ platform' = platform /\ Observe
      /\ req[r].at = "opened" /\ req[r].op = "get" /\ req[r].base = "own"
  BY DEF WinGetRead, Turn, Win
<1>2. CASE Fault(r)
  BY <1>1, <1>2, FaultKeeps
<1>3. req[r].data \in Buffer
  BY DEF IInv, Types, Request
<1>4. PICK v \in seen[r] \cap Value : req[r].data.size = Size[v]
  BY <1>1 DEF IInv, Good, GoodOpen
<1>5. CASE Delivers(r, data) /\ Reads
  <2>1. Has(r) \in Value /\ Size[Has(r)] \in Nat
        /\ (~Lagged => req[r].data.size = Size[Has(r)])
    BY <1>1, SizeIsNat DEF IInv, Good, GoodOpen, Has
  <2>2. data \in Buffer /\ data.got = Has(r) /\ data.size = req[r].data.size
    BY <1>3, <2>1 DEF Buffer
  <2> HIDE DEF data
  <2>3. /\ req' \in [Req -> Request]
        /\ req'[r].at = "done" /\ req'[r].op = "get" /\ req'[r].name = req[r].name
        /\ req'[r].data = data /\ req'[r].base = "own"
        /\ \A q \in Req \ {r} : req'[q] = req[q]
    BY <1>1, <1>5, <2>2, DeliversIt DEF IInv
  <2>4. attrs' = attrs /\ doomed' = doomed /\ late' = late /\ lags' = lags
    BY <1>5 DEF Reads
  <2>5. Has(r) \in seen'[r]
    BY <1>1, <2>3, <2>4, NotAboutToChange, SeesValue DEF Has
  <2>6. v \in seen'[r]
    BY <1>1, <1>4, <2>3, Seeing
  <2>7. GoodValue(r)'
    <3>1. Lagged' <=> Lagged
      BY <1>1, <2>4 DEF Lagged
    <3> QED
      BY <1>4, <2>1, <2>2, <2>3, <2>5, <2>6, <3>1 DEF GoodValue
  <2>8. Good(r)'
    BY <2>3, <2>7 DEF Good, GoodOpen, GoodSize, GoodBase
  <2> QED
    BY <1>1, <2>3, <2>4, <2>8, StepKeeps DEF IInv, Types, LagsGrow
<1>6. CASE Delivers(r, req[r].data) /\ Lag /\ UNCHANGED late
  <2>1. /\ req' \in [Req -> Request]
        /\ req'[r].at = "done" /\ req'[r].op = "get" /\ req'[r].name = req[r].name
        /\ req'[r].data = req[r].data /\ req'[r].base = "own"
        /\ \A q \in Req \ {r} : req'[q] = req[q]
    BY <1>1, <1>3, <1>6, DeliversIt DEF IInv
  <2>2. attrs' = attrs /\ doomed' = doomed /\ LagsGrow /\ Lagged'
    BY <1>1, <1>6, LagGrows
  <2>3. v \in seen'[r]
    BY <1>1, <1>4, <2>1, Seeing
  <2>4. req[r].data.got = Absent
    BY <1>1 DEF IInv, Good, GoodOpen
  <2>5. Good(r)'
    BY <1>4, <2>1, <2>2, <2>3, <2>4 DEF Good, GoodOpen, GoodSize, GoodValue, GoodBase
  <2> QED
    BY <1>1, <2>1, <2>2, <2>5, StepKeeps DEF IInv, Types
<1> QED
  BY <1>2, <1>5, <1>6 DEF WinGetRead

LEMMA WinSetCreateKeeps ==
  ASSUME IInv, NEW r \in Req, WinSetCreate(r)
  PROVE  IInv'
<1>1. /\ platform = "win" /\ platform' = platform /\ Observe
      /\ req[r].at = "queued" /\ req[r].op = "set"
  BY DEF WinSetCreate, Turn, Win
<1>2. CASE Ends(r, "EIO") /\ Reads
  BY <1>1, <1>2, EndsKeeps DEF Err
<1>3. CASE Fault(r)
  BY <1>1, <1>3, FaultKeeps
<1>4. CASE /\ Open(r)
           /\ req' = [req EXCEPT ![r].at = "opened", ![r].old = Has(r)]
           /\ Sets(req[r].name, Empty)
  <2>1. /\ req' \in [Req -> Request]
        /\ req'[r].at = "opened" /\ req'[r].op = "set" /\ req'[r].name = req[r].name
        /\ req'[r].base = req[r].base
        /\ \A q \in Req \ {r} : req'[q] = req[q]
    BY <1>1, <1>4 DEF IInv, Types, Request, Has, At
  <2>2. doomed' = doomed /\ attrs' = [attrs EXCEPT ![req[r].name] = Empty] /\ LagsGrow
    BY <1>4 DEF Sets, LagsGrow
  <2>3. Types'
    BY <1>1, <2>1, <2>2, AttrAssumption DEF IInv, Types
  <2>4. OnlyOnWindows'
    BY <1>1, <2>1, <2>2 DEF IInv, OnlyOnWindows
  <2>5. Apart'
    BY <1>1, <1>4, <2>1, OpenKeepsApart
  <2>6. HeldByRemove'
    BY <1>1, <2>1, <2>2 DEF IInv, HeldByRemove
  <2>7. \A q \in Req \ {r} : req[q].at = "opened" /\ req[q].op = "get" =>
          attrs'[req[q].name] = attrs[req[q].name]
    <3> SUFFICES ASSUME NEW q \in Req \ {r}, req[q].at = "opened", req[q].op = "get"
                 PROVE  attrs'[req[q].name] = attrs[req[q].name]
      OBVIOUS
    <3>1. req[q].name # req[r].name
      BY <2>1, <2>5 DEF Apart
    <3>2. req[q].name \in Name
      BY DEF IInv, Types, Request
    <3> QED
      BY <2>2, <3>1, <3>2 DEF IInv, Types
  <2>8. \A q \in Req \ {r} : Good(q)'
    BY <1>1, <2>1, <2>2, <2>7, OthersGood
  <2>9. Good(r)'
    <3>1. req[r].base = "null"
      BY <1>1 DEF IInv, Good, GoodBase
    <3> QED
      BY <2>1, <3>1 DEF Good, GoodOpen, GoodSize, GoodValue, GoodBase
  <2>10. Behind'
    BY <1>1, <2>2, StaysBehind
  <2> QED
    BY <2>3, <2>4, <2>5, <2>6, <2>8, <2>9, <2>10 DEF IInv
<1> QED
  BY <1>2, <1>3, <1>4 DEF WinSetCreate

(* Whoever has a stream open for a get is alone with it but for other gets.*)
LEMMA OthersKeepTheirs ==
  ASSUME IInv, NEW r \in Req, req[r].at = "opened", req[r].op \in {"set", "remove"},
         NEW v, attrs' = [attrs EXCEPT ![req[r].name] = v] \/ attrs' = attrs
  PROVE  \A q \in Req \ {r} : req[q].at = "opened" /\ req[q].op = "get" =>
           attrs'[req[q].name] = attrs[req[q].name]
<1> SUFFICES ASSUME NEW q \in Req \ {r}, req[q].at = "opened", req[q].op = "get"
             PROVE  attrs'[req[q].name] = attrs[req[q].name]
  OBVIOUS
<1>1. req[q].name # req[r].name
  BY DEF IInv, Apart
<1>2. req[q].name \in Name
  BY DEF IInv, Types, Request
<1> QED
  BY <1>1, <1>2 DEF IInv, Types

LEMMA WinSetWriteKeeps ==
  ASSUME IInv, NEW r \in Req, WinSetWrite(r)
  PROVE  IInv'
<1>1. /\ platform = "win" /\ platform' = platform /\ Observe
      /\ req[r].at = "opened" /\ req[r].op = "set"
  BY DEF WinSetWrite, Turn, Win
<1>2. req[r].name \in Name /\ req[r].value \in Value
  BY DEF IInv, Types, Request
<1>3. ASSUME Ends(r, "OK")
      PROVE  /\ req' \in [Req -> Request] /\ req'[r].at = "done" /\ Good(r)'
             /\ \A q \in Req \ {r} : req'[q] = req[q]
  BY <1>1, <1>3, EndsWith, EndsGood DEF IInv, Err
<1>4. ASSUME NEW v \in Over(req[r].value, Has(r)), Ends(r, "OK"), Sets(req[r].name, v)
      PROVE  IInv'
  <2>1. v \in Value
    BY <1>2, <1>4 DEF Over
  <2>2. /\ doomed' = doomed /\ attrs' = [attrs EXCEPT ![req[r].name] = v] /\ LagsGrow
    BY <1>4 DEF Sets, LagsGrow
  <2>3. attrs' \in [Name -> Value \cup {Absent}]
    BY <2>1, <2>2 DEF IInv, Types
  <2>4. \A q \in Req \ {r} : req[q].at = "opened" /\ req[q].op = "get" =>
          attrs'[req[q].name] = attrs[req[q].name]
    BY <1>1, <2>2, OthersKeepTheirs
  <2> QED
    BY <1>1, <1>3, <1>4, <2>2, <2>3, <2>4, StepKeeps
<1>5. CASE /\ Ends(r, "OK") /\ Lag
           /\ late' = late \cup {[name |-> req[r].name, size |-> Size[req[r].value], nr |-> lags]}
  <2>1. late' \subseteq [name : Name, size : Nat, nr : Nat]
    BY <1>2, <1>5, SizeIsNat, AttrAssumption DEF IInv, Behind
  <2>2. attrs' = attrs /\ doomed' = doomed /\ LagsGrow
    BY <1>1, <1>5, <2>1, LagGrows
  <2> QED
    BY <1>1, <1>3, <1>5, <2>2, StepKeeps DEF IInv, Types
<1>6. CASE Fault(r)
  BY <1>1, <1>6, FaultKeeps
<1> QED
  BY <1>4, <1>5, <1>6 DEF WinSetWrite

(* A write that lands only now, on whatever has the stream open.           *)
LEMMA LandsKeeps ==
  ASSUME IInv, NEW w \in late, Lands(w)
  PROVE  IInv'
<1>1. /\ platform' = platform /\ doomed' = doomed /\ req' = req /\ lags' = lags /\ Observe
      /\ late' \subseteq late
  BY DEF Lands
<1>2. w.name \in Name /\ Lagged
  BY DEF IInv, Behind
<1>3. Behind' /\ Lagged'
  BY <1>1, <1>2 DEF IInv, Behind, Lagged
<1>4. \/ attrs' = attrs
      \/ \E u \in Value : attrs' = [attrs EXCEPT ![w.name] = u]
  BY DEF Lands, Over
<1>5. /\ attrs' \in [Name -> Value \cup {Absent}]
      /\ \A n \in Name : attrs'[n] = attrs[n] \/ attrs'[n] \in Value
  BY <1>2, <1>4 DEF IInv, Types
<1>6. Types' /\ OnlyOnWindows' /\ Apart' /\ HeldByRemove'
  BY <1>1, <1>5 DEF IInv, Types, OnlyOnWindows, Apart, HeldByRemove
<1>7. ASSUME NEW q \in Req PROVE Good(q)'
  <2>1. req[q].name \in Name
    BY DEF IInv, Types, Request
  <2> QED
    BY <1>1, <1>3, <1>5, <2>1, StaysGood DEF IInv
<1> QED
  BY <1>3, <1>6, <1>7 DEF IInv

LEMMA WinRemoveDeleteKeeps ==
  ASSUME IInv, NEW r \in Req, WinRemoveDelete(r)
  PROVE  IInv'
<1> DEFINE n == req[r].name
           last == Opened("remove", n) = {r}
<1>1. /\ platform = "win" /\ platform' = platform /\ Observe
      /\ req[r].at = "opened" /\ req[r].op = "remove" /\ n \in Name
  BY DEF WinRemoveDelete, Turn, Win, IInv, Types, Request
<1>2. CASE /\ attrs' = IF last THEN [attrs EXCEPT ![n] = Absent] ELSE attrs
           /\ doomed' = IF last THEN doomed \ {n} ELSE doomed \cup {n}
           /\ late' = IF last THEN {w \in late : w.name # n} ELSE late
           /\ Ends(r, IF n \in doomed THEN "EIO" ELSE "OK")
           /\ UNCHANGED <<faults, lags>>
  <2>1. /\ req' \in [Req -> Request] /\ req'[r].at = "done"
        /\ \A q \in Req \ {r} : req'[q] = req[q]
    BY <1>2, EndsWith DEF IInv, Err
  <2>2. Types'
    BY <1>1, <1>2, <2>1 DEF IInv, Types
  <2>3. OnlyOnWindows'
    BY <1>1, <2>1 DEF IInv, OnlyOnWindows
  <2>4. Apart'
    BY <2>1 DEF IInv, Apart
  <2>5. HeldByRemove'
    <3> SUFFICES ASSUME NEW m \in doomed'
                 PROVE  \E q \in Req \ {r} : /\ req[q].at = "opened" /\ req[q].op = "remove"
                                             /\ req[q].name = m
      BY <2>1 DEF HeldByRemove
    <3>1. CASE m = n
      <4>1. ~last
        BY <1>2, <3>1
      <4>2. r \in Opened("remove", n)
        BY <1>1 DEF Opened
      <4>3. PICK q \in Opened("remove", n) : q # r
        BY <4>1, <4>2
      <4> QED
        BY <3>1, <4>3 DEF Opened
    <3>2. CASE m # n
      <4>1. m \in doomed
        BY <1>2, <3>2
      <4> QED
        BY <3>2, <4>1 DEF IInv, HeldByRemove
    <3> QED
      BY <3>1, <3>2
  <2>6. attrs' = [attrs EXCEPT ![n] = Absent] \/ attrs' = attrs
    BY <1>2
  <2>7. Behind' /\ LagsGrow
    BY <1>1, <1>2 DEF IInv, Behind, Lagged, LagsGrow
  <2>8. \A q \in Req \ {r} : Good(q)'
    BY <1>1, <2>1, <2>6, <2>7, OthersKeepTheirs, OthersGood
  <2>9. Good(r)'
    BY <1>1, <1>2, EndsGood DEF Err
  <2> QED
    BY <2>2, <2>3, <2>4, <2>5, <2>7, <2>8, <2>9 DEF IInv
<1>3. CASE n \notin doomed /\ Fault(r)
  BY <1>1, <1>3, FaultKeeps
<1> QED
  BY <1>2, <1>3 DEF WinRemoveDelete

LEMMA WinListKeeps ==
  ASSUME IInv, NEW r \in Req, WinList(r)
  PROVE  IInv'
<1> DEFINE data == [got |-> Present, size |-> SizeOf(Present), junk |-> 0]
<1>1. /\ platform' = platform /\ Observe
      /\ req[r].at = "queued" /\ req[r].op = "list"
  BY DEF WinList, Turn
<1>2. CASE /\ req' = [req EXCEPT ![r].at = "done", ![r].base = "own", ![r].data = data]
           /\ Reads
  <2>1. data \in Buffer
    BY SizeOfNames DEF Present, Buffer
  <2> HIDE DEF data
  <2> DEFINE to == [req[r] EXCEPT !.at = "done", !.base = "own", !.data = data]
  <2>2. to \in Request /\ to.at = "done" /\ to.op = "list" /\ to.base = "own"
    BY <1>1, <2>1 DEF IInv, Types, Request, At
  <2>3. req' = [req EXCEPT ![r] = to]
    BY <1>2 DEF IInv, Types, Request
  <2> HIDE DEF to
  <2>4. /\ req' \in [Req -> Request] /\ req'[r].at = "done"
        /\ req'[r].op = "list" /\ req'[r].base = "own"
        /\ \A q \in Req \ {r} : req'[q] = req[q]
    BY <2>2, <2>3 DEF IInv, Types
  <2>5. Good(r)'
    BY <2>4 DEF Good, GoodOpen, GoodSize, GoodValue, GoodBase
  <2> QED
    BY <1>1, <1>2, <2>4, <2>5, StepKeeps DEF IInv, Types, Reads, LagsGrow
<1>3. CASE Fault(r)
  BY <1>1, <1>3, FaultKeeps
<1> QED
  BY <1>2, <1>3 DEF WinList

LEMMA AfterWorkKeeps ==
  ASSUME IInv, NEW r \in Req, AfterWork(r)
  PROVE  IInv'
<1>1. Free \in Request /\ Free.at = "free" /\ Free.base = "null"
  BY FreeIsRequest, AttrAssumption DEF Free
<1>2. /\ platform' = platform /\ attrs' = attrs /\ doomed' = doomed /\ Observe
      /\ req[r].at = "done" /\ req' = [req EXCEPT ![r] = Free] /\ LagsGrow
  BY DEF AfterWork, LagsGrow
<1>3. req' \in [Req -> Request] /\ req'[r] = Free /\ \A q \in Req \ {r} : req'[q] = req[q]
  BY <1>1, <1>2 DEF IInv, Types
<1>4. Good(r)'
  BY <1>1, <1>3 DEF Good, GoodOpen, GoodSize, GoodValue, GoodBase
<1> QED
  BY <1>1, <1>2, <1>3, <1>4, StepKeeps DEF IInv, Types

-----------------------------------------------------------------------------
(* All steps.                                                              *)

LEMMA InitIsGood == Init => IInv
<1> SUFFICES ASSUME Init PROVE IInv
  OBVIOUS
<1>1. Free \in Request /\ Free.at = "free" /\ Free.base = "null"
  BY FreeIsRequest, AttrAssumption DEF Free
<1>2. \A r \in Req : req[r] = Free
  BY DEF Init
<1>3. Types /\ OnlyOnWindows /\ Apart /\ HeldByRemove /\ Behind
  BY <1>1, <1>2, AttrAssumption
     DEF Init, Types, OnlyOnWindows, Apart, HeldByRemove, Behind
<1>4. \A r \in Req : Good(r)
  BY <1>1, <1>2 DEF Good, GoodOpen, GoodSize, GoodValue, GoodBase
<1> QED
  BY <1>3, <1>4 DEF IInv

LEMMA NextKeeps == IInv /\ [Next]_vars => IInv'
<1> SUFFICES ASSUME IInv, [Next]_vars PROVE IInv'
  OBVIOUS
<1>1. CASE UNCHANGED vars
  BY <1>1 DEF vars, IInv, Types, OnlyOnWindows, Apart, HeldByRemove, Behind, Lagged,
              Good, GoodOpen, GoodSize, GoodValue, GoodBase
<1>2. ASSUME NEW r \in Req, NEW n \in Name, FsGetAttr(r, n)
      PROVE  IInv'
  BY <1>2, BeginKeeps, AttrAssumption DEF FsGetAttr, Op
<1>3. ASSUME NEW r \in Req, NEW n \in Name, NEW v \in Value, FsSetAttr(r, n, v)
      PROVE  IInv'
  BY <1>3, BeginKeeps DEF FsSetAttr, Op
<1>4. ASSUME NEW r \in Req, NEW n \in Name, FsRemoveAttr(r, n)
      PROVE  IInv'
  BY <1>4, BeginKeeps, AttrAssumption DEF FsRemoveAttr, Op
<1>5. ASSUME NEW r \in Req, FsListAttrs(r)
      PROVE  IInv'
  <2>1. Free.name \in Name
    BY FreeIsRequest, AttrAssumption DEF Request
  <2> QED
    BY <1>5, <2>1, BeginKeeps, AttrAssumption DEF FsListAttrs, Op
<1>6. ASSUME NEW r \in Req, WinGetOpen(r) \/ WinRemoveOpen(r)
      PROVE  IInv'
  BY <1>6, WinOpenKeeps DEF WinGetOpen, WinRemoveOpen
<1>7. ASSUME NEW r \in Req, Step(r)
      PROVE  IInv'
  BY <1>2, <1>3, <1>4, <1>5, <1>6, <1>7, GetSizeKeeps, GetValueKeeps, SetAttrKeeps,
     RemoveAttrKeeps, ListSizeKeeps, ListNamesKeeps, WinGetQueryKeeps, WinGetReadKeeps,
     WinSetCreateKeeps, WinSetWriteKeeps, WinRemoveDeleteKeeps, WinListKeeps, AfterWorkKeeps
     DEF Step
<1> QED
  BY <1>1, <1>7, LandsKeeps DEF Next

-----------------------------------------------------------------------------
(* Causes: what the calls under way have seen, and how many there are.     *)

SeenTyped ==
  \A r \in Req : seen[r] \subseteq (SUBSET Name) \cup Value \cup {Absent} /\ IsFiniteSet(seen[r])

(* A stream that is open is there.                                         *)
OpenIsThere == \A r \in Req : req[r].at = "opened" => attrs[req[r].name] \in Value

(* Two calls under way at once, now or when a stream was deleted that is   *)
(* still open, were made.                                                  *)
Counted ==
  /\ calls \in 0 .. MaxCalls /\ faults \in 0 .. MaxFaults
  /\ \A r \in Req : req[r].at # "free" => calls > 0
  /\ \A r, q \in Req : r # q /\ req[r].at # "free" /\ req[q].at # "free" => calls > 1
  /\ doomed # {} => calls > 1

(* What there is now, a call under way has seen.                           *)
SeesNow(r) == req[r].at \notin {"free", "done"} => Observed(r) \in seen[r]

NoErrorYet(r) == req[r].at # "done" => req[r].err = "OK"

GoodListSize(r) ==
  req[r].at = "sized" /\ req[r].op = "list" =>
    \E names \in seen[r] \cap SUBSET Name : req[r].data.size = SizeOf(names)

GoodList(r) ==
  req[r].at = "done" /\ req[r].op = "list" /\ req[r].err = "OK" =>
    LET d == req[r].data
    IN /\ d.got \in seen[r]
       /\ d.junk # 0 => /\ platform # "win"
                        /\ \E names \in seen[r] : SizeOf(names) > SizeOf(d.got)

GoodError(r) ==
  LET err == req[r].err
      values == seen[r] \cap Value
  IN req[r].at = "done" =>
       /\ err \in {"ENODATA", "ENOATTR"} => Absent \in seen[r]
       /\ err = "ENOATTR" => platform = "mac" /\ req[r].op = "get" /\ values # {}
       /\ err = "ERANGE" => platform # "win" /\ Cardinality(seen[r]) > 1
       /\ err = "EIO" /\ faults = 0 => platform = "win" /\ calls > 1
       /\ req[r].op \in {"get", "remove"} /\ values = {} => err \in {"ENODATA", "EIO"}

Sound(r) == SeesNow(r) /\ NoErrorYet(r) /\ GoodListSize(r) /\ GoodList(r) /\ GoodError(r)

CInv ==
  /\ SeenTyped /\ OpenIsThere /\ Counted
  /\ \A r \in Req : Sound(r)

-----------------------------------------------------------------------------
(* Small facts about these.                                                *)

LEMMA TwoElements ==
  ASSUME NEW S, IsFiniteSet(S), NEW x \in S, NEW y \in S, x # y
  PROVE  Cardinality(S) > 1
<1>1. IsFiniteSet(S \ {x}) /\ Cardinality(S \ {x}) = Cardinality(S) - 1
  BY FS_RemoveElement
<1>2. Cardinality(S \ {x}) # 0 /\ Cardinality(S \ {x}) \in Nat /\ Cardinality(S) \in Nat
  BY <1>1, FS_EmptySet, FS_CardinalityType
<1> QED
  BY <1>1, <1>2

LEMMA NoErrorAtFirst == Free.err = "OK" /\ Free.at = "free"
BY DEF Free

(* What a step lets r see, it has then seen.                               *)
LEMMA SeenStaysTyped ==
  ASSUME IInv', CInv, Observe
  PROVE  SeenTyped'
<1> SUFFICES ASSUME NEW r \in Req
             PROVE  /\ seen'[r] \subseteq (SUBSET Name) \cup Value \cup {Absent}
                    /\ IsFiniteSet(seen'[r])
  BY DEF SeenTyped
<1>1. seen[r] \subseteq (SUBSET Name) \cup Value \cup {Absent} /\ IsFiniteSet(seen[r])
  BY DEF CInv, SeenTyped
<1>2. seen'[r] = {} \/ seen'[r] = seen[r] \/ seen'[r] = seen[r] \cup {Observed(r)'}
  BY DEF Observe
<1>3. Observed(r)' \in (SUBSET Name) \cup Value \cup {Absent}
  <2>1. /\ req'[r].name \in Name /\ attrs' \in [Name -> Value \cup {Absent}]
        /\ \A q \in Req : req'[q].old \in Value \cup {Absent}
    BY DEF IInv, Types, Request
  <2>2. Present' \in SUBSET Name
    BY DEF Present
  <2>3. ASSUME NEW n \in Name PROVE Committed(n)' \in Value \cup {Absent}
    <3>1. CASE Opened("set", n)' # {}
      <4>1. PICK q \in Opened("set", n)' : Committed(n)' = req'[q].old
        BY <3>1 DEF Committed
      <4>2. q \in Req
        BY <4>1 DEF Opened
      <4> QED
        BY <2>1, <4>1, <4>2
    <3>2. CASE Opened("set", n)' = {}
      BY <2>1, <3>2 DEF Committed
    <3> QED
      BY <3>1, <3>2
  <2>4. PICK n \in Name : n = req'[r].name
    BY <2>1
  <2>5. Observed(r)' = IF req'[r].op = "list" THEN Present' ELSE Committed(n)'
    BY <2>4 DEF Observed
  <2> QED
    BY <2>2, <2>3, <2>5
<1>4. IsFiniteSet(seen[r] \cup {Observed(r)'}) /\ IsFiniteSet({})
  BY <1>1, FS_AddElement, FS_EmptySet
<1> QED
  BY <1>1, <1>2, <1>3, <1>4

LEMMA CountedStays ==
  ASSUME Counted, calls' = calls, faults' \in 0 .. MaxFaults,
         \A q \in Req : req'[q].at # "free" => req[q].at # "free",
         doomed' # {} => calls > 1
  PROVE  Counted'
BY DEF Counted

(* A call that goes on, and one that ends.                                 *)
LEMMA GoesOn ==
  ASSUME Observe, NEW r \in Req, req[r].at # "done", req'[r].at \notin {"free", "done"},
         req'[r].err = "OK", GoodListSize(r)'
  PROVE  Sound(r)'
<1>1. Observed(r)' \in seen'[r]
  BY Seeing
<1> QED
  BY <1>1 DEF Sound, SeesNow, NoErrorYet, GoodList, GoodError

LEMMA EndsSoundly ==
  ASSUME NEW r \in Req, req'[r].at = "done", GoodList(r)', GoodError(r)'
  PROVE  Sound(r)'
BY DEF Sound, SeesNow, NoErrorYet, GoodListSize

(* A request a step leaves alone stays sound.                              *)
LEMMA StaysSound ==
  ASSUME CInv, Observe, platform' = platform,
         calls' \in Nat, calls' >= calls, faults' \in Nat, faults' >= faults,
         NEW q \in Req, req'[q] = req[q]
  PROVE  Sound(q)'
<1>1. Sound(q) /\ req'[q] = req[q] /\ calls \in Nat /\ faults \in Nat
  BY DEF CInv, Counted
<1>2. CASE req[q].at = "free"
  BY <1>1, <1>2 DEF Sound, SeesNow, NoErrorYet, GoodListSize, GoodList, GoodError
<1>3. CASE req[q].at \notin {"free", "done"}
  <2>1. seen[q] \subseteq seen'[q]
    BY <1>1, <1>3, Seeing
  <2>2. GoodListSize(q)'
    BY <1>1, <2>1 DEF Sound, GoodListSize
  <2>3. req'[q].err = "OK"
    BY <1>1, <1>3 DEF Sound, NoErrorYet
  <2> QED
    BY <1>1, <1>3, <2>2, <2>3, GoesOn
<1>4. CASE req[q].at = "done"
  <2>1. seen'[q] = seen[q]
    BY <1>1, <1>4, Seeing
  <2>2. GoodList(q)'
    BY <1>1, <2>1 DEF Sound, GoodList
  <2>3. GoodError(q)'
    <3>1. GoodError(q) /\ (faults' = 0 => faults = 0) /\ (calls > 1 => calls' > 1)
      BY <1>1 DEF Sound
    <3> QED
      BY <1>1, <2>1, <3>1 DEF GoodError
  <2> QED
    BY <1>1, <1>4, <2>2, <2>3, EndsSoundly
<1> QED
  BY <1>2, <1>3, <1>4

LEMMA StepSound ==
  ASSUME CInv, IInv', Observe, platform' = platform, NEW r \in Req,
         calls' \in Nat, calls' >= calls, faults' \in Nat, faults' >= faults,
         \A q \in Req \ {r} : req'[q] = req[q],
         Counted', OpenIsThere', Sound(r)'
  PROVE  CInv'
<1>1. SeenTyped'
  BY SeenStaysTyped
<1>2. \A q \in Req \ {r} : Sound(q)'
  BY StaysSound
<1> QED
  BY <1>1, <1>2 DEF CInv

(* A step that opens nothing and changes no attribute.                     *)
LEMMA QuietStepSound ==
  ASSUME CInv, IInv', Observe, platform' = platform, calls' = calls, NEW r \in Req,
         req[r].at # "free", req'[r].at # "opened",
         attrs' = attrs, doomed' = doomed, faults' \in faults .. MaxFaults,
         \A q \in Req \ {r} : req'[q] = req[q],
         Sound(r)'
  PROVE  CInv'
<1>1. calls \in Nat /\ faults \in Nat /\ MaxFaults \in Nat /\ faults' \in 0 .. MaxFaults
  BY AttrAssumption DEF CInv, Counted
<1>2. Counted'
  BY <1>1, CountedStays DEF CInv, Counted
<1>3. OpenIsThere'
  BY DEF CInv, OpenIsThere
<1> QED
  BY <1>1, <1>2, <1>3, StepSound

LEMMA FaultsStay ==
  ASSUME CInv, faults' = faults
  PROVE  faults' \in faults .. MaxFaults
BY AttrAssumption DEF CInv, Counted

LEMMA EndsQuietly ==
  ASSUME IInv, CInv, IInv', Observe, platform' = platform, calls' = calls, Reads,
         NEW r \in Req, NEW err \in Err, Ends(r, err), err # "OK", req[r].at # "free",
         GoodError(r)'
  PROVE  CInv'
<1>1. /\ req'[r].at = "done" /\ req'[r].err = err
      /\ \A q \in Req \ {r} : req'[q] = req[q]
  BY EndsWith DEF IInv
<1>2. Sound(r)'
  BY <1>1, EndsSoundly DEF GoodList
<1> QED
  BY <1>1, <1>2, FaultsStay, QuietStepSound DEF Reads

LEMMA FaultSound ==
  ASSUME IInv, CInv, IInv', Observe, platform' = platform, calls' = calls, NEW r \in Req,
         Fault(r), req[r].at # "free"
  PROVE  CInv'
<1>1. /\ req'[r].at = "done" /\ req'[r].err = "EIO"
      /\ \A q \in Req \ {r} : req'[q] = req[q]
  BY EndsWith DEF IInv, Fault, Err
<1>2. faults' \in faults .. MaxFaults /\ faults' # 0
  BY AttrAssumption DEF CInv, Counted, Fault
<1>3. Sound(r)'
  BY <1>1, <1>2, EndsSoundly DEF GoodList, GoodError
<1> QED
  BY <1>1, <1>2, <1>3, QuietStepSound DEF Fault

LEMMA SeesNames ==
  ASSUME Observe, Reads, NEW r \in Req, req[r].at # "done", req'[r].at # "free",
         req'[r].op = "list"
  PROVE  Present \in seen'[r]
<1>1. Observed(r)' \in seen'[r]
  BY Seeing
<1>2. Present' = Present
  BY DEF Present, Reads
<1> QED
  BY <1>1, <1>2 DEF Observed

(* A value nobody is about to change, a call under way has seen.           *)
LEMMA HadValue ==
  ASSUME IInv, CInv, Observe, NEW r \in Req, req[r].at \notin {"free", "done"},
         req'[r].at # "free", req[r].op # "list", Has(r) # Absent, req[r].name \notin doomed,
         \A q \in Req : ~(req[q].at = "opened" /\ req[q].op = "set" /\ req[q].name = req[r].name)
  PROVE  Has(r) \in Value /\ Has(r) \in seen'[r]
<1>1. Has(r) \in Value
  BY DEF Has, IInv, Types, Request
<1>2. Opened("set", req[r].name) = {}
  BY DEF Opened
<1>3. Observed(r) = Has(r)
  BY <1>2 DEF Observed, Committed, Has
<1>4. Observed(r) \in seen[r]
  BY DEF CInv, Sound, SeesNow
<1>5. seen[r] \subseteq seen'[r]
  BY Seeing
<1> QED
  BY <1>1, <1>3, <1>4, <1>5

(* The ends that several actions have.                                     *)
LEMMA MissingSound ==
  ASSUME IInv, CInv, IInv', Observe, platform' = platform, calls' = calls, NEW r \in Req,
         req[r].at = "queued", req[r].op # "list", Has(r) = Absent, Ends(r, NoAttr), Reads,
         req[r].name \notin doomed,
         \A q \in Req : ~(req[q].at = "opened" /\ req[q].op = "set" /\ req[q].name = req[r].name)
  PROVE  CInv'
<1>1. /\ req'[r].at = "done" /\ req'[r].op = req[r].op /\ req'[r].name = req[r].name
      /\ req'[r].err = "ENODATA"
      /\ \A q \in Req \ {r} : req'[q] = req[q]
  BY EndsWith DEF IInv, NoAttr, Err
<1>2. \A q \in Req : ~(req'[q].at = "opened" /\ req'[q].op = "set" /\ req'[q].name = req'[r].name)
  BY <1>1
<1>3. Absent \in seen'[r]
  BY <1>1, <1>2, SeesValue DEF Has, Reads
<1>4. GoodError(r)'
  BY <1>1, <1>3 DEF GoodError
<1> QED
  BY <1>4, EndsQuietly DEF NoAttr, Err

LEMMA DeliverySound ==
  ASSUME IInv, CInv, IInv', Observe, platform' = platform, calls' = calls, NEW r \in Req,
         req[r].at \notin {"free", "done"}, req[r].op = "get",
         NEW data \in Buffer, Delivers(r, data),
         attrs' = attrs, doomed' = doomed, faults' = faults
  PROVE  CInv'
<1>1. /\ req'[r].at = "done" /\ req'[r].op = "get" /\ req'[r].err = req[r].err
      /\ \A q \in Req \ {r} : req'[q] = req[q]
  BY DeliversIt DEF IInv
<1>2. req[r].err = "OK"
  BY DEF CInv, Sound, NoErrorYet
<1>3. GoodValue(r)'
  BY DEF IInv, Good
<1>4. (seen[r] \cap Value)' # {}
  BY <1>1, <1>2, <1>3 DEF GoodValue
<1>5. Sound(r)'
  BY <1>1, <1>2, <1>4, EndsSoundly DEF GoodList, GoodError
<1> QED
  BY <1>1, <1>5, FaultsStay, QuietStepSound

LEMMA SettingSound ==
  ASSUME IInv, CInv, IInv', Observe, platform' = platform, calls' = calls, NEW r \in Req,
         req[r].at # "free", req[r].op = "set",
         Ends(r, "OK"), faults' = faults, doomed' = doomed, NEW v \in Value,
         attrs' = [attrs EXCEPT ![req[r].name] = v] \/ attrs' = attrs
  PROVE  CInv'
<1>1. /\ req'[r].at = "done" /\ req'[r].op = "set" /\ req'[r].err = "OK"
      /\ \A q \in Req \ {r} : req'[q] = req[q]
  BY EndsWith DEF IInv, Err
<1>2. calls \in Nat /\ faults \in Nat
  BY DEF CInv, Counted
<1>3. Counted'
  BY <1>1, <1>2, CountedStays DEF CInv, Counted
<1>4. OpenIsThere'
  <2> SUFFICES ASSUME NEW q \in Req, req'[q].at = "opened"
               PROVE  attrs'[req'[q].name] \in Value
    BY DEF OpenIsThere
  <2>1. q # r /\ req'[q] = req[q]
    BY <1>1
  <2>2. attrs[req[q].name] \in Value /\ req[q].name \in Name
    BY <2>1 DEF CInv, OpenIsThere, IInv, Types, Request
  <2> QED
    BY <2>1, <2>2 DEF IInv, Types
<1>5. Sound(r)'
  BY <1>1, EndsSoundly DEF GoodList, GoodError
<1> QED
  BY <1>1, <1>2, <1>3, <1>4, <1>5, StepSound

-----------------------------------------------------------------------------
(* Each action.                                                            *)

LEMMA BeginSound ==
  ASSUME IInv, CInv, IInv', NEW r \in Req, NEW op, NEW n, NEW v, NEW base,
         Begin(r, op, n, v, base)
  PROVE  CInv'
<1>1. /\ platform' = platform /\ attrs' = attrs /\ doomed' = doomed /\ Observe
      /\ calls' = calls + 1 /\ faults' = faults /\ calls < MaxCalls /\ req[r].at = "free"
  BY DEF Begin
<1>2. /\ req'[r].at = "queued" /\ req'[r].err = "OK"
      /\ \A q \in Req \ {r} : req'[q] = req[q]
  BY NoErrorAtFirst DEF Begin, Free, IInv, Types
<1>3. calls \in Nat /\ faults \in Nat /\ MaxCalls \in Nat
  BY AttrAssumption DEF CInv, Counted
<1>4. Counted'
  BY <1>1, <1>2, <1>3 DEF CInv, Counted
<1>5. OpenIsThere'
  BY <1>1, <1>2 DEF CInv, OpenIsThere
<1>6. Sound(r)'
  BY <1>1, <1>2, GoesOn DEF GoodListSize
<1> QED
  BY <1>1, <1>2, <1>3, <1>4, <1>5, <1>6, StepSound

LEMMA GetSizeSound ==
  ASSUME IInv, CInv, IInv', NEW r \in Req, GetSize(r)
  PROVE  CInv'
<1>1. /\ platform \in Unix /\ platform' = platform /\ calls' = calls /\ Observe
      /\ req[r].at = "queued" /\ req[r].op = "get"
  BY DEF GetSize, Turn
<1>2. doomed = {} /\ \A q \in Req : req[q].at # "opened"
  BY <1>1, NothingOpenOnUnix
<1>3. CASE Has(r) = Absent /\ Ends(r, NoAttr) /\ Reads
  BY <1>1, <1>2, <1>3, MissingSound
<1>4. CASE Has(r) # Absent /\ Allocates(r, Size[Has(r)]) /\ Reads
  <2>1. Has(r) \in Value /\ Size[Has(r)] \in Nat
    BY <1>4, SizeIsNat DEF Has, IInv, Types, Request
  <2>2. /\ req'[r].at = "sized" /\ req'[r].op = "get" /\ req'[r].err = req[r].err
        /\ \A q \in Req \ {r} : req'[q] = req[q]
    BY <1>1, <1>4, <2>1, AllocatesIt DEF IInv
  <2>3. Sound(r)'
    BY <1>1, <2>2, GoesOn DEF CInv, Sound, NoErrorYet, GoodListSize
  <2> QED
    BY <1>1, <1>4, <2>2, <2>3, FaultsStay, QuietStepSound DEF Reads
<1>5. CASE Fault(r)
  BY <1>1, <1>5, FaultSound
<1> QED
  BY <1>3, <1>4, <1>5 DEF GetSize

LEMMA GetValueSound ==
  ASSUME IInv, CInv, IInv', NEW r \in Req, GetValue(r)
  PROVE  CInv'
<1> DEFINE size == req[r].data.size
           data == [got |-> IF size = 0 THEN Empty ELSE Has(r), size |-> size, junk |-> 0]
<1>1. /\ platform \in Unix /\ platform' = platform /\ calls' = calls /\ Observe
      /\ req[r].at = "sized" /\ req[r].op = "get"
  BY DEF GetValue, Turn
<1>2. doomed = {} /\ \A q \in Req : req[q].at # "opened"
  BY <1>1, NothingOpenOnUnix
<1>3. PICK v \in seen[r] \cap Value : size = Size[v]
  BY <1>1 DEF IInv, Good, GoodSize
<1>4. ASSUME NEW err \in Err, Ends(r, err), Reads
      PROVE  /\ v \in seen'[r] /\ Has(r) \in seen'[r]
             /\ req'[r].err = err /\ req'[r].op = "get"
    <2>1. /\ req'[r].at = "done" /\ req'[r].op = "get" /\ req'[r].name = req[r].name
          /\ req'[r].err = err
          /\ \A q \in Req \ {r} : req'[q] = req[q]
      BY <1>1, <1>4, EndsWith DEF IInv
    <2>2. \A q \in Req : req'[q].at # "opened"
      BY <1>2, <2>1
    <2>3. v \in seen'[r]
      BY <1>1, <1>3, <2>1, Seeing
    <2>4. Has(r) \in seen'[r]
      BY <1>1, <1>2, <1>4, <2>1, <2>2, SeesValue DEF Has, Reads
    <2> QED
      BY <2>1, <2>3, <2>4
<1>5. CASE /\ Has(r) = Absent
           /\ Ends(r, IF platform = "mac" THEN "ENOATTR" ELSE "ENODATA") /\ Reads
  <2>1. PICK err \in Err : err = IF platform = "mac" THEN "ENOATTR" ELSE "ENODATA"
    BY DEF Err
  <2>2. Ends(r, err)
    BY <1>5, <2>1
  <2>3. v \in seen'[r] /\ Absent \in seen'[r] /\ req'[r].err = err /\ req'[r].op = "get"
    BY <1>4, <1>5, <2>2
  <2>4. GoodError(r)'
    BY <1>1, <1>3, <2>1, <2>3 DEF GoodError
  <2> QED
    BY <1>1, <1>5, <2>1, <2>2, <2>4, EndsQuietly
<1>6. CASE Has(r) # Absent /\ TooSmall(size, Size[Has(r)]) /\ Ends(r, "ERANGE") /\ Reads
  <2>1. v \in seen'[r] /\ Has(r) \in seen'[r] /\ req'[r].err = "ERANGE" /\ req'[r].op = "get"
    BY <1>4, <1>6 DEF Err
  <2>2. Has(r) # v
    BY <1>3, <1>6, SizeIsNat DEF TooSmall
  <2>3. Cardinality(seen'[r]) > 1
    BY <1>1, <2>1, <2>2, SeenStaysTyped, TwoElements DEF SeenTyped
  <2>4. GoodError(r)'
    BY <1>1, <1>3, <2>1, <2>3 DEF GoodError, Unix
  <2> QED
    BY <1>1, <1>6, <2>4, EndsQuietly DEF Err
<1>7. CASE Has(r) # Absent /\ ~TooSmall(size, Size[Has(r)]) /\ Delivers(r, data) /\ Reads
  <2>1. data \in Buffer
    <3>1. Has(r) \in Value
      BY <1>7 DEF Has, IInv, Types, Request
    <3> QED
      BY <1>3, <3>1, SizeIsNat, AttrAssumption DEF Buffer
  <2> HIDE DEF data, size
  <2> QED
    BY <1>1, <1>7, <2>1, DeliverySound DEF Reads
<1>8. CASE Fault(r)
  BY <1>1, <1>8, FaultSound
<1> QED
  BY <1>5, <1>6, <1>7, <1>8 DEF GetValue

LEMMA SetAttrSound ==
  ASSUME IInv, CInv, IInv', NEW r \in Req, SetAttr(r)
  PROVE  CInv'
<1>1. /\ platform \in Unix /\ platform' = platform /\ calls' = calls /\ Observe
      /\ req[r].at = "queued" /\ req[r].op = "set"
  BY DEF SetAttr, Turn
<1>2. req[r].value \in Value
  BY DEF IInv, Types, Request
<1>3. CASE Ends(r, "OK") /\ Sets(req[r].name, req[r].value)
  BY <1>1, <1>2, <1>3, SettingSound DEF Sets
<1>4. CASE Fault(r)
  BY <1>1, <1>4, FaultSound
<1> QED
  BY <1>3, <1>4 DEF SetAttr

LEMMA RemoveAttrSound ==
  ASSUME IInv, CInv, IInv', NEW r \in Req, RemoveAttr(r)
  PROVE  CInv'
<1>1. /\ platform \in Unix /\ platform' = platform /\ calls' = calls /\ Observe
      /\ req[r].at = "queued" /\ req[r].op = "remove"
  BY DEF RemoveAttr, Turn
<1>2. doomed = {} /\ \A q \in Req : req[q].at # "opened"
  BY <1>1, NothingOpenOnUnix
<1>3. CASE Has(r) = Absent /\ Ends(r, NoAttr) /\ Reads
  BY <1>1, <1>2, <1>3, MissingSound
<1>4. CASE Has(r) # Absent /\ Ends(r, "OK") /\ Sets(req[r].name, Absent)
  <2>1. /\ req'[r].at = "done" /\ req'[r].op = "remove" /\ req'[r].err = "OK"
        /\ \A q \in Req \ {r} : req'[q] = req[q]
    BY <1>1, <1>4, EndsWith DEF IInv, Err
  <2>2. Has(r) \in Value /\ Has(r) \in seen'[r]
    BY <1>1, <1>2, <1>4, <2>1, HadValue
  <2>3. Sound(r)'
    BY <2>1, <2>2, EndsSoundly DEF GoodList, GoodError
  <2>4. OpenIsThere'
    BY <1>2, <2>1 DEF OpenIsThere
  <2>5. faults' = faults /\ doomed' = doomed /\ calls \in Nat /\ faults \in Nat
    BY <1>4 DEF Sets, CInv, Counted
  <2>6. Counted'
    BY <1>1, <2>1, <2>5, CountedStays DEF CInv, Counted
  <2> QED
    BY <1>1, <2>1, <2>3, <2>4, <2>5, <2>6, StepSound
<1>5. CASE Fault(r)
  BY <1>1, <1>5, FaultSound
<1> QED
  BY <1>3, <1>4, <1>5 DEF RemoveAttr

LEMMA ListSizeSound ==
  ASSUME IInv, CInv, IInv', NEW r \in Req, ListSize(r)
  PROVE  CInv'
<1>1. /\ platform' = platform /\ calls' = calls /\ Observe
      /\ req[r].at = "queued" /\ req[r].op = "list"
  BY DEF ListSize, Turn
<1>2. CASE Allocates(r, SizeOf(Present)) /\ Reads
  <2>1. Present \in SUBSET Name /\ SizeOf(Present) \in Nat
    BY SizeOfNames DEF Present
  <2>2. /\ req'[r].at = "sized" /\ req'[r].op = "list" /\ req'[r].err = req[r].err
        /\ req'[r].data.size = SizeOf(Present)
        /\ \A q \in Req \ {r} : req'[q] = req[q]
    BY <1>1, <1>2, <2>1, AllocatesIt DEF IInv
  <2>3. Present \in seen'[r]
    BY <1>1, <1>2, <2>2, SeesNames
  <2>4. Sound(r)'
    BY <1>1, <2>1, <2>2, <2>3, GoesOn DEF CInv, Sound, NoErrorYet, GoodListSize
  <2> QED
    BY <1>1, <1>2, <2>2, <2>4, FaultsStay, QuietStepSound DEF Reads
<1>3. CASE Fault(r)
  BY <1>1, <1>3, FaultSound
<1> QED
  BY <1>2, <1>3 DEF ListSize

LEMMA ListNamesSound ==
  ASSUME IInv, CInv, IInv', NEW r \in Req, ListNames(r)
  PROVE  CInv'
<1> DEFINE size == req[r].data.size
           names == IF size = 0 THEN {} ELSE Present
<1>1. /\ platform \in Unix /\ platform' = platform /\ calls' = calls /\ Observe
      /\ req[r].at = "sized" /\ req[r].op = "list" /\ req[r].err = "OK"
  BY DEF ListNames, Turn, CInv, Sound, NoErrorYet
<1>2. PICK asked \in seen[r] \cap SUBSET Name : size = SizeOf(asked)
  BY <1>1 DEF CInv, Sound, GoodListSize
<1>3. /\ Present \in SUBSET Name /\ SizeOf(Present) \in Nat /\ size \in Nat
      /\ size = 0 => asked = {}
  BY <1>2, SizeOfNames DEF Present
<1>4. ASSUME req'[r].at = "done", req'[r].op = "list", Reads
      PROVE  asked \in seen'[r] /\ Present \in seen'[r]
  BY <1>1, <1>2, <1>4, Seeing, SeesNames
<1>5. CASE TooSmall(size, SizeOf(Present)) /\ Ends(r, "ERANGE") /\ Reads
  <2>1. req'[r].at = "done" /\ req'[r].op = "list" /\ req'[r].err = "ERANGE"
    BY <1>1, <1>5, EndsWith DEF IInv, Err
  <2>2. asked \in seen'[r] /\ Present \in seen'[r]
    BY <1>4, <1>5, <2>1
  <2>3. Present # asked
    BY <1>2, <1>3, <1>5 DEF TooSmall
  <2>4. Cardinality(seen'[r]) > 1
    BY <1>1, <2>2, <2>3, SeenStaysTyped, TwoElements DEF SeenTyped
  <2>5. GoodError(r)'
    BY <1>1, <2>1, <2>4 DEF GoodError, Unix
  <2> QED
    BY <1>1, <1>5, <2>5, EndsQuietly DEF Err
<1>6. CASE /\ ~TooSmall(size, SizeOf(Present))
           /\ \E data \in Entries(size, names) : Delivers(r, data)
           /\ Reads
  <2>1. PICK data \in Entries(size, names) : Delivers(r, data)
    BY <1>6
  <2>2. names \in SUBSET Name /\ names \in {asked, Present} /\ SizeOf(names) \in Nat
    BY <1>2, <1>3, SizeOfNames
  <2>3. SizeOf(names) <= size
    BY <1>3, <1>6, SizeOfNames DEF TooSmall
  <2> HIDE DEF size, names
  <2>4. PICK k \in Nat : /\ data = [got |-> names, size |-> size, junk |-> k]
                         /\ k # 0 => size > SizeOf(names)
    BY <1>3, <2>1, <2>2, <2>3 DEF Entries
  <2>5. data \in Buffer
    BY <1>3, <2>2, <2>4 DEF Buffer
  <2>6. /\ req'[r].at = "done" /\ req'[r].op = "list" /\ req'[r].err = "OK"
        /\ req'[r].data = data
        /\ \A q \in Req \ {r} : req'[q] = req[q]
    BY <1>1, <2>1, <2>5, DeliversIt DEF IInv
  <2>7. asked \in seen'[r] /\ Present \in seen'[r]
    BY <1>4, <1>6, <2>6
  <2>8. GoodList(r)'
    <3>1. names \in seen'[r] /\ (k # 0 => SizeOf(asked) > SizeOf(names))
      BY <1>2, <2>2, <2>4, <2>7 DEF size
    <3>2. data.got = names /\ data.junk = k
      BY <2>4
    <3>3. platform' # "win"
      BY <1>1 DEF Unix
    <3>4. PICK got : got = names
      OBVIOUS
    <3>5. data.got = got /\ got \in seen'[r] /\ (k # 0 => SizeOf(asked) > SizeOf(got))
      BY <3>1, <3>2, <3>4
    <3> QED
      BY <2>6, <2>7, <3>2, <3>3, <3>5 DEF GoodList, SizeOf, NameBytes
  <2>9. Sound(r)'
    BY <2>6, <2>8, EndsSoundly DEF GoodError
  <2> QED
    BY <1>1, <1>6, <2>6, <2>9, FaultsStay, QuietStepSound DEF Reads
<1>7. CASE Fault(r)
  BY <1>1, <1>7, FaultSound
<1> QED
  BY <1>5, <1>6, <1>7 DEF ListNames

(* Who is kept out of a stream is not alone.                               *)
LEMMA KeptOut ==
  ASSUME IInv, CInv, NEW r \in Req, req[r].at = "queued", ~Open(r)
  PROVE  calls > 1
<1>1. CASE req[r].name \in doomed
  BY <1>1 DEF CInv, Counted
<1>2. CASE ~Shared(req[r].op, req[r].name)
  <2>1. PICK other \in {"get", "set", "remove"} : Opened(other, req[r].name) # {}
    BY <1>2 DEF Shared
  <2>2. PICK q \in Req : req[q].at = "opened"
    BY <2>1 DEF Opened
  <2> QED
    BY <2>2 DEF CInv, Counted
<1> QED
  BY <1>1, <1>2 DEF Open

LEMMA KeptOutSound ==
  ASSUME IInv, CInv, IInv', Observe, platform = "win", platform' = platform, calls' = calls,
         NEW r \in Req, req[r].at = "queued", ~Open(r), Ends(r, "EIO"), Reads
  PROVE  CInv'
<1>1. req'[r].at = "done" /\ req'[r].err = "EIO"
  BY EndsWith DEF IInv, Err
<1>2. calls > 1
  BY KeptOut
<1>3. GoodError(r)'
  BY <1>1, <1>2 DEF GoodError
<1> QED
  BY <1>3, EndsQuietly DEF Err

(* A stream that may be opened is not being set.                           *)
LEMMA OpenIsUnset ==
  ASSUME NEW r \in Req, Open(r)
  PROVE  /\ req[r].name \notin doomed
         /\ \A q \in Req :
              ~(req[q].at = "opened" /\ req[q].op = "set" /\ req[q].name = req[r].name)
<1> SUFFICES ASSUME NEW q \in Req, req[q].at = "opened", req[q].op = "set",
                    req[q].name = req[r].name
             PROVE  FALSE
  BY DEF Open
<1>1. q \in Opened("set", req[r].name)
  BY DEF Opened
<1> QED
  BY <1>1 DEF Open, Shared

LEMMA WinOpenSound ==
  ASSUME IInv, CInv, IInv', NEW r \in Req, NEW op \in {"get", "remove"}, WinOpen(r, op)
  PROVE  CInv'
<1>1. /\ platform = "win" /\ platform' = platform /\ calls' = calls /\ Observe
      /\ req[r].at = "queued" /\ req[r].op = op
  BY DEF WinOpen, Turn, Win
<1>2. CASE ~Open(r) /\ Ends(r, "EIO") /\ Reads
  BY <1>1, <1>2, KeptOutSound
<1>3. CASE Open(r) /\ Has(r) = Absent /\ Ends(r, NoAttr) /\ Reads
  BY <1>1, <1>3, OpenIsUnset, MissingSound
<1>4. CASE Open(r) /\ Has(r) # Absent /\ Goes(r, "opened") /\ Reads
  <2>1. /\ req'[r].at = "opened" /\ req'[r].op = op /\ req'[r].name = req[r].name
        /\ \A q \in Req \ {r} : req'[q] = req[q]
    BY <1>1, <1>4, GoesTo DEF At, IInv
  <2>2. req'[r].err = "OK"
    BY <1>1, <1>4 DEF Goes, IInv, Types, Request, CInv, Sound, NoErrorYet
  <2>3. Has(r) \in Value
    BY <1>4 DEF Has, IInv, Types, Request
  <2>4. /\ attrs' = attrs /\ doomed' = doomed /\ faults' = faults
        /\ calls \in Nat /\ faults \in Nat
    BY <1>4 DEF Reads, CInv, Counted
  <2>5. OpenIsThere'
    BY <2>1, <2>3, <2>4 DEF OpenIsThere, CInv, Has
  <2>6. Counted'
    BY <1>1, <2>1, <2>4, CountedStays DEF CInv, Counted
  <2>7. Sound(r)'
    BY <1>1, <2>1, <2>2, GoesOn DEF GoodListSize
  <2> QED
    BY <1>1, <2>1, <2>4, <2>5, <2>6, <2>7, StepSound
<1>5. CASE Fault(r)
  BY <1>1, <1>5, FaultSound
<1> QED
  BY <1>2, <1>3, <1>4, <1>5 DEF WinOpen

LEMMA WinGetQuerySound ==
  ASSUME IInv, CInv, IInv', NEW r \in Req, WinGetQuery(r)
  PROVE  CInv'
<1>1. /\ platform' = platform /\ calls' = calls /\ Observe
      /\ req[r].at = "opened" /\ req[r].op = "get"
  BY DEF WinGetQuery, Turn
<1>2. CASE Fault(r)
  BY <1>1, <1>2, FaultSound
<1>3. CASE /\ req' = [req EXCEPT ![r].base = "own", ![r].data.size = Size[Has(r)]]
           /\ Reads
  <2>1. req[r] \in Request /\ req \in [Req -> Request]
    BY DEF IInv, Types
  <2>2. req'[r] = [[req[r] EXCEPT !.base = "own"]
                     EXCEPT !.data = [req[r].data EXCEPT !.size = Size[Has(r)]]]
    BY <1>3, <2>1 DEF Request, Buffer
  <2>3. /\ req'[r].at = "opened" /\ req'[r].op = "get" /\ req'[r].name = req[r].name
        /\ req'[r].err = req[r].err
    BY <1>1, <2>1, <2>2 DEF Request
  <2>4. \A q \in Req \ {r} : req'[q] = req[q]
    BY <1>3, <2>1
  <2>5. /\ attrs' = attrs /\ doomed' = doomed /\ faults' = faults
        /\ calls \in Nat /\ faults \in Nat
    BY <1>3 DEF Reads, CInv, Counted
  <2>6. OpenIsThere'
    BY <1>1, <2>3, <2>4, <2>5 DEF OpenIsThere, CInv
  <2>7. Counted'
    BY <1>1, <2>4, <2>5, CountedStays DEF CInv, Counted
  <2>8. Sound(r)'
    BY <1>1, <2>3, GoesOn DEF GoodListSize, CInv, Sound, NoErrorYet
  <2> QED
    BY <1>1, <2>4, <2>5, <2>6, <2>7, <2>8, StepSound
<1> QED
  BY <1>2, <1>3 DEF WinGetQuery

LEMMA WinGetReadSound ==
  ASSUME IInv, CInv, IInv', NEW r \in Req, WinGetRead(r)
  PROVE  CInv'
<1> DEFINE data == [req[r].data EXCEPT !.got = Has(r)]
<1>1. /\ platform' = platform /\ calls' = calls /\ Observe
      /\ req[r].at = "opened" /\ req[r].op = "get"
  BY DEF WinGetRead, Turn
<1>2. CASE Fault(r)
  BY <1>1, <1>2, FaultSound
<1>3. Has(r) \in Value /\ req[r].data \in Buffer
  BY <1>1 DEF CInv, OpenIsThere, Has, IInv, Types, Request
<1>4. CASE Delivers(r, data) /\ Reads
  <2>1. data \in Buffer
    BY <1>3 DEF Buffer
  <2> HIDE DEF data
  <2> QED
    BY <1>1, <1>4, <2>1, DeliverySound DEF Reads
<1>5. CASE Delivers(r, req[r].data) /\ Lag
  BY <1>1, <1>3, <1>5, DeliverySound DEF Lag
<1> QED
  BY <1>2, <1>4, <1>5 DEF WinGetRead

LEMMA WinSetCreateSound ==
  ASSUME IInv, CInv, IInv', NEW r \in Req, WinSetCreate(r)
  PROVE  CInv'
<1>1. /\ platform = "win" /\ platform' = platform /\ calls' = calls /\ Observe
      /\ req[r].at = "queued" /\ req[r].op = "set"
  BY DEF WinSetCreate, Turn, Win
<1>2. CASE ~Open(r) /\ Ends(r, "EIO") /\ Reads
  BY <1>1, <1>2, KeptOutSound
<1>3. CASE /\ req' = [req EXCEPT ![r].at = "opened", ![r].old = Has(r)]
           /\ Sets(req[r].name, Empty)
  <2>1. /\ req'[r].at = "opened" /\ req'[r].op = "set" /\ req'[r].name = req[r].name
        /\ req'[r].err = req[r].err
        /\ \A q \in Req \ {r} : req'[q] = req[q]
    BY <1>1, <1>3 DEF IInv, Types, Request
  <2>2. /\ doomed' = doomed /\ faults' = faults /\ calls \in Nat /\ faults \in Nat
        /\ attrs' = [attrs EXCEPT ![req[r].name] = Empty] /\ Empty \in Value
    BY <1>3, AttrAssumption DEF Sets, CInv, Counted
  <2>3. OpenIsThere'
    <3> SUFFICES ASSUME NEW q \in Req, req'[q].at = "opened"
                 PROVE  attrs'[req'[q].name] \in Value
      BY DEF OpenIsThere
    <3>1. req'[q].name = req[q].name /\ req[q].name \in Name /\ req[r].name \in Name
      BY <2>1 DEF IInv, Types, Request
    <3>2. CASE q = r
      BY <2>2, <3>1, <3>2 DEF IInv, Types
    <3>3. CASE q # r
      <4>1. attrs[req[q].name] \in Value
        BY <2>1, <3>3 DEF CInv, OpenIsThere
      <4> QED
        BY <2>2, <3>1, <4>1 DEF IInv, Types
    <3> QED
      BY <3>2, <3>3
  <2>4. Counted'
    BY <1>1, <2>1, <2>2, CountedStays DEF CInv, Counted
  <2>5. Sound(r)'
    BY <1>1, <2>1, GoesOn DEF GoodListSize, CInv, Sound, NoErrorYet
  <2> QED
    BY <1>1, <2>1, <2>2, <2>3, <2>4, <2>5, StepSound
<1>4. CASE Fault(r)
  BY <1>1, <1>4, FaultSound
<1> QED
  BY <1>2, <1>3, <1>4 DEF WinSetCreate

LEMMA WinSetWriteSound ==
  ASSUME IInv, CInv, IInv', NEW r \in Req, WinSetWrite(r)
  PROVE  CInv'
<1>1. /\ platform' = platform /\ calls' = calls /\ Observe
      /\ req[r].at = "opened" /\ req[r].op = "set"
  BY DEF WinSetWrite, Turn
<1>2. req[r].value \in Value
  BY DEF IInv, Types, Request
<1>3. ASSUME NEW v \in Over(req[r].value, Has(r)), Ends(r, "OK"), Sets(req[r].name, v)
      PROVE  CInv'
  <2>1. v \in Value
    BY <1>2, <1>3 DEF Over
  <2> QED
    BY <1>1, <1>3, <2>1, SettingSound DEF Sets
<1>4. CASE Ends(r, "OK") /\ Lag
  BY <1>1, <1>2, <1>4, SettingSound DEF Lag
<1>5. CASE Fault(r)
  BY <1>1, <1>5, FaultSound
<1> QED
  BY <1>3, <1>4, <1>5 DEF WinSetWrite

(* A write that lands only now ends no call, and removes nothing.          *)
LEMMA LandsSound ==
  ASSUME IInv, CInv, IInv', NEW w \in late, Lands(w)
  PROVE  CInv'
<1>1. /\ platform' = platform /\ doomed' = doomed /\ req' = req
      /\ calls' = calls /\ faults' = faults /\ Observe
  BY DEF Lands
<1>2. SeenTyped'
  BY <1>1, SeenStaysTyped
<1>3. OpenIsThere'
  <2>1. \/ attrs' = attrs
        \/ \E u \in Value : attrs' = [attrs EXCEPT ![w.name] = u]
    BY DEF Lands, Over
  <2> SUFFICES ASSUME NEW q \in Req, req[q].at = "opened"
               PROVE  attrs'[req[q].name] \in Value
    BY <1>1 DEF OpenIsThere
  <2>2. attrs[req[q].name] \in Value /\ req[q].name \in Name
    BY DEF CInv, OpenIsThere, IInv, Types, Request
  <2> QED
    BY <2>1, <2>2 DEF IInv, Types
<1>4. Counted' /\ calls' \in Nat /\ faults' \in Nat /\ calls' >= calls /\ faults' >= faults
  BY <1>1 DEF CInv, Counted
<1>5. \A q \in Req : Sound(q)'
  BY <1>1, <1>4, StaysSound
<1> QED
  BY <1>2, <1>3, <1>4, <1>5 DEF CInv

LEMMA WinRemoveDeleteSound ==
  ASSUME IInv, CInv, IInv', NEW r \in Req, WinRemoveDelete(r)
  PROVE  CInv'
<1> DEFINE n == req[r].name
           last == Opened("remove", n) = {r}
           err == IF n \in doomed THEN "EIO" ELSE "OK"
<1>1. /\ platform = "win" /\ platform' = platform /\ calls' = calls /\ Observe
      /\ req[r].at = "opened" /\ req[r].op = "remove" /\ n \in Name
  BY DEF WinRemoveDelete, Turn, Win, IInv, Types, Request
<1>2. CASE /\ attrs' = IF last THEN [attrs EXCEPT ![n] = Absent] ELSE attrs
           /\ doomed' = IF last THEN doomed \ {n} ELSE doomed \cup {n}
           /\ Ends(r, err)
           /\ UNCHANGED faults
  <2>1. /\ req'[r].at = "done" /\ req'[r].op = "remove" /\ req'[r].err = err
        /\ \A q \in Req \ {r} : req'[q] = req[q]
    BY <1>1, <1>2, EndsWith DEF IInv, Err
  <2>2. /\ calls \in Nat /\ faults \in 0 .. MaxFaults /\ faults \in Nat
        /\ doomed # {} => calls > 1
    BY DEF CInv, Counted
  <2>3. ~last => calls > 1
    <3> SUFFICES ASSUME ~last PROVE calls > 1
      OBVIOUS
    <3>1. r \in Opened("remove", n)
      BY <1>1 DEF Opened
    <3>2. PICK q \in Opened("remove", n) : q # r
      BY <3>1
    <3>3. q \in Req /\ req[q].at = "opened"
      BY <3>2 DEF Opened
    <3> QED
      BY <1>1, <3>2, <3>3 DEF CInv, Counted
  <2>4. Counted'
    <3>1. doomed' # {} => calls > 1
      BY <1>2, <2>2, <2>3
    <3> QED
      BY <1>1, <1>2, <2>1, <2>2, <3>1, CountedStays DEF CInv
  <2>5. OpenIsThere'
    <3> SUFFICES ASSUME NEW q \in Req, req'[q].at = "opened"
                 PROVE  attrs'[req'[q].name] \in Value
      BY DEF OpenIsThere
    <3>1. q # r /\ req'[q] = req[q] /\ req[q].name \in Name /\ attrs[req[q].name] \in Value
      BY <2>1 DEF CInv, OpenIsThere, IInv, Types, Request
    <3>2. CASE req[q].name # n
      BY <1>2, <3>1, <3>2 DEF IInv, Types
    <3>3. CASE req[q].name = n
      <4>1. req[q].op = "remove"
        BY <1>1, <2>1, <3>1, <3>3 DEF IInv, Apart
      <4>2. q \in Opened("remove", n)
        BY <2>1, <3>1, <3>3, <4>1 DEF Opened
      <4>3. ~last
        BY <3>1, <4>2
      <4> QED
        BY <1>2, <3>1, <4>3
    <3> QED
      BY <3>2, <3>3
  <2>6. GoodError(r)'
    <3>1. CASE n \in doomed
      BY <1>1, <2>1, <2>2, <3>1 DEF GoodError
    <3>2. CASE n \notin doomed
      <4>1. Has(r) # Absent
        BY <1>1, AttrAssumption DEF CInv, OpenIsThere, Has
      <4>2. \A q \in Req : ~(req[q].at = "opened" /\ req[q].op = "set" /\ req[q].name = n)
        BY <1>1 DEF IInv, Apart
      <4>3. Has(r) \in Value /\ Has(r) \in seen'[r]
        BY <1>1, <2>1, <3>2, <4>1, <4>2, HadValue
      <4> QED
        BY <2>1, <3>2, <4>3 DEF GoodError
    <3> QED
      BY <3>1, <3>2
  <2>7. Sound(r)'
    BY <2>1, <2>6, EndsSoundly DEF GoodList
  <2> QED
    BY <1>1, <1>2, <2>1, <2>2, <2>4, <2>5, <2>7, StepSound
<1>3. CASE n \notin doomed /\ Fault(r)
  BY <1>1, <1>3, FaultSound
<1> QED
  BY <1>2, <1>3 DEF WinRemoveDelete

LEMMA WinListSound ==
  ASSUME IInv, CInv, IInv', NEW r \in Req, WinList(r)
  PROVE  CInv'
<1> DEFINE data == [got |-> Present, size |-> SizeOf(Present), junk |-> 0]
<1>1. /\ platform' = platform /\ calls' = calls /\ Observe
      /\ req[r].at = "queued" /\ req[r].op = "list" /\ req[r].err = "OK"
  BY DEF WinList, Turn, CInv, Sound, NoErrorYet
<1>2. CASE /\ req' = [req EXCEPT ![r].at = "done", ![r].base = "own", ![r].data = data]
           /\ Reads
  <2>1. data.got = Present /\ data.junk = 0
    OBVIOUS
  <2> HIDE DEF data
  <2>2. /\ req'[r].at = "done" /\ req'[r].op = "list" /\ req'[r].err = "OK"
        /\ req'[r].data = data
        /\ \A q \in Req \ {r} : req'[q] = req[q]
    BY <1>1, <1>2 DEF IInv, Types, Request
  <2>3. Present \in seen'[r]
    BY <1>1, <1>2, <2>2, SeesNames
  <2>4. GoodList(r)'
    BY <2>1, <2>2, <2>3 DEF GoodList
  <2>5. Sound(r)'
    BY <2>2, <2>4, EndsSoundly DEF GoodError
  <2> QED
    BY <1>1, <1>2, <2>2, <2>5, FaultsStay, QuietStepSound DEF Reads
<1>3. CASE Fault(r)
  BY <1>1, <1>3, FaultSound
<1> QED
  BY <1>2, <1>3 DEF WinList

LEMMA AfterWorkSound ==
  ASSUME IInv, CInv, IInv', NEW r \in Req, AfterWork(r)
  PROVE  CInv'
<1>1. /\ platform' = platform /\ attrs' = attrs /\ doomed' = doomed /\ Observe
      /\ calls' = calls /\ faults' = faults /\ req[r].at = "done"
      /\ req' = [req EXCEPT ![r] = Free]
  BY DEF AfterWork
<1>2. req'[r] = Free /\ \A q \in Req \ {r} : req'[q] = req[q]
  BY <1>1 DEF IInv, Types
<1>3. Sound(r)'
  BY <1>2, NoErrorAtFirst DEF Sound, SeesNow, NoErrorYet, GoodListSize, GoodList, GoodError
<1> QED
  BY <1>1, <1>2, <1>3, NoErrorAtFirst, FaultsStay, QuietStepSound

LEMMA InitIsSound == Init => CInv
<1> SUFFICES ASSUME Init PROVE CInv
  OBVIOUS
<1>1. \A r \in Req : req[r] = Free /\ seen[r] = {}
  BY DEF Init
<1>2. SeenTyped
  BY <1>1, FS_EmptySet DEF SeenTyped
<1>3. OpenIsThere /\ \A r \in Req : Sound(r)
  BY <1>1, NoErrorAtFirst
     DEF OpenIsThere, Sound, SeesNow, NoErrorYet, GoodListSize, GoodList, GoodError
<1>4. Counted
  BY <1>1, NoErrorAtFirst, AttrAssumption DEF Counted, Init
<1> QED
  BY <1>2, <1>3, <1>4 DEF CInv

LEMMA NextSound == IInv /\ CInv /\ [Next]_vars => CInv'
<1> SUFFICES ASSUME IInv, CInv, [Next]_vars PROVE CInv'
  OBVIOUS
<1>1. IInv'
  BY NextKeeps
<1>2. CASE UNCHANGED vars
  <2>1. UNCHANGED <<platform, attrs, doomed, req, seen, calls, faults>>
    BY <1>2 DEF vars
  <2>2. SeenTyped' /\ OpenIsThere' /\ Counted'
    BY <2>1 DEF CInv, SeenTyped, OpenIsThere, Counted
  <2>3. \A r \in Req : Observed(r)' = Observed(r)
    BY <2>1 DEF Observed, Present, Committed, Opened
  <2>4. \A r \in Req : Sound(r)'
    BY <2>1, <2>3 DEF CInv, Sound, SeesNow, NoErrorYet, GoodListSize, GoodList, GoodError
  <2> QED
    BY <2>2, <2>4 DEF CInv
<1>3. ASSUME NEW r \in Req,
             \/ \E n \in Name : FsGetAttr(r, n) \/ FsRemoveAttr(r, n)
             \/ \E n \in Name, v \in Value : FsSetAttr(r, n, v)
             \/ FsListAttrs(r)
      PROVE  CInv'
  BY <1>1, <1>3, BeginSound DEF FsGetAttr, FsSetAttr, FsRemoveAttr, FsListAttrs
<1>4. ASSUME NEW r \in Req, WinGetOpen(r) \/ WinRemoveOpen(r)
      PROVE  CInv'
  BY <1>1, <1>4, WinOpenSound DEF WinGetOpen, WinRemoveOpen
<1>5. ASSUME NEW r \in Req, Step(r)
      PROVE  CInv'
  BY <1>1, <1>3, <1>4, <1>5, GetSizeSound, GetValueSound, SetAttrSound, RemoveAttrSound,
     ListSizeSound, ListNamesSound, WinGetQuerySound, WinGetReadSound, WinSetCreateSound,
     WinSetWriteSound, WinRemoveDeleteSound, WinListSound, AfterWorkSound DEF Step
<1> QED
  BY <1>1, <1>2, <1>5, LandsSound DEF Next

-----------------------------------------------------------------------------
(* The theorems.                                                           *)

(* The facts above hold after every step: what requests have at each stage *)
(* of their calls (src/attr.c, the attr.c of the platforms).               *)
THEOREM Invariance == Spec => []IInv
<1>1. Init => IInv
  BY InitIsGood
<1>2. IInv /\ [Next]_vars => IInv'
  BY NextKeeps
<1> QED
  BY <1>1, <1>2, PTL DEF Spec

(* A get that succeeds delivers a value the attribute had during the call, *)
(* in a buffer as large as such a value; on Windows as long as no read or  *)
(* write was pending when it returned, after which a buffer may be         *)
(* undefined (linux/attr.c:11-22, mac/attr.c:11-25, win/attr.c:8-156).     *)
THEOREM GetsAreTrue == Spec => []GetIsTrue
<1>1. IInv => GetIsTrue
  BY AttrAssumption DEF IInv, Good, GoodValue, GetIsTrue, Succeeded
<1> QED
  BY <1>1, Invariance, PTL

(* What the callback frees is null, or was allocated by the call, but for  *)
(* a list that has failed (attr.c:94-111).                                 *)
THEOREM OwnIsFreed == Spec => []FreesOnlyOwn
<1>1. IInv => FreesOnlyOwn
  BY DEF IInv, Good, GoodBase, FreesOnlyOwn
<1> QED
  BY <1>1, Invariance, PTL

(* Causes hold after every step too: what is there now, each call under    *)
(* way has seen, and an error is one that was seen to come (src/attr.c,    *)
(* the attr.c of the platforms).                                           *)
THEOREM CausesAreKept == Spec => []CInv
<1>1. IInv /\ CInv /\ [Next]_vars => CInv'
  BY NextSound
<1> QED
  BY <1>1, InitIsSound, Invariance, PTL DEF Spec

(* Every field keeps its type, and on Windows whoever sets an attribute    *)
(* has its stream for itself (win/attr.c:117-129).                         *)
THEOREM TypeCorrect == Spec => []TypeOK
<1>1. IInv /\ CInv => TypeOK
  <2> SUFFICES ASSUME IInv, CInv PROVE TypeOK
    OBVIOUS
  <2>1. doomed \subseteq Present
    BY AttrAssumption DEF IInv, HeldByRemove, Types, CInv, OpenIsThere, Present
  <2>2. ASSUME NEW n \in Name, Opened("set", n) # {}
        PROVE  /\ Cardinality(Opened("set", n)) = 1
               /\ Opened("get", n) = {} /\ Opened("remove", n) = {}
    <3>1. PICK r \in Req : req[r].at = "opened" /\ req[r].op = "set" /\ req[r].name = n
      BY <2>2 DEF Opened
    <3>2. \A q \in Req : req[q].at = "opened" /\ req[q].name = n => q = r
      BY <3>1 DEF IInv, Apart
    <3>3. Opened("set", n) = {r} /\ Opened("get", n) = {} /\ Opened("remove", n) = {}
      BY <3>1, <3>2 DEF Opened
    <3> QED
      BY <3>3, FS_Singleton
  <2>3. req \in [Req -> [op: Op, name: Name, value: Value, data: Data, at: At,
                         base: {"null", "own", "before"}, old: Value \cup {Absent}, err: Err]]
    BY DEF IInv, Types, Request, Buffer, Data
  <2> QED
    BY <2>1, <2>2, <2>3 DEF IInv, Types, CInv, SeenTyped, Counted, TypeOK, At, Behind
<1> QED
  BY <1>1, Invariance, CausesAreKept, PTL

(* A list that succeeds has all the names the file had at one moment of    *)
(* the call, and nothing else unless names went between its two system     *)
(* calls (linux/attr.c:46-57, mac/attr.c:56-67, win/attr.c:206-294).       *)
THEOREM ListsAreTrue == Spec => []ListIsTrue
<1>1. CInv => ListIsTrue
  BY DEF CInv, Sound, GoodList, ListIsTrue, Succeeded
<1> QED
  BY <1>1, CausesAreKept, PTL

(* An error is told only with its cause: a missing attribute, one that     *)
(* grew, a stream another call has open, or a system call that failed      *)
(* (linux/attr.c:11-22, mac/attr.c:11-45, win/attr.c:31-204).              *)
THEOREM ErrorsHaveCause == Spec => []ErrorHasCause
<1>1. CInv => ErrorHasCause
  BY DEF CInv, Sound, GoodError, ErrorHasCause
<1> QED
  BY <1>1, CausesAreKept, PTL
=============================================================================
