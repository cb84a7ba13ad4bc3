--------------------------- MODULE FileDataProofs ---------------------------
(***************************************************************************)
(* Proofs about the two parts that change the bytes of one file: Batch,    *)
(* for every list of buffers, every file size and any number of failures,  *)
(* and Trim, for any size of a block, any range and any number of other    *)
(* calls and failures.  The two share no state; they are in one module     *)
(* because both count and place bytes.                                     *)
(*                                                                         *)
(* Batch.  A run is a list of adjacent buffers, so that the place of a     *)
(* byte in the file is a bijection from the bytes of the run to an         *)
(* interval, and keeps their order (RunHasNoGap, PlacesDiffer): the        *)
(* rank of a byte in the request is its distance from the offset of the    *)
(* request, and the first n bytes of the request are n bytes of the file.  *)
(* The invariant (IInv) adds to the properties which buffers no request    *)
(* has touched yet and which are filled.                                   *)
(*                                                                         *)
(* Trim.  That a step stays inside the range depends on the offset and the *)
(* length the steps before have left: what is left to do always ends where *)
(* the range ends (Moving).  That nothing of the range is left out depends *)
(* on where the pieces of macOS end: the hole starts at the first block of *)
(* the range and the tail is less than a block (Pieces).                   *)
(***************************************************************************)
EXTENDS Batch, Trim, FiniteSetTheorems, FunctionTheorems, TLAPS

-----------------------------------------------------------------------------
(* Of finite sets, one has no other below it.                              *)
LEMMA LeastSet ==
  ASSUME NEW X, NEW F, F # {}, F \subseteq FiniteSubsetsOf(X)
  PROVE  \E T \in F : \A U \in F : U \subseteq T => U = T
<1>1. \E T \in F : \A U \in F : ~(<<U, T>> \in StrictSubsetOrdering(X))
  BY FS_StrictSubsetOrderingWellFounded, WFMin
<1>2. \A U, T \in F : U \subseteq T /\ U # T => <<U, T>> \in StrictSubsetOrdering(X)
  BY DEF StrictSubsetOrdering, FiniteSubsetsOf
<1> QED
  BY <1>1, <1>2

LEMMA LeastNatural ==
  ASSUME NEW S \in SUBSET Nat, S # {}
  PROVE  \E n \in S : \A m \in S : n <= m
<1> DEFINE F == {1 .. n : n \in S}
<1>1. \A T \in F : T \subseteq Nat /\ IsFiniteSet(T)
  BY FS_Interval
<1>2. PICK T \in F : \A U \in F : U \subseteq T => U = T
  <2>1. F # {}
    OBVIOUS
  <2>2. F \subseteq FiniteSubsetsOf(Nat)
    BY <1>1 DEF FiniteSubsetsOf
  <2> HIDE DEF F
  <2> QED
    BY <2>1, <2>2, LeastSet
<1>3. PICK n \in S : T = 1 .. n
  BY <1>2
<1>4. ASSUME NEW m \in S, m < n PROVE FALSE
  <2>1. 1 .. m \in F /\ 1 .. m \subseteq 1 .. n
    BY <1>4
  <2>2. 1 .. m = 1 .. n
    BY <1>2, <1>3, <2>1
  <2>3. n \in 1 .. n /\ n \notin 1 .. m
    BY <1>4
  <2> QED
    BY <2>2, <2>3
<1> QED
  BY <1>3, <1>4

-----------------------------------------------------------------------------
(* Batches and their bytes.                                                *)

LEMMA JobFacts ==
  ASSUME NEW j \in Jobs
  PROVE  /\ Bufs(j) \in Nat
         /\ \A i \in 1 .. Bufs(j) : j.len[i] \in Nat /\ j.off[i] \in Nat
         /\ \A i, k \in 1 .. Bufs(j) : i < k =>
              \/ j.off[i] + j.len[i] <= j.off[k]
              \/ j.off[k] + j.len[k] <= j.off[i]
<1>1. j.len \in Seq(Nat) /\ j.off \in Seq(Nat) /\ Len(j.len) = Len(j.off)
  BY BatchAssumption
<1>2. DOMAIN j.len = 1 .. Bufs(j) /\ DOMAIN j.off = 1 .. Bufs(j) /\ Bufs(j) \in Nat
  BY <1>1 DEF Bufs
<1>3. \A i \in 1 .. Bufs(j) : j.len[i] \in Nat /\ j.off[i] \in Nat
  BY <1>1, <1>2
<1>4. \A i, k \in DOMAIN j.len : i < k =>
        \/ j.off[i] + j.len[i] <= j.off[k]
        \/ j.off[k] + j.len[k] <= j.off[i]
  BY BatchAssumption
<1> QED
  BY <1>2, <1>3, <1>4

LEMMA ByteFacts ==
  ASSUME NEW j \in Jobs, NEW b \in Bytes(j)
  PROVE  /\ b[1] \in 1 .. Bufs(j) /\ b[2] \in Nat /\ b[2] < j.len[b[1]]
         /\ b = <<b[1], b[2]>> /\ Place(j, b) \in Nat
         /\ j.off[b[1]] <= Place(j, b) /\ Place(j, b) < j.off[b[1]] + j.len[b[1]]
         /\ Place(j, b) = j.off[b[1]] + b[2]
<1>1. PICK i \in 1 .. Bufs(j) : b \in {i} \X (0 .. j.len[i] - 1)
  BY DEF Bytes
<1>2. j.len[i] \in Nat /\ j.off[i] \in Nat
  BY JobFacts
<1>3. b[1] = i /\ b[2] \in Nat /\ b[2] < j.len[i] /\ b = <<b[1], b[2]>>
  BY <1>1, <1>2
<1> QED
  BY <1>2, <1>3 DEF Place

LEMMA IsByte ==
  ASSUME NEW j \in Jobs, NEW i \in 1 .. Bufs(j), NEW k \in Nat, k < j.len[i]
  PROVE  <<i, k>> \in Bytes(j) /\ Place(j, <<i, k>>) = j.off[i] + k
<1>1. j.len[i] \in Nat
  BY JobFacts
<1>2. <<i, k>> \in {i} \X (0 .. j.len[i] - 1)
  BY <1>1
<1> QED
  BY <1>2 DEF Bytes, Place

LEMMA BytesAreFinite ==
  ASSUME NEW j \in Jobs
  PROVE  IsFiniteSet(Bytes(j))
<1> DEFINE S == {{i} \X (0 .. j.len[i] - 1) : i \in 1 .. Bufs(j)}
<1>1. \A T \in S : IsFiniteSet(T)
  <2>1. ASSUME NEW i \in 1 .. Bufs(j)
        PROVE  IsFiniteSet({i} \X (0 .. j.len[i] - 1))
    <3>1. j.len[i] \in Nat
      BY JobFacts
    <3>2. 0 \in Int /\ j.len[i] - 1 \in Int
      BY <3>1
    <3>3. IsFiniteSet(0 .. j.len[i] - 1)
      BY <3>2, FS_Interval
    <3>4. IsFiniteSet({i})
      BY FS_Singleton
    <3> QED
      BY <3>3, <3>4, FS_Product
  <2> QED
    BY <2>1
<1>2. IsFiniteSet(S)
  <2>1. IsFiniteSet(1 .. Bufs(j))
    BY JobFacts, FS_Interval
  <2> DEFINE f == [i \in 1 .. Bufs(j) |-> {i} \X (0 .. j.len[i] - 1)]
  <2>2. f \in Surjection(1 .. Bufs(j), S)
    BY DEF Surjection
  <2> QED
    BY <2>1, <2>2, FS_Surjection
<1> HIDE DEF S
<1>3. IsFiniteSet(UNION S)
  BY <1>1, <1>2, FS_UNION
<1> QED
  BY <1>3 DEF S, Bytes

(* No two bytes belong to the same place.                                  *)
LEMMA PlacesDiffer ==
  ASSUME NEW j \in Jobs, NEW b \in Bytes(j), NEW d \in Bytes(j), Place(j, b) = Place(j, d)
  PROVE  b = d
<1>1. /\ b[1] \in 1 .. Bufs(j) /\ b[2] \in Nat /\ b = <<b[1], b[2]>>
      /\ j.off[b[1]] <= Place(j, b) /\ Place(j, b) < j.off[b[1]] + j.len[b[1]]
      /\ Place(j, b) = j.off[b[1]] + b[2]
  BY ByteFacts
<1>2. /\ d[1] \in 1 .. Bufs(j) /\ d[2] \in Nat /\ d = <<d[1], d[2]>>
      /\ j.off[d[1]] <= Place(j, d) /\ Place(j, d) < j.off[d[1]] + j.len[d[1]]
      /\ Place(j, d) = j.off[d[1]] + d[2]
  BY ByteFacts
<1>3. /\ j.len[b[1]] \in Nat /\ j.off[b[1]] \in Nat /\ j.len[d[1]] \in Nat /\ j.off[d[1]] \in Nat
      /\ Bufs(j) \in Nat /\ Place(j, b) \in Nat
  BY <1>1, <1>2, JobFacts, ByteFacts
<1>4. b[1] = d[1]
  <2>1. ASSUME b[1] < d[1] PROVE FALSE
    <3>1. \/ j.off[b[1]] + j.len[b[1]] <= j.off[d[1]]
          \/ j.off[d[1]] + j.len[d[1]] <= j.off[b[1]]
      BY <1>1, <1>2, <2>1, JobFacts
    <3> QED
      BY <1>1, <1>2, <1>3, <3>1
  <2>2. ASSUME d[1] < b[1] PROVE FALSE
    <3>1. \/ j.off[d[1]] + j.len[d[1]] <= j.off[b[1]]
          \/ j.off[b[1]] + j.len[b[1]] <= j.off[d[1]]
      BY <1>1, <1>2, <2>2, JobFacts
    <3> QED
      BY <1>1, <1>2, <1>3, <3>1
  <2>3. b[1] \in Nat /\ d[1] \in Nat
    BY <1>1, <1>2, <1>3
  <2> QED
    BY <2>1, <2>2, <2>3
<1>5. b[2] = d[2]
  <2>1. j.off[b[1]] + b[2] = j.off[b[1]] + d[2]
    BY <1>1, <1>2, <1>4
  <2> QED
    BY <1>1, <1>2, <1>3, <2>1
<1> QED
  BY <1>1, <1>2, <1>4, <1>5

-----------------------------------------------------------------------------
(* Runs: the buffers from f to l are adjacent.                             *)
Run(j, f, l) == \A i \in f .. l - 1 : Adjacent(j, i)
RunBytes(j, f, l) == {b \in Bytes(j) : b[1] \in f .. l}
End(j, i) == j.off[i] + j.len[i]

LEMMA RunInOrder ==
  ASSUME NEW j \in Jobs, NEW f \in 1 .. Bufs(j), NEW l \in f .. Bufs(j), Run(j, f, l),
         NEW i \in f .. l, NEW k \in f .. l, i < k
  PROVE  End(j, i) <= j.off[k]
<1> DEFINE S == {m \in i + 1 .. l : End(j, i) > j.off[m]}
<1>1. /\ Bufs(j) \in Nat /\ f \in Nat /\ l \in Nat /\ i \in Nat /\ k \in Nat
      /\ \A m \in f .. l : j.len[m] \in Nat /\ j.off[m] \in Nat
  BY JobFacts
<1>2. ASSUME S # {} PROVE FALSE
  <2>1. S \in SUBSET Nat
    BY <1>1
  <2>2. PICK m \in S : \A n \in S : m <= n
    BY <1>2, <2>1, LeastNatural
  <2>3. m \in Nat /\ m - 1 \in f .. l - 1 /\ m - 1 >= i /\ m \in f .. l /\ (m - 1) + 1 = m
    BY <1>1, <2>2
  <2>4. j.off[m - 1] + j.len[m - 1] = j.off[m]
    BY <2>3 DEF Run, Adjacent
  <2>5. CASE m - 1 = i
    BY <1>1, <2>2, <2>4, <2>5 DEF End
  <2>6. CASE m - 1 # i
    <3>1. m - 1 \in i + 1 .. l
      BY <1>1, <2>3, <2>6
    <3>2. m - 1 \notin S
      BY <2>2, <2>3
    <3>3. End(j, i) <= j.off[m - 1]
      BY <1>1, <2>3, <3>1, <3>2 DEF End
    <3> QED
      BY <1>1, <2>2, <2>3, <2>4, <3>3 DEF End
  <2> QED
    BY <2>5, <2>6
<1>3. k \in i + 1 .. l
  BY <1>1
<1>4. End(j, i) \in Nat /\ j.off[k] \in Nat
  BY <1>1 DEF End
<1> QED
  BY <1>2, <1>3, <1>4

(* Every place of a run has a byte.                                        *)
LEMMA RunHasNoGap ==
  ASSUME NEW j \in Jobs, NEW f \in 1 .. Bufs(j), NEW l \in f .. Bufs(j), Run(j, f, l),
         NEW c \in Nat, j.off[f] <= c, c < End(j, l)
  PROVE  \E b \in RunBytes(j, f, l) : Place(j, b) = c
<1> DEFINE S == {i \in f .. l : c < End(j, i)}
<1>1. /\ Bufs(j) \in Nat /\ f \in Nat /\ l \in Nat
      /\ \A m \in f .. l : j.len[m] \in Nat /\ j.off[m] \in Nat
  BY JobFacts
<1>2. S # {} /\ S \in SUBSET Nat
  BY <1>1
<1>3. PICK i \in S : \A n \in S : i <= n
  BY <1>2, LeastNatural
<1>4. j.off[i] <= c
  <2>1. CASE i = f
    BY <2>1
  <2>2. CASE i # f
    <3>1. i - 1 \in f .. l - 1 /\ i \in Nat /\ (i - 1) + 1 = i
      BY <1>1, <1>3, <2>2
    <3>2. j.off[i - 1] + j.len[i - 1] = j.off[i]
      BY <3>1 DEF Run, Adjacent
    <3>3. i - 1 \notin S
      BY <1>3, <3>1
    <3>4. End(j, i - 1) <= c
      BY <1>1, <3>1, <3>3 DEF End
    <3> QED
      BY <3>2, <3>4 DEF End
  <2> QED
    BY <2>1, <2>2
<1>5. i \in 1 .. Bufs(j) /\ c - j.off[i] \in Nat /\ c - j.off[i] < j.len[i]
  BY <1>1, <1>3, <1>4 DEF End
<1> DEFINE b == <<i, c - j.off[i]>>
<1>6. b \in Bytes(j) /\ Place(j, b) = j.off[i] + (c - j.off[i]) /\ b[1] = i
  BY <1>5, IsByte
<1>7. Place(j, b) = c
  BY <1>1, <1>3, <1>6
<1> QED
  BY <1>3, <1>6, <1>7 DEF RunBytes

LEMMA RunPlaces ==
  ASSUME NEW j \in Jobs, NEW f \in 1 .. Bufs(j), NEW l \in f .. Bufs(j), Run(j, f, l),
         NEW b \in RunBytes(j, f, l)
  PROVE  j.off[f] <= Place(j, b) /\ Place(j, b) < End(j, l) /\ b \in Bytes(j)
<1>1. /\ Bufs(j) \in Nat /\ f \in Nat /\ l \in Nat
      /\ \A m \in f .. l : j.len[m] \in Nat /\ j.off[m] \in Nat
  BY JobFacts
<1>2. /\ b[1] \in f .. l /\ j.off[b[1]] <= Place(j, b) /\ Place(j, b) < End(j, b[1])
      /\ Place(j, b) \in Nat /\ b \in Bytes(j)
  BY ByteFacts DEF RunBytes, End
<1>3. b[1] > f => End(j, f) <= j.off[b[1]]
  BY <1>1, <1>2, RunInOrder
<1>4. b[1] < l => End(j, b[1]) <= j.off[l]
  BY <1>1, <1>2, RunInOrder
<1> QED
  BY <1>1, <1>2, <1>3, <1>4 DEF End

(* There are as many bytes in front of a place as places.                  *)
LEMMA CountBelow ==
  ASSUME NEW j \in Jobs, NEW f \in 1 .. Bufs(j), NEW l \in f .. Bufs(j), Run(j, f, l),
         NEW c \in Nat, j.off[f] <= c, c <= End(j, l)
  PROVE  Cardinality({b \in RunBytes(j, f, l) : Place(j, b) < c}) = c - j.off[f]
<1> DEFINE S == {b \in RunBytes(j, f, l) : Place(j, b) < c}
           T == j.off[f] .. c - 1
           place == [b \in S |-> Place(j, b)]
<1>1. j.off[f] \in Nat /\ End(j, l) \in Nat
  BY JobFacts DEF End
<1>2. \A b \in S : place[b] = Place(j, b) /\ Place(j, b) \in T /\ b \in Bytes(j)
  BY <1>1, RunPlaces, ByteFacts
<1>3. place \in [S -> T]
  BY <1>2
<1>4. \A b, d \in S : place[b] = place[d] => b = d
  BY <1>2, PlacesDiffer
<1>5. \A x \in T : \E b \in S : place[b] = x
  <2> SUFFICES ASSUME NEW x \in T PROVE \E b \in S : place[b] = x
    OBVIOUS
  <2>1. x \in Nat /\ j.off[f] <= x /\ x < End(j, l) /\ x < c
    BY <1>1
  <2>2. PICK b \in RunBytes(j, f, l) : Place(j, b) = x
    BY <2>1, RunHasNoGap
  <2> QED
    BY <2>1, <2>2
<1> HIDE DEF S, T, place
<1>6. ExistsBijection(S, T)
  <2>1. place \in Injection(S, T)
    BY <1>3, <1>4 DEF Injection, IsInjective
  <2>2. place \in Surjection(S, T)
    BY <1>3, <1>5 DEF Surjection
  <2> QED
    BY <2>1, <2>2 DEF ExistsBijection, Bijection
<1>7. IsFiniteSet(T) /\ Cardinality(T) = c - j.off[f]
  <2>1. j.off[f] \in Int /\ c - 1 \in Int
    BY <1>1
  <2>2. /\ IsFiniteSet(T)
        /\ Cardinality(T) = IF j.off[f] > c - 1 THEN 0 ELSE (c - 1) - j.off[f] + 1
    BY <2>1, FS_Interval DEF T
  <2> QED
    BY <1>1, <2>2
<1>8. Cardinality(S) = Cardinality(T)
  BY <1>6, <1>7, Fun_ExistsBijSymmetric, FS_Bijection
<1> QED
  BY <1>7, <1>8 DEF S

-----------------------------------------------------------------------------
(* The inductive invariant.                                                *)

(* The last buffer a request that has run could touch.                     *)
Through ==
  IF phase # "running" THEN 0
  ELSE IF uv.call = "none" THEN Bufs(job)
  ELSE IF uv.done THEN pos + batched ELSE pos

Request ==
  [call : {"none", "read", "write"}, first : Nat, count : Nat, off : Nat,
   done : BOOLEAN, err : Err, n : Nat]

Types ==
  /\ op \in {"read", "write"} /\ job \in Jobs
  /\ phase \in {"idle", "running", "refused"}
  /\ pos \in Nat /\ remaining \in Nat /\ batched \in Nat /\ len \in Nat
  /\ uv \in Request
  /\ DOMAIN memory = Bytes(job) /\ DOMAIN file = 0 .. FileSize - 1
  /\ faults \in 0 .. MaxFaults
  /\ replies \in Seq([status : Err, len : Nat])

InPhase ==
  /\ phase # "running" => uv = Idle /\ len = 0 /\ pos = 0 /\ replies = << >>
  /\ uv.call = "none" => uv = Idle
  /\ op = "read" => uv.call # "write"
  /\ ~uv.done => uv.err = "OK" /\ uv.n = 0
  /\ uv.err # "OK" => uv.n = 0 /\ faults # 0

(* What no request has come to is as it was.                               *)
Untouched ==
  /\ \A b \in Bytes(job) : b[1] > Through => memory[b] = OldMemory(job)[b]
  /\ \A c \in 0 .. FileSize - 1 :
       file[c] # OldFile[c] => \E b \in Bytes(job) : b[1] <= Through /\ Place(job, b) = c

(* What requests have read is right.                                       *)
Filled ==
  op = "read" /\ faults = 0 =>
    \A b \in Bytes(job) : b[1] <= Through =>
      memory[b] = IF Place(job, b) < FileSize THEN OldFile[Place(job, b)] ELSE OldMemory(job)[b]

(* While there is a request, no success was reported, and nothing at all   *)
(* unless something failed.                                                *)
NotYet ==
  uv.call # "none" =>
    /\ \A i \in DOMAIN replies : replies[i].status # "OK"
    /\ faults = 0 => replies = << >>

IInv ==
  /\ Types /\ InPhase /\ RequestIsNextRun
  /\ Untouched /\ NoMisplacedByte /\ LenCountsBytes
  /\ Filled /\ NotYet /\ SuccessIsFinal

BytesMoved == {b \in Bytes(job) : memory[b] # OldMemory(job)[b]}
CellsMoved == {c \in DOMAIN file : file[c] # OldFile[c]}

LEMMA MovedAreFinite ==
  ASSUME Types
  PROVE  /\ IsFiniteSet(BytesMoved) /\ Cardinality(BytesMoved) \in Nat
         /\ IsFiniteSet(CellsMoved) /\ Cardinality(CellsMoved) \in Nat
<1>1. IsFiniteSet(BytesMoved)
  <2>1. IsFiniteSet(Bytes(job)) /\ BytesMoved \subseteq Bytes(job)
    BY BytesAreFinite DEF Types, BytesMoved
  <2> QED
    BY <2>1, FS_Subset
<1>2. IsFiniteSet(CellsMoved)
  <2>1. 0 \in Int /\ FileSize - 1 \in Int
    BY BatchAssumption
  <2>2. IsFiniteSet(0 .. FileSize - 1) /\ CellsMoved \subseteq 0 .. FileSize - 1
    BY <2>1, FS_Interval DEF Types, CellsMoved
  <2> QED
    BY <2>2, FS_Subset
<1> QED
  BY <1>1, <1>2, FS_CardinalityType

LEMMA OldValues ==
  ASSUME NEW j \in Jobs
  PROVE  /\ \A b \in Bytes(j) : OldMemory(j)[b] = <<"memory", b[1], b[2]>>
         /\ \A c \in 0 .. FileSize - 1 : OldFile[c] = <<"file", c>>
         /\ \A b \in Bytes(j), c \in 0 .. FileSize - 1 : OldMemory(j)[b] # OldFile[c]
<1>1. /\ \A b \in Bytes(j) : OldMemory(j)[b] = <<"memory", b[1], b[2]>>
      /\ \A c \in 0 .. FileSize - 1 : OldFile[c] = <<"file", c>>
  BY DEF OldMemory, OldFile
<1>2. \A x, y, z : <<"memory", x, y>> # <<"file", z>>
  <2> SUFFICES ASSUME NEW x, NEW y, NEW z, <<"memory", x, y>> = <<"file", z>>
               PROVE  FALSE
    OBVIOUS
  <2>1. <<"memory", x, y>>[1] = <<"file", z>>[1]
    OBVIOUS
  <2> QED
    BY <2>1
<1> QED
  BY <1>1, <1>2

-----------------------------------------------------------------------------
(* contiguous_bufs finds the longest run.                                  *)
LEMMA ContiguousFacts ==
  ASSUME NEW j \in Jobs, NEW p \in Nat, NEW r \in Nat, r > 0, p + r = Bufs(j)
  PROVE  /\ ContiguousBufs(j, p, r) \in 1 .. r
         /\ \A i \in 1 .. ContiguousBufs(j, p, r) - 1 : Adjacent(j, p + i)
         /\ ContiguousBufs(j, p, r) < r => ~Adjacent(j, p + ContiguousBufs(j, p, r))
<1> DEFINE S == {n \in 1 .. r : n = r \/ ~Adjacent(j, p + n)}
<1>1. S \in SUBSET Nat /\ r \in S
  OBVIOUS
<1>2. PICK n \in S : \A m \in S : n <= m
  BY <1>1, LeastNatural
<1>3. \A i \in 1 .. n - 1 : Adjacent(j, p + i)
  <2> SUFFICES ASSUME NEW i \in 1 .. n - 1 PROVE Adjacent(j, p + i)
    OBVIOUS
  <2>1. i \in 1 .. r /\ i # r /\ ~(n <= i)
    BY <1>2
  <2>2. i \notin S
    BY <1>2, <2>1
  <2> QED
    BY <2>1, <2>2
<1>4. /\ n \in 1 .. r /\ \A i \in 1 .. n - 1 : Adjacent(j, p + i)
      /\ n < r => ~Adjacent(j, p + n)
  BY <1>2, <1>3
<1> HIDE DEF S
<1> QED
  BY <1>4 DEF ContiguousBufs

-----------------------------------------------------------------------------
(* The request in flight.                                                  *)

LEMMA RequestFacts ==
  ASSUME Types, RequestIsNextRun, uv.call # "none"
  PROVE  /\ pos + 1 \in 1 .. Bufs(job) /\ pos + batched \in pos + 1 .. Bufs(job)
         /\ Run(job, pos + 1, pos + batched)
         /\ uv.off = job.off[pos + 1] /\ uv.off \in Nat
         /\ Requested = RunBytes(job, pos + 1, pos + batched)
<1>1. /\ job \in Jobs /\ pos \in Nat /\ batched \in Nat /\ remaining \in Nat
      /\ pos + remaining = Bufs(job) /\ batched \in 1 .. remaining
      /\ uv.first = pos + 1 /\ uv.count = batched /\ uv.off = job.off[pos + 1]
      /\ \A i \in 1 .. batched - 1 : job.off[pos + i] + job.len[pos + i] = job.off[pos + i + 1]
  BY DEF Types, RequestIsNextRun
<1>2. pos + 1 \in 1 .. Bufs(job) /\ pos + batched \in pos + 1 .. Bufs(job)
  BY <1>1
<1>3. Run(job, pos + 1, pos + batched)
  <2> SUFFICES ASSUME NEW k \in pos + 1 .. (pos + batched) - 1
               PROVE  job.off[k] + job.len[k] = job.off[k + 1]
    BY DEF Run, Adjacent
  <2>1. k - pos \in 1 .. batched - 1 /\ pos + (k - pos) = k /\ k \in Int
    BY <1>1
  <2>2. job.off[pos + (k - pos)] + job.len[pos + (k - pos)] = job.off[pos + (k - pos) + 1]
    BY <1>1, <2>1
  <2> QED
    BY <2>1, <2>2
<1>4. uv.off \in Nat
  BY <1>1, <1>2, JobFacts
<1>5. Requested = RunBytes(job, pos + 1, pos + batched)
  <2>1. (uv.first + uv.count) - 1 = pos + batched
    BY <1>1
  <2> QED
    BY <1>1, <2>1 DEF Requested, RunBytes
<1> QED
  BY <1>1, <1>2, <1>3, <1>4, <1>5

(* The k-th byte of a request belongs k behind its offset.                 *)
LEMMA RankIsPlace ==
  ASSUME Types, RequestIsNextRun, uv.call # "none", NEW b \in Requested
  PROVE  Rank(b) = Place(job, b) - uv.off /\ Place(job, b) \in Nat /\ uv.off <= Place(job, b)
<1> DEFINE f == pos + 1
           l == pos + batched
<1>1. /\ f \in 1 .. Bufs(job) /\ l \in f .. Bufs(job) /\ Run(job, f, l) /\ job \in Jobs
      /\ uv.off = job.off[f] /\ uv.off \in Nat /\ Requested = RunBytes(job, f, l)
  BY RequestFacts DEF Types
<1> HIDE DEF f, l
<1>2. /\ b \in Bytes(job) /\ Place(job, b) \in Nat
      /\ uv.off <= Place(job, b) /\ Place(job, b) < End(job, l)
  BY <1>1, RunPlaces, ByteFacts
<1>3. Before(b) = {d \in RunBytes(job, f, l) : Place(job, d) < Place(job, b)}
  <2> SUFFICES ASSUME NEW d \in RunBytes(job, f, l)
               PROVE  (d[1] < b[1] \/ (d[1] = b[1] /\ d[2] < b[2])) <=>
                        Place(job, d) < Place(job, b)
    BY <1>1 DEF Before
  <2>1. /\ b[1] \in f .. l /\ b[1] \in 1 .. Bufs(job) /\ b[2] \in Nat
        /\ Place(job, b) = job.off[b[1]] + b[2] /\ Place(job, b) < End(job, b[1])
        /\ job.off[b[1]] \in Nat
    BY <1>1, <1>2, ByteFacts, JobFacts DEF RunBytes, End
  <2>2. /\ d[1] \in f .. l /\ d[1] \in 1 .. Bufs(job) /\ d[2] \in Nat
        /\ Place(job, d) = job.off[d[1]] + d[2] /\ Place(job, d) < End(job, d[1])
        /\ job.off[d[1]] \in Nat
    BY <1>1, ByteFacts, JobFacts DEF RunBytes, End
  <2>3. b[1] \in Nat /\ d[1] \in Nat /\ End(job, b[1]) \in Nat /\ End(job, d[1]) \in Nat
    BY <1>1, <2>1, <2>2, JobFacts DEF End
  <2>4. CASE d[1] = b[1]
    BY <2>1, <2>2, <2>4
  <2>5. CASE d[1] < b[1]
    <3>1. End(job, d[1]) <= job.off[b[1]]
      BY <1>1, <2>1, <2>2, <2>5, RunInOrder
    <3> QED
      BY <2>1, <2>2, <2>3, <2>5, <3>1
  <2>6. CASE b[1] < d[1]
    <3>1. End(job, b[1]) <= job.off[d[1]]
      BY <1>1, <2>1, <2>2, <2>6, RunInOrder
    <3> QED
      BY <2>1, <2>2, <2>3, <2>6, <3>1
  <2> QED
    BY <2>3, <2>4, <2>5, <2>6
<1>4. End(job, l) \in Nat
  BY <1>1, JobFacts DEF End
<1>5. Cardinality(Before(b)) = Place(job, b) - job.off[f]
  BY <1>1, <1>2, <1>3, <1>4, CountBelow
<1> QED
  BY <1>1, <1>2, <1>5 DEF Rank

(* What is asked for ends where the last buffer of the run ends.           *)
LEMMA AskedFacts ==
  ASSUME Types, RequestIsNextRun, uv.call # "none"
  PROVE  /\ Cardinality(Requested) = End(job, pos + batched) - uv.off
         /\ uv.off <= End(job, pos + batched) /\ End(job, pos + batched) \in Nat
<1> DEFINE f == pos + 1
           l == pos + batched
<1>1. /\ f \in 1 .. Bufs(job) /\ l \in f .. Bufs(job) /\ Run(job, f, l) /\ job \in Jobs
      /\ uv.off = job.off[f] /\ uv.off \in Nat /\ Requested = RunBytes(job, f, l)
  BY RequestFacts DEF Types
<1> HIDE DEF f, l
<1>2. /\ End(job, l) \in Nat /\ job.off[l] \in Nat /\ job.len[l] \in Nat
      /\ End(job, f) \in Nat /\ job.len[f] \in Nat
  BY <1>1, JobFacts DEF End
<1>3. uv.off <= End(job, l)
  <2>1. CASE f = l
    BY <1>1, <1>2, <2>1 DEF End
  <2>2. CASE f # l
    <3>1. f \in f .. l /\ l \in f .. l /\ f < l
      BY <1>1, <2>2, JobFacts
    <3>2. End(job, f) <= job.off[l]
      BY <1>1, <3>1, RunInOrder
    <3> QED
      BY <1>1, <1>2, <3>2 DEF End
  <2> QED
    BY <2>1, <2>2
<1>4. {b \in RunBytes(job, f, l) : Place(job, b) < End(job, l)} = Requested
  BY <1>1, RunPlaces
<1>5. Cardinality(Requested) = End(job, l) - job.off[f]
  BY <1>1, <1>2, <1>3, <1>4, CountBelow
<1> QED
  BY <1>1, <1>2, <1>3, <1>5 DEF l

(* The first n bytes: n places from the offset on, all in the file.        *)
LEMMA FirstFacts ==
  ASSUME Types, RequestIsNextRun, uv.call # "none", NEW n \in 0 .. Available
  PROVE  /\ n \in Nat /\ uv.off \in Nat /\ First(n) \subseteq Requested
         /\ Cardinality(First(n)) = n
         /\ \A b \in First(n) : /\ b \in Bytes(job) /\ Rank(b) = Place(job, b) - uv.off
                                /\ Place(job, b) \in uv.off .. (uv.off + n) - 1
                                /\ b[1] > pos /\ b[1] <= pos + batched
         /\ \A c \in uv.off .. (uv.off + n) - 1 :
              \E b \in First(n) : Place(job, b) = c
         /\ uv.off .. (uv.off + n) - 1 \subseteq 0 .. FileSize - 1
         /\ n = Available => \A b \in Requested : Place(job, b) < FileSize => b \in First(n)
<1> DEFINE f == pos + 1
           l == pos + batched
           asked == Cardinality(Requested)
<1>1. /\ f \in 1 .. Bufs(job) /\ l \in f .. Bufs(job) /\ Run(job, f, l) /\ job \in Jobs
      /\ uv.off = job.off[f] /\ uv.off \in Nat /\ Requested = RunBytes(job, f, l)
      /\ pos \in Nat /\ batched \in Nat
  BY RequestFacts DEF Types
<1>2. asked = End(job, l) - uv.off /\ uv.off <= End(job, l) /\ End(job, l) \in Nat
  BY AskedFacts
<1>3. /\ Available \in Nat /\ Available <= asked
      /\ Available = asked \/ uv.off + Available = FileSize \/ (Available = 0 /\ uv.off >= FileSize)
      /\ Available = 0 \/ uv.off + Available <= FileSize
  <2>1. asked \in Nat /\ FileSize \in Nat
    BY <1>1, <1>2, BatchAssumption
  <2> DEFINE upto == IF uv.off < FileSize THEN FileSize - uv.off ELSE 0
  <2>2. Available = IF asked < upto THEN asked ELSE upto
    BY DEF Available
  <2> HIDE DEF asked
  <2> QED
    BY <1>1, <2>1, <2>2
<1>4. \A b \in Requested : /\ b \in Bytes(job) /\ b[1] \in f .. l
                           /\ Rank(b) = Place(job, b) - uv.off
                           /\ Place(job, b) \in Nat /\ uv.off <= Place(job, b)
                           /\ Place(job, b) < End(job, l)
  BY <1>1, RankIsPlace, RunPlaces DEF RunBytes
<1> HIDE DEF asked
<1>5. n \in Nat /\ uv.off + n <= End(job, l) /\ uv.off + n \in Nat
  BY <1>1, <1>2, <1>3
<1>6. First(n) = {b \in RunBytes(job, f, l) : Place(job, b) < uv.off + n}
  BY <1>1, <1>4, <1>5 DEF First
<1>7. Cardinality(First(n)) = n
  <2>1. job.off[f] <= uv.off + n
    BY <1>1, <1>5
  <2> HIDE DEF f, l
  <2>2. Cardinality({b \in RunBytes(job, f, l) : Place(job, b) < uv.off + n}) = (uv.off + n) - job.off[f]
    BY <1>1, <1>5, <2>1, CountBelow
  <2> QED
    BY <1>1, <1>5, <1>6, <2>2
<1>8. \A b \in First(n) : /\ b \in Bytes(job) /\ Rank(b) = Place(job, b) - uv.off
                          /\ Place(job, b) \in uv.off .. (uv.off + n) - 1
                          /\ b[1] > pos /\ b[1] <= pos + batched
  BY <1>1, <1>4, <1>5, <1>6
<1>9. ASSUME NEW c \in uv.off .. (uv.off + n) - 1
      PROVE  \E b \in First(n) : Place(job, b) = c
  <2>1. c \in Nat /\ job.off[f] <= c /\ c < End(job, l) /\ c < uv.off + n
    BY <1>1, <1>2, <1>5
  <2> HIDE DEF f, l
  <2>2. PICK b \in RunBytes(job, f, l) : Place(job, b) = c
    BY <1>1, <2>1, RunHasNoGap
  <2> QED
    BY <1>6, <2>1, <2>2
<1>10. uv.off .. (uv.off + n) - 1 \subseteq 0 .. FileSize - 1
  <2>1. FileSize \in Nat
    BY BatchAssumption
  <2>2. n <= Available
    BY <1>3
  <2>3. n = 0 \/ uv.off + n <= FileSize
    BY <1>1, <1>3, <1>5, <2>1, <2>2
  <2>4. ASSUME NEW c \in uv.off .. (uv.off + n) - 1
        PROVE  c \in 0 .. FileSize - 1
    BY <1>1, <1>5, <2>1, <2>3
  <2> QED
    BY <2>4
<1>11. ASSUME n = Available, NEW b \in Requested, Place(job, b) < FileSize
       PROVE  b \in First(n)
  <2>1. FileSize \in Nat
    BY BatchAssumption
  <2>2. Place(job, b) \in Nat /\ uv.off <= Place(job, b) /\ Place(job, b) < End(job, l)
    BY <1>4, <1>11
  <2>3. n = asked \/ uv.off + n = FileSize \/ (n = 0 /\ uv.off >= FileSize)
    BY <1>3, <1>11
  <2>4. Place(job, b) < uv.off + n
    BY <1>1, <1>2, <1>5, <1>11, <2>1, <2>2, <2>3
  <2> QED
    BY <1>1, <1>6, <2>4
<1>12. First(n) \subseteq Requested
  BY DEF First
<1> QED
  BY <1>1, <1>5, <1>7, <1>8, <1>9, <1>10, <1>11, <1>12

-----------------------------------------------------------------------------
(* What the steps do to the bytes.                                         *)

LEMMA ThroughIsNat == Types => Through \in Nat
BY JobFacts DEF Types, Through

LEMMA FaultsAreNat == Types => faults \in Nat /\ MaxFaults \in Nat
BY BatchAssumption DEF Types

(* Where nothing has been the file is as it was.                           *)
LEMMA FileIsOldAhead ==
  ASSUME Types, Untouched, NEW b \in Bytes(job), b[1] > Through,
         Place(job, b) \in 0 .. FileSize - 1
  PROVE  file[Place(job, b)] = OldFile[Place(job, b)]
<1>1. Through \in Nat /\ b[1] \in Nat
  BY ThroughIsNat, ByteFacts, JobFacts DEF Types
<1>2. ASSUME file[Place(job, b)] # OldFile[Place(job, b)] PROVE FALSE
  <2>1. PICK d \in Bytes(job) : d[1] <= Through /\ Place(job, d) = Place(job, b)
    BY <1>2 DEF Untouched
  <2>2. d = b
    BY <2>1, PlacesDiffer DEF Types
  <2> QED
    BY <1>1, <2>1, <2>2
<1> QED
  BY <1>2

(* A step that moves nothing.                                              *)
LEMMA SameBytes ==
  ASSUME IInv, UNCHANGED <<op, job, memory, file>>,
         Through' \in Nat, Through <= Through',
         faults' = 0 => faults = 0 /\ Through' = Through
  PROVE  /\ Untouched' /\ NoMisplacedByte' /\ Filled'
         /\ BytesMoved' = BytesMoved /\ CellsMoved' = CellsMoved
<1>1. Through \in Nat /\ \A b \in Bytes(job) : b[1] \in Nat
  BY ThroughIsNat, ByteFacts, JobFacts DEF IInv, Types
<1>2. Untouched'
  <2>1. ASSUME NEW b \in Bytes(job), b[1] > Through'
        PROVE  memory[b] = OldMemory(job)[b]
    BY <1>1, <2>1 DEF IInv, Untouched
  <2>2. ASSUME NEW c \in 0 .. FileSize - 1, file[c] # OldFile[c]
        PROVE  \E b \in Bytes(job) : b[1] <= Through' /\ Place(job, b) = c
    BY <1>1, <2>2 DEF IInv, Untouched
  <2> QED
    BY <2>1, <2>2 DEF Untouched
<1>3. NoMisplacedByte'
  BY DEF IInv, NoMisplacedByte
<1>4. Filled'
  BY DEF IInv, Filled
<1>5. BytesMoved' = BytesMoved /\ CellsMoved' = CellsMoved
  BY DEF BytesMoved, CellsMoved
<1> QED
  BY <1>2, <1>3, <1>4, <1>5

(* The request in flight is for buffers nothing has come to.               *)
LEMMA InFlight ==
  ASSUME IInv, uv.call # "none", ~uv.done
  PROVE  /\ phase = "running" /\ Through = pos /\ pos \in Nat /\ batched \in Nat
         /\ uv.err = "OK"
BY DEF IInv, InPhase, Types, Idle, Through

LEMMA ReadMoves ==
  ASSUME IInv, uv.call # "none", ~uv.done, NEW n \in 0 .. Available, ReadInto(n),
         UNCHANGED <<op, job, file>>, Through' = pos + batched,
         faults' = 0 => faults = 0 /\ n = Available
  PROVE  /\ Untouched' /\ NoMisplacedByte' /\ Filled'
         /\ Cardinality(BytesMoved') = Cardinality(BytesMoved) + n
         /\ CellsMoved' = CellsMoved
<1>1. /\ Types /\ RequestIsNextRun /\ Untouched /\ job \in Jobs
      /\ Through = pos /\ pos \in Nat /\ batched \in Nat
  BY InFlight DEF IInv, Types
<1>2. /\ n \in Nat /\ uv.off \in Nat /\ First(n) \subseteq Requested
      /\ Cardinality(First(n)) = n
      /\ \A b \in First(n) : /\ b \in Bytes(job) /\ Rank(b) = Place(job, b) - uv.off
                             /\ Place(job, b) \in uv.off .. (uv.off + n) - 1
                             /\ b[1] > pos /\ b[1] <= pos + batched
      /\ uv.off .. (uv.off + n) - 1 \subseteq 0 .. FileSize - 1
      /\ n = Available => \A b \in Requested : Place(job, b) < FileSize => b \in First(n)
  BY <1>1, FirstFacts
<1>3. ASSUME NEW b \in First(n)
      PROVE  /\ file[uv.off + Rank(b)] = OldFile[Place(job, b)]
             /\ Place(job, b) \in 0 .. FileSize - 1
  <2>1. /\ b \in Bytes(job) /\ Place(job, b) \in 0 .. FileSize - 1 /\ b[1] > Through
        /\ Place(job, b) \in Int
    BY <1>1, <1>2
  <2>2. uv.off + Rank(b) = Place(job, b)
    BY <1>2, <2>1
  <2> QED
    BY <1>1, <2>1, <2>2, FileIsOldAhead
<1>4. \A b \in Bytes(job) :
        memory'[b] = IF b \in First(n) THEN OldFile[Place(job, b)] ELSE memory[b]
  BY <1>3 DEF ReadInto
<1>5. \A b \in First(n) : OldMemory(job)[b] = memory[b]
  BY <1>1, <1>2 DEF Untouched
<1>6. \A b \in Bytes(job) : b[1] \in Nat
  BY <1>1, ByteFacts, JobFacts
<1>7. Untouched'
  <2>1. ASSUME NEW b \in Bytes(job), b[1] > pos + batched
        PROVE  memory'[b] = OldMemory(job)[b]
    <3>1. b \notin First(n) /\ b[1] > pos
      BY <1>1, <1>2, <1>6, <2>1
    <3> QED
      BY <1>1, <1>4, <3>1 DEF Untouched
  <2>2. ASSUME NEW c \in 0 .. FileSize - 1, file[c] # OldFile[c]
        PROVE  \E b \in Bytes(job) : b[1] <= pos + batched /\ Place(job, b) = c
    <3>1. PICK b \in Bytes(job) : b[1] <= pos /\ Place(job, b) = c
      BY <1>1, <2>2 DEF Untouched
    <3> QED
      BY <1>1, <1>6, <3>1
  <2> QED
    BY <2>1, <2>2 DEF Untouched
<1>8. NoMisplacedByte'
  <2>1. ASSUME NEW b \in Bytes(job)
        PROVE  memory'[b] \in {OldMemory(job)[b]} \cup
                              {OldFile[c] : c \in {Place(job, b)} \cap DOMAIN file}
    <3>1. CASE b \in First(n)
      <4>1. Place(job, b) \in DOMAIN file
        BY <1>1, <1>3, <3>1 DEF Types
      <4> QED
        BY <1>4, <3>1, <4>1
    <3>2. CASE b \notin First(n)
      BY <1>4, <3>2 DEF IInv, NoMisplacedByte
    <3> QED
      BY <3>1, <3>2
  <2> QED
    BY <2>1 DEF IInv, NoMisplacedByte
<1>9. Filled'
  <2> SUFFICES ASSUME op = "read", faults' = 0, NEW b \in Bytes(job), b[1] <= pos + batched
               PROVE  memory'[b] = IF Place(job, b) < FileSize
                                   THEN OldFile[Place(job, b)] ELSE OldMemory(job)[b]
    BY DEF Filled
  <2>1. CASE b[1] <= pos
    <3>1. b \notin First(n)
      BY <1>1, <1>2, <1>6, <2>1
    <3> QED
      BY <1>1, <1>4, <2>1, <3>1 DEF IInv, Filled
  <2>2. CASE b[1] > pos
    <3>1. b \in Requested
      <4>1. Requested = RunBytes(job, pos + 1, pos + batched)
        BY <1>1, RequestFacts
      <4> QED
        BY <1>1, <1>6, <2>2, <4>1 DEF RunBytes
    <3>2. CASE Place(job, b) < FileSize
      BY <1>2, <1>4, <3>1, <3>2
    <3>3. CASE ~(Place(job, b) < FileSize)
      <4>1. b \notin First(n)
        <5>1. ASSUME Place(job, b) \in 0 .. FileSize - 1 PROVE FALSE
          BY <3>3, <5>1, BatchAssumption
        <5> QED
          BY <1>3, <5>1
      <4> QED
        BY <1>1, <1>4, <2>2, <3>3, <4>1 DEF Untouched
    <3> QED
      BY <3>2, <3>3
  <2> QED
    BY <1>1, <1>6, <2>1, <2>2
<1>10. Cardinality(BytesMoved') = Cardinality(BytesMoved) + n
  <2>1. BytesMoved' = BytesMoved \cup First(n)
    <3>1. \A b \in First(n) : OldMemory(job)[b] # OldFile[Place(job, b)]
      BY <1>1, <1>2, <1>3, OldValues
    <3> QED
      BY <1>2, <1>4, <1>5, <3>1 DEF BytesMoved
  <2>2. BytesMoved \cap First(n) = {}
    BY <1>5 DEF BytesMoved
  <2>3. IsFiniteSet(BytesMoved) /\ Cardinality(BytesMoved) \in Nat
    BY <1>1, MovedAreFinite
  <2>4. IsFiniteSet(First(n))
    <3>1. IsFiniteSet(Bytes(job)) /\ First(n) \subseteq Bytes(job)
      BY <1>1, <1>2, BytesAreFinite
    <3> QED
      BY <3>1, FS_Subset
  <2>5. Cardinality(BytesMoved \cup First(n)) =
          Cardinality(BytesMoved) + Cardinality(First(n)) - Cardinality(BytesMoved \cap First(n))
    BY <2>3, <2>4, FS_Union
  <2>6. Cardinality(BytesMoved \cap First(n)) = 0
    BY <2>2, FS_EmptySet
  <2> QED
    BY <1>2, <2>1, <2>3, <2>5, <2>6
<1>11. CellsMoved' = CellsMoved
  BY DEF CellsMoved
<1> QED
  BY <1>7, <1>8, <1>9, <1>10, <1>11

LEMMA WriteMoves ==
  ASSUME IInv, uv.call = "write", ~uv.done, NEW n \in 0 .. Available, WriteFrom(n),
         UNCHANGED <<op, job, memory>>, Through' = pos + batched
  PROVE  /\ Untouched' /\ NoMisplacedByte' /\ Filled' /\ DOMAIN file' = 0 .. FileSize - 1
         /\ Cardinality(CellsMoved') = Cardinality(CellsMoved) + n
         /\ BytesMoved' = BytesMoved
<1> DEFINE T == uv.off .. (uv.off + n) - 1
<1>1. /\ Types /\ RequestIsNextRun /\ Untouched /\ job \in Jobs
      /\ Through = pos /\ pos \in Nat /\ batched \in Nat
  BY InFlight DEF IInv, Types
<1>2. /\ n \in Nat /\ uv.off \in Nat
      /\ \A b \in First(n) : /\ b \in Bytes(job) /\ Rank(b) = Place(job, b) - uv.off
                             /\ Place(job, b) \in T
                             /\ b[1] > pos /\ b[1] <= pos + batched
      /\ \A c \in T : \E b \in First(n) : Place(job, b) = c
      /\ T \subseteq 0 .. FileSize - 1
  BY <1>1, FirstFacts
<1>3. \A b \in First(n) : uv.off + Rank(b) = Place(job, b)
  <2> SUFFICES ASSUME NEW b \in First(n) PROVE uv.off + Rank(b) = Place(job, b)
    OBVIOUS
  <2>1. Place(job, b) \in Int /\ Rank(b) = Place(job, b) - uv.off
    BY <1>2
  <2> QED
    BY <1>2, <2>1
<1> HIDE DEF T
<1>4. ASSUME NEW c \in 0 .. FileSize - 1
      PROVE  /\ c \in T => \E b \in First(n) : Place(job, b) = c /\ file'[c] = OldMemory(job)[b]
             /\ c \notin T => file'[c] = file[c]
  <2>1. file'[c] = IF \E b \in First(n) : uv.off + Rank(b) = c
                   THEN memory[CHOOSE b \in First(n) : uv.off + Rank(b) = c]
                   ELSE file[c]
    BY DEF WriteFrom
  <2>2. ASSUME c \in T
        PROVE  \E b \in First(n) : Place(job, b) = c /\ file'[c] = OldMemory(job)[b]
    <3>1. \E b \in First(n) : uv.off + Rank(b) = c
      BY <1>2, <1>3, <2>2
    <3> DEFINE b == CHOOSE d \in First(n) : uv.off + Rank(d) = c
    <3>2. b \in First(n) /\ uv.off + Rank(b) = c
      BY <3>1
    <3>3. file'[c] = memory[b]
      BY <2>1, <3>1
    <3> HIDE DEF b
    <3>4. Place(job, b) = c /\ memory[b] = OldMemory(job)[b]
      BY <1>1, <1>2, <1>3, <3>2 DEF Untouched
    <3> QED
      BY <3>2, <3>3, <3>4
  <2>3. ASSUME c \notin T
        PROVE  file'[c] = file[c]
    <3>1. ~ \E b \in First(n) : uv.off + Rank(b) = c
      BY <1>2, <1>3, <2>3
    <3> QED
      BY <2>1, <3>1
  <2> QED
    BY <2>2, <2>3
<1>5. DOMAIN file' = 0 .. FileSize - 1
  BY DEF WriteFrom
<1>6. \A b \in Bytes(job) : b[1] \in Nat
  BY <1>1, ByteFacts, JobFacts
<1>7. Untouched'
  <2>1. ASSUME NEW b \in Bytes(job), b[1] > pos + batched
        PROVE  memory[b] = OldMemory(job)[b]
    BY <1>1, <1>6, <2>1 DEF Untouched
  <2>2. ASSUME NEW c \in 0 .. FileSize - 1, file'[c] # OldFile[c]
        PROVE  \E b \in Bytes(job) : b[1] <= pos + batched /\ Place(job, b) = c
    <3>1. CASE c \in T
      BY <1>2, <1>4, <3>1
    <3>2. CASE c \notin T
      <4>1. PICK b \in Bytes(job) : b[1] <= pos /\ Place(job, b) = c
        BY <1>1, <1>4, <2>2, <3>2 DEF Untouched
      <4> QED
        BY <1>1, <1>6, <4>1
    <3> QED
      BY <3>1, <3>2
  <2> QED
    BY <2>1, <2>2 DEF Untouched
<1>8. NoMisplacedByte'
  <2>1. ASSUME NEW c \in 0 .. FileSize - 1
        PROVE  file'[c] \in {OldFile[c]} \cup
                            {OldMemory(job)[b] : b \in {d \in Bytes(job) : Place(job, d) = c}}
    <3>1. CASE c \in T
      BY <1>2, <1>4, <3>1
    <3>2. CASE c \notin T
      <4>1. c \in DOMAIN file /\ file'[c] = file[c]
        BY <1>1, <1>4, <3>2 DEF Types
      <4> QED
        BY <4>1 DEF IInv, NoMisplacedByte
    <3> QED
      BY <3>1, <3>2
  <2>2. DOMAIN file = DOMAIN file'
    BY <1>1, <1>5 DEF Types
  <2> QED
    BY <1>5, <2>1, <2>2 DEF IInv, NoMisplacedByte
<1>9. Filled'
  BY DEF IInv, InPhase, Filled
<1>10. Cardinality(CellsMoved') = Cardinality(CellsMoved) + n
  <2>1. \A c \in T : file[c] = OldFile[c]
    <3> SUFFICES ASSUME NEW c \in T PROVE file[c] = OldFile[c]
      OBVIOUS
    <3>1. PICK b \in First(n) : Place(job, b) = c
      BY <1>2
    <3> QED
      BY <1>1, <1>2, <3>1, FileIsOldAhead
  <2>2. CellsMoved' = CellsMoved \cup T
    <3>1. \A c \in T : file'[c] # OldFile[c]
      BY <1>1, <1>2, <1>4, OldValues
    <3> QED
      BY <1>1, <1>2, <1>4, <1>5, <3>1 DEF CellsMoved, Types
  <2>3. CellsMoved \cap T = {}
    BY <2>1 DEF CellsMoved
  <2>4. IsFiniteSet(CellsMoved) /\ Cardinality(CellsMoved) \in Nat
    BY <1>1, MovedAreFinite
  <2>5. IsFiniteSet(T) /\ Cardinality(T) = n
    <3>1. uv.off \in Int /\ (uv.off + n) - 1 \in Int
      BY <1>2
    <3>2. /\ IsFiniteSet(T)
          /\ Cardinality(T) = IF uv.off > (uv.off + n) - 1 THEN 0
                              ELSE ((uv.off + n) - 1) - uv.off + 1
      BY <3>1, FS_Interval DEF T
    <3> QED
      BY <1>2, <3>2
  <2>6. Cardinality(CellsMoved \cup T) =
          Cardinality(CellsMoved) + Cardinality(T) - Cardinality(CellsMoved \cap T)
    BY <2>4, <2>5, FS_Union
  <2>7. Cardinality(CellsMoved \cap T) = 0
    BY <2>3, FS_EmptySet
  <2> QED
    BY <1>2, <2>2, <2>4, <2>5, <2>6, <2>7
<1>11. BytesMoved' = BytesMoved
  BY DEF BytesMoved
<1> QED
  BY <1>5, <1>7, <1>8, <1>9, <1>10, <1>11

-----------------------------------------------------------------------------
(* The steps.                                                              *)

LEMMA IdleIsRequest == Idle \in Request /\ Idle.call = "none" /\ ~Idle.done
                       /\ Idle.err = "OK" /\ Idle.n = 0
BY DEF Idle, Request, Err

LEMMA SubmitFacts ==
  ASSUME NEW call \in {"read", "write"}, NEW first \in Nat, NEW count \in Nat, NEW off \in Nat,
         NEW u, u = Submit(call, first, count, off)
  PROVE  /\ u \in Request /\ u.call = call /\ u.first = first /\ u.count = count /\ u.off = off
         /\ ~u.done /\ u.err = "OK" /\ u.n = 0
BY DEF Submit, Idle, Request, Err

(* The request for the next run covers the next run.                       *)
LEMMA NextRunIsIt ==
  ASSUME NEW j \in Jobs, NEW p \in Nat, NEW r \in Nat, r > 0, p + r = Bufs(j),
         NEW n, n = ContiguousBufs(j, p, r)
  PROVE  /\ n \in 1 .. r /\ p + 1 \in 1 .. Bufs(j)
         /\ \A i \in 1 .. n - 1 : j.off[p + i] + j.len[p + i] = j.off[p + i + 1]
         /\ n < r => j.off[p + n] + j.len[p + n] # j.off[p + n + 1]
<1>1. /\ n \in 1 .. r
      /\ \A i \in 1 .. n - 1 : Adjacent(j, p + i)
      /\ n < r => ~Adjacent(j, p + n)
  BY ContiguousFacts
<1>2. p + 1 \in 1 .. Bufs(j)
  OBVIOUS
<1> QED
  BY <1>1, <1>2 DEF Adjacent

(* The bytes that moved are counted.                                       *)
Counted(l, u, answers, moved) ==
  /\ l + (IF u.done THEN u.n ELSE 0) = moved
  /\ \A i \in DOMAIN answers : answers[i].status = "OK" => answers[i].len = moved

Moved == Cardinality(BytesMoved) + Cardinality(CellsMoved)

LEMMA Counting ==
  /\ LenCountsBytes <=> Counted(len, uv, replies, Moved)
  /\ LenCountsBytes' <=> Counted(len', uv', replies', Moved')
BY DEF LenCountsBytes, Counted, Moved, BytesMoved, CellsMoved

LEMMA CallKeeps ==
  ASSUME IInv, Call
  PROVE  IInv'
<1>1. /\ phase = "idle" /\ UNCHANGED <<op, job, pos, len, memory, file, replies>>
      /\ uv = Idle /\ len = 0 /\ pos = 0 /\ replies = << >> /\ Through = 0
      /\ job \in Jobs /\ Bufs(job) \in Nat /\ op \in {"read", "write"}
  BY JobFacts DEF Call, IInv, InPhase, Types, Through
<1>2. faults \in Nat /\ MaxFaults \in Nat
  BY FaultsAreNat DEF IInv
<1>3. faults' \in 0 .. MaxFaults /\ (faults' = 0 => faults = 0)
  BY <1>2 DEF Call, IInv, Types
<1>4. ASSUME phase' = "refused", uv' = uv, remaining' \in Nat, batched' \in Nat
      PROVE  IInv'
  <2>1. Types'
    BY <1>1, <1>3, <1>4 DEF IInv, Types
  <2>2. InPhase' /\ RequestIsNextRun' /\ NotYet' /\ SuccessIsFinal'
    BY <1>1, <1>4, IdleIsRequest DEF InPhase, RequestIsNextRun, NotYet, SuccessIsFinal, Err
  <2>3. Through' = 0
    BY <1>4 DEF Through
  <2>4. /\ Untouched' /\ NoMisplacedByte' /\ Filled'
        /\ BytesMoved' = BytesMoved /\ CellsMoved' = CellsMoved
    BY <1>1, <1>3, <2>3, SameBytes
  <2>5. LenCountsBytes'
    BY <1>1, <1>4, <2>4, Counting DEF IInv, Moved
  <2> QED
    BY <2>1, <2>2, <2>4, <2>5 DEF IInv
<1>5. CASE Bufs(job) < 1
  BY <1>1, <1>4, <1>5 DEF Call, IInv, Types
<1>6. CASE Bufs(job) >= 1
  <2> DEFINE n == ContiguousBufs(job, 0, Bufs(job))
  <2>1. /\ n \in 1 .. Bufs(job) /\ 1 \in 1 .. Bufs(job)
        /\ \A i \in 1 .. n - 1 : job.off[0 + i] + job.len[0 + i] = job.off[0 + i + 1]
        /\ n < Bufs(job) => job.off[0 + n] + job.len[0 + n] # job.off[0 + n + 1]
    <3>1. PICK p \in Nat : p = 0
      OBVIOUS
    <3>2. PICK r \in Nat : r = Bufs(job)
      BY <1>1
    <3>3. r > 0 /\ p + r = Bufs(job) /\ n = ContiguousBufs(job, p, r)
      BY <1>1, <1>6, <3>1, <3>2
    <3> HIDE DEF n
    <3>4. /\ n \in 1 .. r /\ p + 1 \in 1 .. Bufs(job)
          /\ \A i \in 1 .. n - 1 : job.off[p + i] + job.len[p + i] = job.off[p + i + 1]
          /\ n < r => job.off[p + n] + job.len[p + n] # job.off[p + n + 1]
      BY <1>1, <3>3, NextRunIsIt
    <3> QED
      BY <3>1, <3>2, <3>4
  <2>2. remaining' = Bufs(job) /\ batched' = n
    BY <1>1, <1>6 DEF Call
  <2> HIDE DEF n
  <2>3. n \in Nat /\ job.off[1] \in Nat
    BY <1>1, <2>1, JobFacts
  <2>4. CASE phase' = "running" /\ uv' = Submit(op, 1, n, job.off[1])
    <3>1. /\ uv' \in Request /\ uv'.call = op /\ uv'.first = 1 /\ uv'.count = n
          /\ uv'.off = job.off[1] /\ ~uv'.done /\ uv'.err = "OK" /\ uv'.n = 0
      <4>1. PICK o \in {"read", "write"} : o = op
        BY <1>1
      <4>2. PICK first \in Nat : first = 1
        OBVIOUS
      <4>3. PICK off \in Nat : off = job.off[1]
        BY <2>3
      <4>4. PICK count \in Nat : count = n
        BY <2>3
      <4>5. PICK u : u = uv'
        OBVIOUS
      <4>6. u = Submit(o, first, count, off)
        BY <2>4, <4>1, <4>2, <4>3, <4>4, <4>5
      <4>7. /\ u \in Request /\ u.call = o /\ u.first = first /\ u.count = count /\ u.off = off
            /\ ~u.done /\ u.err = "OK" /\ u.n = 0
        BY <4>6, SubmitFacts
      <4> QED
        BY <4>1, <4>2, <4>3, <4>4, <4>5, <4>7
    <3>2. Types'
      BY <1>1, <1>3, <2>2, <2>3, <2>4, <3>1 DEF IInv, Types
    <3>3. InPhase'
      BY <1>1, <2>4, <3>1 DEF InPhase
    <3>4. RequestIsNextRun'
      BY <1>1, <2>1, <2>2, <3>1 DEF RequestIsNextRun
    <3>5. Through' = 0
      BY <1>1, <2>4, <3>1 DEF Through
    <3>6. /\ Untouched' /\ NoMisplacedByte' /\ Filled'
          /\ BytesMoved' = BytesMoved /\ CellsMoved' = CellsMoved
      BY <1>1, <1>3, <3>5, SameBytes
    <3>7. LenCountsBytes'
      <4>1. len + 0 = Moved /\ Moved' = Moved
        BY <1>1, <3>6, Counting, IdleIsRequest DEF IInv, Counted, Moved
      <4>2. Counted(len', uv', replies', Moved')
        BY <1>1, <3>1, <4>1 DEF Counted
      <4> QED
        BY <4>2, Counting
    <3>8. NotYet' /\ SuccessIsFinal'
      BY <1>1 DEF NotYet, SuccessIsFinal
    <3> QED
      BY <3>2, <3>3, <3>4, <3>6, <3>7, <3>8 DEF IInv
  <2>5. CASE phase' = "refused" /\ uv' = uv
    BY <1>1, <1>4, <2>2, <2>3, <2>5
  <2>6. \/ phase' = "running" /\ uv' = Submit(op, 1, n, job.off[1])
        \/ phase' = "refused" /\ uv' = uv
    BY <1>1, <1>6, <2>2 DEF Call
  <2> QED
    BY <2>4, <2>5, <2>6
<1> QED
  BY <1>1, <1>5, <1>6

LEMMA WorkKeeps ==
  ASSUME IInv, Work
  PROVE  IInv'
<1>1. /\ uv.call # "none" /\ ~uv.done
      /\ UNCHANGED <<op, job, phase, pos, remaining, batched, len, replies>>
      /\ phase = "running" /\ Through = pos /\ pos \in Nat /\ batched \in Nat /\ uv.err = "OK"
      /\ uv \in Request
  BY InFlight DEF Work, IInv, Types
<1>2. faults \in Nat /\ MaxFaults \in Nat
  BY FaultsAreNat DEF IInv
<1>3. \A i \in DOMAIN replies : replies[i].status # "OK"
  BY <1>1 DEF IInv, NotYet
<1>4. len \in Nat /\ len = Moved
  BY <1>1, Counting DEF IInv, Types, Counted
<1>5. ASSUME uv' \in Request, uv'.done,
             uv'.call = uv.call, uv'.first = uv.first, uv'.count = uv.count, uv'.off = uv.off,
             uv'.err # "OK" => uv'.n = 0 /\ faults' # 0,
             faults' \in 0 .. MaxFaults, faults' = 0 => faults = 0,
             DOMAIN memory' = Bytes(job), DOMAIN file' = 0 .. FileSize - 1,
             Untouched' /\ NoMisplacedByte' /\ Filled',
             Moved' = Moved + uv'.n
      PROVE  IInv'
  <2>1. Types'
    BY <1>1, <1>5 DEF IInv, Types
  <2>2. InPhase' /\ RequestIsNextRun'
    BY <1>1, <1>5 DEF IInv, InPhase, RequestIsNextRun
  <2>3. NotYet' /\ SuccessIsFinal'
    BY <1>1, <1>3, <1>5 DEF IInv, NotYet, SuccessIsFinal
  <2>4. LenCountsBytes'
    <3>1. Counted(len', uv', replies', Moved')
      BY <1>1, <1>3, <1>4, <1>5 DEF Counted
    <3> QED
      BY <3>1, Counting
  <2> QED
    BY <1>5, <2>1, <2>2, <2>3, <2>4 DEF IInv
<1>6. ASSUME uv' = [uv EXCEPT !.done = TRUE, !.err = "EIO"], faults' = faults + 1,
             faults < MaxFaults, UNCHANGED <<memory, file>>
      PROVE  IInv'
  <2>1. /\ uv' \in Request /\ uv'.done /\ uv'.call = uv.call /\ uv'.first = uv.first
        /\ uv'.count = uv.count /\ uv'.off = uv.off /\ uv'.n = uv.n /\ uv'.err = "EIO"
    BY <1>1, <1>6 DEF Request, Err
  <2>2. uv.n = 0
    BY <1>1 DEF IInv, InPhase
  <2>3. Through' = pos + batched
    BY <1>1, <2>1 DEF Through
  <2>4. /\ Untouched' /\ NoMisplacedByte' /\ Filled'
        /\ BytesMoved' = BytesMoved /\ CellsMoved' = CellsMoved
    BY <1>1, <1>2, <1>6, <2>3, SameBytes
  <2>5. faults' \in 0 .. MaxFaults /\ faults' # 0
    BY <1>2, <1>6
  <2>6. DOMAIN memory' = Bytes(job) /\ DOMAIN file' = 0 .. FileSize - 1
    BY <1>6 DEF IInv, Types
  <2>7. Moved' = Moved + uv'.n
    BY <1>4, <2>1, <2>2, <2>4 DEF Moved
  <2> QED
    BY <1>5, <2>1, <2>2, <2>4, <2>5, <2>6, <2>7
<1>7. ASSUME NEW n \in 0 .. Available,
             n = Available \/ faults < MaxFaults,
             faults' = IF n = Available THEN faults ELSE faults + 1,
             uv' = [uv EXCEPT !.done = TRUE, !.n = n],
             IF uv.call = "read" THEN ReadInto(n) /\ UNCHANGED file
                                 ELSE WriteFrom(n) /\ UNCHANGED memory
      PROVE  IInv'
  <2>1. n \in Nat
    BY <1>1, FirstFacts DEF IInv
  <2>2. /\ uv' \in Request /\ uv'.done /\ uv'.call = uv.call /\ uv'.first = uv.first
        /\ uv'.count = uv.count /\ uv'.off = uv.off /\ uv'.n = n /\ uv'.err = "OK"
    BY <1>1, <1>7, <2>1 DEF Request
  <2>3. faults' \in 0 .. MaxFaults /\ (faults' = 0 => faults = 0 /\ n = Available)
    BY <1>2, <1>7 DEF IInv, Types
  <2>4. Through' = pos + batched
    BY <1>1, <2>2 DEF Through
  <2>5. /\ Cardinality(BytesMoved) \in Nat /\ Cardinality(CellsMoved) \in Nat
        /\ DOMAIN memory = Bytes(job) /\ DOMAIN file = 0 .. FileSize - 1
    BY MovedAreFinite DEF IInv, Types
  <2>6. CASE uv.call = "read"
    <3>1. /\ Untouched' /\ NoMisplacedByte' /\ Filled'
          /\ Cardinality(BytesMoved') = Cardinality(BytesMoved) + n
          /\ CellsMoved' = CellsMoved
      BY <1>1, <1>7, <2>3, <2>4, <2>6, ReadMoves
    <3>2. DOMAIN memory' = Bytes(job) /\ DOMAIN file' = 0 .. FileSize - 1
      BY <1>7, <2>5, <2>6 DEF ReadInto
    <3>3. Moved' = Moved + n
      BY <2>1, <2>5, <3>1 DEF Moved
    <3> QED
      BY <1>5, <2>2, <2>3, <3>1, <3>2, <3>3
  <2>7. CASE uv.call # "read"
    <3>1. uv.call = "write"
      BY <1>1, <2>7 DEF Request
    <3>2. /\ Untouched' /\ NoMisplacedByte' /\ Filled' /\ DOMAIN file' = 0 .. FileSize - 1
          /\ Cardinality(CellsMoved') = Cardinality(CellsMoved) + n
          /\ BytesMoved' = BytesMoved
      BY <1>1, <1>7, <2>4, <2>7, <3>1, WriteMoves
    <3>3. DOMAIN memory' = Bytes(job)
      BY <1>7, <2>5, <2>7
    <3>4. Moved' = Moved + n
      BY <2>1, <2>5, <3>2 DEF Moved
    <3> QED
      BY <1>5, <2>2, <2>3, <3>2, <3>3, <3>4
  <2> QED
    BY <2>6, <2>7
<1> QED
  BY <1>6, <1>7 DEF Work

(* What the callback is told.                                              *)
Reports == [status : Err, len : Nat]

LEMMA ReplyFacts ==
  ASSUME IInv, uv.call # "none", uv.done, NEW rest \in Nat
  PROVE  LET new == replies \o Reply(uv.err, uv.n, rest)
         IN /\ new \in Seq(Reports)
            /\ \A i \in DOMAIN new : new[i].status = "OK" =>
                 /\ i = Len(new) /\ rest = 0 /\ uv.err = "OK" /\ new[i].len = len + uv.n
            /\ faults = 0 => Len(new) <= 1
            /\ rest # 0 => \A i \in DOMAIN new : new[i].status # "OK"
            /\ rest # 0 /\ faults = 0 => new = << >>
<1> DEFINE ok  == [status |-> "OK", len |-> len + uv.n]
           bad == [status |-> uv.err, len |-> 0]
<1>1. /\ replies \in Seq(Reports) /\ len + uv.n \in Nat /\ uv.err \in Err
      /\ \A i \in DOMAIN replies : replies[i].status # "OK"
      /\ faults = 0 => replies = << >> /\ uv.err = "OK"
  BY DEF IInv, Types, Request, NotYet, InPhase, Reports
<1>2. ok \in Reports /\ bad \in Reports
  BY <1>1 DEF Reports, Err
<1>3. ok.status = "OK" /\ ok.len = len + uv.n /\ bad.status = uv.err
  OBVIOUS
<1> HIDE DEF ok, bad
<1>4. \A x : x \in Reports =>
        /\ replies \o <<x>> \in Seq(Reports) /\ Len(replies \o <<x>>) = Len(replies) + 1
        /\ DOMAIN (replies \o <<x>>) = 1 .. Len(replies) + 1
        /\ \A i \in 1 .. Len(replies) : (replies \o <<x>>)[i] = replies[i]
        /\ (replies \o <<x>>)[Len(replies) + 1] = x
  BY <1>1
<1>5. replies \o << >> = replies /\ Len(replies) \in Nat /\ DOMAIN replies = 1 .. Len(replies)
  BY <1>1
<1>6. CASE uv.err # "OK"
  <2>1. Reply(uv.err, uv.n, rest) = <<bad>> /\ faults # 0
    BY <1>1, <1>6 DEF Reply, bad
  <2>2. \A i \in DOMAIN (replies \o <<bad>>) : (replies \o <<bad>>)[i].status # "OK"
    BY <1>1, <1>2, <1>3, <1>4, <1>5, <1>6
  <2> QED
    BY <1>2, <1>4, <2>1, <2>2
<1>7. CASE uv.err = "OK" /\ rest = 0
  <2>1. Reply(uv.err, uv.n, rest) = <<ok>>
    BY <1>7 DEF Reply, ok
  <2>2. \A i \in DOMAIN (replies \o <<ok>>) : (replies \o <<ok>>)[i].status = "OK" =>
          i = Len(replies \o <<ok>>) /\ (replies \o <<ok>>)[i].len = len + uv.n
    BY <1>1, <1>2, <1>3, <1>4, <1>5
  <2>3. faults = 0 => Len(replies \o <<ok>>) <= 1
    BY <1>1, <1>2, <1>4
  <2> QED
    BY <1>2, <1>4, <1>7, <2>1, <2>2, <2>3
<1>8. CASE uv.err = "OK" /\ rest # 0
  <2>1. Reply(uv.err, uv.n, rest) = << >>
    BY <1>8 DEF Reply
  <2>2. faults = 0 => Len(replies) <= 1
    BY <1>1
  <2> QED
    BY <1>1, <1>5, <1>8, <2>1, <2>2
<1> QED
  BY <1>6, <1>7, <1>8

LEMMA OnBatchKeeps ==
  ASSUME IInv, OnBatch
  PROVE  IInv'
<1> DEFINE new == replies \o Reply(uv.err, uv.n, remaining')
<1>1. /\ uv.call # "none" /\ uv.done /\ uv \in Request /\ phase = "running"
      /\ UNCHANGED <<op, job, phase, memory, file>>
      /\ remaining' = remaining - batched /\ len' = Total(uv.err, uv.n)
      /\ pos \in Nat /\ remaining \in Nat /\ batched \in 1 .. remaining
      /\ pos + remaining = Bufs(job) /\ Through = pos + batched /\ job \in Jobs /\ len \in Nat
  BY DEF OnBatch, Left, IInv, InPhase, Types, Idle, RequestIsNextRun, Through
<1>2. remaining' \in Nat /\ Bufs(job) \in Nat /\ Through \in Nat
  BY <1>1
<1>3. faults \in Nat /\ MaxFaults \in Nat
  BY FaultsAreNat DEF IInv
<1>4. faults' \in 0 .. MaxFaults /\ (faults' = 0 => faults = 0)
  BY <1>3 DEF OnBatch, IInv, Types
<1>5. /\ len' = len + uv.n /\ len' \in Nat /\ uv.n \in Nat
  BY <1>1 DEF Total, IInv, InPhase, Request
<1>6. len + uv.n = Moved
  BY <1>1, Counting DEF IInv, Counted
<1>7. /\ new \in Seq(Reports)
      /\ \A i \in DOMAIN new : new[i].status = "OK" =>
           /\ i = Len(new) /\ remaining' = 0 /\ uv.err = "OK" /\ new[i].len = len + uv.n
      /\ faults = 0 => Len(new) <= 1
      /\ remaining' # 0 => \A i \in DOMAIN new : new[i].status # "OK"
      /\ remaining' # 0 /\ faults = 0 => new = << >>
  BY <1>1, <1>2, ReplyFacts
<1> HIDE DEF new
(* The facts of the new state that the three outcomes share.               *)
<1>8. ASSUME Through' \in Nat, Through <= Through', faults' = 0 => Through' = Through,
             uv' \in Request, ~uv'.done, uv'.err = "OK", uv'.n = 0,
             uv'.call = "none" => uv' = Idle, op = "read" => uv'.call # "write",
             pos' \in Nat, batched' \in Nat, RequestIsNextRun', NotYet', SuccessIsFinal',
             replies' \in Seq(Reports),
             \A i \in DOMAIN replies' : replies'[i].status = "OK" => replies'[i].len = Moved
      PROVE  IInv'
  <2>1. Types'
    BY <1>1, <1>2, <1>4, <1>5, <1>8 DEF IInv, Types, Reports
  <2>2. InPhase'
    BY <1>1, <1>8 DEF InPhase
  <2>3. /\ Untouched' /\ NoMisplacedByte' /\ Filled'
        /\ BytesMoved' = BytesMoved /\ CellsMoved' = CellsMoved
    BY <1>1, <1>4, <1>8, SameBytes
  <2>4. LenCountsBytes'
    <3>1. Moved' = Moved
      BY <2>3 DEF Moved
    <3>2. Counted(len', uv', replies', Moved')
      BY <1>5, <1>6, <1>8, <3>1 DEF Counted
    <3> QED
      BY <3>2, Counting
  <2> QED
    BY <1>8, <2>1, <2>2, <2>3, <2>4 DEF IInv
<1>9. CASE remaining' = 0 /\ replies' = new /\ uv' = Idle /\ UNCHANGED <<pos, batched, faults>>
  <2>1. Through' = Through
    BY <1>1, <1>9, IdleIsRequest DEF Through
  <2>2. RequestIsNextRun' /\ NotYet'
    BY <1>9, IdleIsRequest DEF RequestIsNextRun, NotYet
  <2>3. SuccessIsFinal'
    BY <1>7, <1>9, IdleIsRequest DEF SuccessIsFinal
  <2> QED
    BY <1>1, <1>2, <1>6, <1>7, <1>8, <1>9, <2>1, <2>2, <2>3, IdleIsRequest
<1>10. ASSUME remaining' # 0, pos' = pos + batched,
              batched' = ContiguousBufs(job, pos', remaining')
       PROVE  /\ pos' \in Nat /\ pos' + remaining' = Bufs(job)
              /\ batched' \in 1 .. remaining' /\ pos' + 1 \in 1 .. Bufs(job) /\ batched' \in Nat
              /\ \A i \in 1 .. batched' - 1 :
                   job.off[pos' + i] + job.len[pos' + i] = job.off[pos' + i + 1]
              /\ batched' < remaining' =>
                   job.off[pos' + batched'] + job.len[pos' + batched'] # job.off[pos' + batched' + 1]
  <2>1. pos' \in Nat /\ pos' + remaining' = Bufs(job) /\ remaining' > 0
    BY <1>1, <1>2, <1>10
  <2>2. /\ batched' \in 1 .. remaining' /\ pos' + 1 \in 1 .. Bufs(job)
        /\ \A i \in 1 .. batched' - 1 :
             job.off[pos' + i] + job.len[pos' + i] = job.off[pos' + i + 1]
        /\ batched' < remaining' =>
             job.off[pos' + batched'] + job.len[pos' + batched'] # job.off[pos' + batched' + 1]
    <3>1. PICK p \in Nat : p = pos'
      BY <2>1
    <3>2. PICK r \in Nat : r = remaining'
      BY <1>2
    <3>3. PICK n : n = batched'
      OBVIOUS
    <3>4. PICK j \in Jobs : j = job' /\ j = job
      BY <1>1
    <3>5. n = ContiguousBufs(j, p, r)
      BY <1>10, <3>1, <3>2, <3>3, <3>4
    <3>6. r > 0 /\ p + r = Bufs(j)
      BY <2>1, <3>1, <3>2, <3>4
    <3>7. /\ n \in 1 .. r /\ p + 1 \in 1 .. Bufs(j)
          /\ \A i \in 1 .. n - 1 : j.off[p + i] + j.len[p + i] = j.off[p + i + 1]
          /\ n < r => j.off[p + n] + j.len[p + n] # j.off[p + n + 1]
      BY <3>5, <3>6, NextRunIsIt
    <3> QED
      BY <3>1, <3>2, <3>3, <3>4, <3>7
  <2>3. batched' \in Nat
    BY <1>2, <2>2
  <2> QED
    BY <2>1, <2>2, <2>3
<1>11. CASE /\ remaining' # 0 /\ pos' = pos + batched
            /\ batched' = ContiguousBufs(job, pos', remaining')
            /\ uv' = NextRun(pos', batched') /\ replies' = new /\ UNCHANGED faults
  <2>1. /\ pos' \in Nat /\ pos' + remaining' = Bufs(job)
        /\ batched' \in 1 .. remaining' /\ pos' + 1 \in 1 .. Bufs(job) /\ batched' \in Nat
        /\ \A i \in 1 .. batched' - 1 :
             job.off[pos' + i] + job.len[pos' + i] = job.off[pos' + i + 1]
        /\ batched' < remaining' =>
             job.off[pos' + batched'] + job.len[pos' + batched'] # job.off[pos' + batched' + 1]
    BY <1>10, <1>11
  <2>2. /\ uv' \in Request /\ uv'.call = "read" /\ uv'.first = pos' + 1 /\ uv'.count = batched'
        /\ uv'.off = job.off[pos' + 1] /\ ~uv'.done /\ uv'.err = "OK" /\ uv'.n = 0
    <3>1. PICK first \in 1 .. Bufs(job) : first = pos' + 1
      BY <2>1
    <3>2. first \in Nat /\ job.off[first] \in Nat
      BY <1>1, <3>1, JobFacts
    <3>3. PICK off \in Nat : off = job.off[first]
      BY <3>2
    <3>4. PICK count \in Nat : count = batched'
      BY <2>1
    <3>5. PICK u : u = uv'
      OBVIOUS
    <3>6. uv' = Submit("read", pos' + 1, batched', job.off[pos' + 1])
      BY <1>1, <1>11 DEF NextRun
    <3>7. u = Submit("read", first, count, off)
      BY <3>1, <3>3, <3>4, <3>5, <3>6
    <3>8. /\ u \in Request /\ u.call = "read" /\ u.first = first /\ u.count = count /\ u.off = off
          /\ ~u.done /\ u.err = "OK" /\ u.n = 0
      BY <3>2, <3>7 DEF Submit, Idle, Request, Err
    <3> QED
      BY <3>1, <3>3, <3>4, <3>5, <3>8
  <2>3. Through' = Through
    BY <1>1, <1>11, <2>2 DEF Through
  <2>4. RequestIsNextRun'
    BY <1>1, <2>1, <2>2 DEF RequestIsNextRun
  <2>5. NotYet'
    BY <1>7, <1>11 DEF NotYet
  <2>6. SuccessIsFinal'
    BY <1>7, <1>11 DEF SuccessIsFinal
  <2> QED
    BY <1>1, <1>2, <1>6, <1>7, <1>8, <1>11, <2>1, <2>2, <2>3, <2>4, <2>5, <2>6
<1>12. CASE /\ remaining' # 0 /\ pos' = pos + batched
            /\ batched' = ContiguousBufs(job, pos', remaining')
            /\ faults' = faults + 1 /\ uv' = Idle
            /\ replies' = Append(new, [status |-> "ENOMEM", len |-> SizeMax])
  <2> DEFINE last == [status |-> "ENOMEM", len |-> SizeMax]
  <2>1. last \in Reports /\ last.status # "OK"
    BY BatchAssumption DEF Reports, Err
  <2> HIDE DEF last
  <2>2. replies' = Append(new, last)
    BY <1>12 DEF last
  <2>3. replies' \in Seq(Reports) /\ \A i \in DOMAIN replies' : replies'[i].status # "OK"
    BY <1>7, <1>12, <2>1, <2>2
  <2>4. faults' # 0
    BY <1>3, <1>12
  <2>5. Through' = Bufs(job) /\ Through <= Bufs(job)
    BY <1>1, <1>2, <1>12, IdleIsRequest DEF Through
  <2>6. RequestIsNextRun' /\ NotYet'
    BY <1>12, IdleIsRequest DEF RequestIsNextRun, NotYet
  <2>7. SuccessIsFinal'
    BY <2>3, <2>4 DEF SuccessIsFinal
  <2>8. pos' \in Nat /\ batched' \in Nat
    BY <1>10, <1>12
  <2> QED
    BY <1>2, <1>8, <1>12, <2>3, <2>4, <2>5, <2>6, <2>7, <2>8, IdleIsRequest
<1> QED
  BY <1>9, <1>11, <1>12 DEF OnBatch, new

LEMMA InitIsGood == Init => IInv
<1> SUFFICES ASSUME Init PROVE IInv
  OBVIOUS
<1>1. /\ op \in {"read", "write"} /\ job \in Jobs /\ phase = "idle"
      /\ pos = 0 /\ remaining = 0 /\ batched = 0 /\ len = 0 /\ uv = Idle
      /\ memory = OldMemory(job) /\ file = OldFile /\ faults = 0 /\ replies = << >>
      /\ Through = 0
  BY DEF Init, Through
<1>2. Types
  <2>1. DOMAIN memory = Bytes(job) /\ DOMAIN file = 0 .. FileSize - 1
    BY <1>1 DEF OldMemory, OldFile
  <2>2. 0 \in 0 .. MaxFaults
    BY BatchAssumption
  <2> QED
    BY <1>1, <2>1, <2>2, IdleIsRequest DEF Types
<1>3. InPhase /\ RequestIsNextRun /\ NotYet /\ SuccessIsFinal
  BY <1>1, IdleIsRequest DEF InPhase, RequestIsNextRun, NotYet, SuccessIsFinal
<1>4. Untouched /\ NoMisplacedByte
  BY <1>1 DEF Untouched, NoMisplacedByte
<1>5. \A b \in Bytes(job) : b[1] \in Nat /\ b[1] > 0
  BY <1>1, ByteFacts, JobFacts
<1>6. Filled
  BY <1>1, <1>5 DEF Filled
<1>7. LenCountsBytes
  <2>1. BytesMoved = {} /\ CellsMoved = {}
    BY <1>1 DEF BytesMoved, CellsMoved
  <2>2. Moved = 0
    BY <2>1, FS_EmptySet DEF Moved
  <2>3. Counted(len, uv, replies, Moved)
    BY <1>1, <2>2, IdleIsRequest DEF Counted
  <2> QED
    BY <2>3, Counting
<1> QED
  BY <1>2, <1>3, <1>4, <1>6, <1>7 DEF IInv

LEMMA NextKeeps == IInv /\ [Next]_vars => IInv'
<1> SUFFICES ASSUME IInv, [Next]_vars PROVE IInv'
  OBVIOUS
<1>1. CASE UNCHANGED vars
  <2>1. UNCHANGED <<op, job, phase, pos, remaining, batched, len, uv, memory, file, faults, replies>>
    BY <1>1 DEF vars
  <2>2. Types' /\ InPhase' /\ RequestIsNextRun' /\ NotYet' /\ SuccessIsFinal'
    BY <2>1 DEF IInv, Types, InPhase, RequestIsNextRun, NotYet, SuccessIsFinal
  <2>3. Through' = Through
    BY <2>1 DEF Through
  <2>4. Untouched' /\ Filled' /\ NoMisplacedByte' /\ LenCountsBytes'
    BY <2>1, <2>3 DEF IInv, Untouched, Filled, NoMisplacedByte, LenCountsBytes
  <2> QED
    BY <2>2, <2>4 DEF IInv
<1> QED
  BY <1>1, CallKeeps, WorkKeeps, OnBatchKeeps DEF Next

(* What holds after every step of a batch (src/read-batch.c:16-78,         *)
(* src/write-batch.c:16-75).                                               *)
THEOREM BatchInvariance == Spec => []IInv
<1>1. IInv /\ [Next]_vars => IInv'
  BY NextKeeps
<1> QED
  BY <1>1, InitIsGood, PTL DEF Spec

(* Every field of a batch keeps its type: remaining, a size_t, is never    *)
(* taken below zero (src/read-batch.c:23).                                 *)
THEOREM TypeCorrect == Spec => []TypeOK
<1>1. IInv => TypeOK
  BY DEF IInv, Types, Request, TypeOK
<1> QED
  BY <1>1, BatchInvariance, PTL

(* For every list of buffers, the request in flight is for the longest run *)
(* of adjacent buffers behind those that are done, at its place in the     *)
(* file (src/read-batch.c:5-14, 38-56).                                    *)
THEOREM RunsAreTakenInOrder == Spec => []RequestIsNextRun
<1>1. IInv => RequestIsNextRun
  BY DEF IInv
<1> QED
  BY <1>1, BatchInvariance, PTL

(* For every list of buffers that share no byte of the file, and whatever  *)
(* fails or falls short, a byte is where it was or where the offsets of    *)
(* the batch put it, though a run is one vectored request with the offset  *)
(* of its first buffer alone (src/read-batch.c:48-56, 68-76).              *)
THEOREM NoByteIsMisplaced == Spec => []NoMisplacedByte
<1>1. IInv => NoMisplacedByte
  BY DEF IInv
<1> QED
  BY <1>1, BatchInvariance, PTL

(* A read that nothing failed fills every buffer, up to the end of the     *)
(* file, before it is answered (src/read-batch.c:33-36).                   *)
THEOREM AnsweredReadsAreComplete == Spec => []AnsweredReadIsComplete
<1>1. IInv => AnsweredReadIsComplete
  <2> SUFFICES ASSUME IInv, op = "read", faults = 0, replies # << >>, NEW b \in Bytes(job)
               PROVE  memory[b] = IF Place(job, b) < FileSize
                                  THEN OldFile[Place(job, b)] ELSE OldMemory(job)[b]
    BY DEF AnsweredReadIsComplete
  <2>1. Through = Bufs(job)
    BY DEF IInv, NotYet, InPhase, Through
  <2>2. b[1] <= Bufs(job)
    BY ByteFacts, JobFacts DEF IInv, Types
  <2> QED
    BY <2>1, <2>2 DEF IInv, Filled
<1> QED
  BY <1>1, BatchInvariance, PTL

(* The length that is added up, and reported with a success, is the number *)
(* of bytes that moved, whatever failed or fell short                      *)
(* (src/read-batch.c:31, 34).                                              *)
THEOREM LengthsAreExact == Spec => []LenCountsBytes
<1>1. IInv => LenCountsBytes
  BY DEF IInv
<1> QED
  BY <1>1, BatchInvariance, PTL

(* After the callback for a success nothing more is submitted or reported, *)
(* and without a failure there is one callback (src/read-batch.c:28-36,    *)
(* 58-60).                                                                 *)
THEOREM SuccessIsLast == Spec => []SuccessIsFinal
<1>1. IInv => SuccessIsFinal
  BY DEF IInv
<1> QED
  BY <1>1, BatchInvariance, PTL

-----------------------------------------------------------------------------
(* Trim: what stays within the range.                                      *)

Moving ==
  /\ trim.start \in Nat /\ trim.total \in Nat
  /\ trim.start <= trim.off /\ trim.off + trim.len = trim.start + trim.total

TrimTypes ==
  /\ trim \in [at : At, start : Nat, total : Nat, off : Nat, len : Nat, err : Status]
  /\ size \in Nat

TrimInv == TrimTypes /\ Moving

-----------------------------------------------------------------------------
(* Arithmetic of blocks.                                                   *)

LEMMA Remainder ==
  ASSUME NEW n \in Nat
  PROVE  n % Align \in 0 .. Align - 1 /\ n % Align <= n
<1>1. Align \in Nat /\ Align > 0
  BY TrimAssumption
<1> QED
  BY <1>1

(* fs__align_up never goes down, fs__align_down never goes up.             *)
LEMMA AlignBounds ==
  ASSUME NEW n \in Nat
  PROVE  /\ AlignUp(n) \in Nat /\ AlignUp(n) >= n
         /\ AlignDown(n) \in 0 .. n
<1>1. Align \in Nat /\ Align > 0
  BY TrimAssumption
<1>2. n % Align \in Nat /\ n % Align < Align /\ n % Align <= n
  BY <1>1, Remainder
<1> QED
  BY <1>1, <1>2 DEF AlignUp, AlignDown

LEMMA HeadInRange ==
  ASSUME NEW off \in Nat, NEW length \in Nat
  PROVE  HeadLength(off, length) \in 0 .. length
BY AlignBounds DEF HeadLength, Smaller

LEMMA WholeGrows ==
  ASSUME NEW S, NEW T, S \subseteq T
  PROVE  Whole(S) \subseteq Whole(T) /\ BlocksOf(S) \subseteq BlocksOf(T)
BY DEF Whole, BlocksOf

(* The first n bytes of what is left are in the range.                     *)
LEMMA LeftInRange ==
  ASSUME TrimInv, NEW n \in 0 .. trim.len
  PROVE  /\ Interval(trim.off, n) \subseteq TrimRange
         /\ trim.off + n \in Nat /\ trim.off + n <= trim.start + trim.total
BY DEF TrimInv, TrimTypes, Moving, Interval, TrimRange

-----------------------------------------------------------------------------
(* What a step of the trim does to the file.                               *)

Keeps ==
  /\ ones' \subseteq ones /\ ones \ ones' \subseteq TrimRange
  /\ backed \ backed' \subseteq Whole(TrimRange)
  /\ backed' \ backed \subseteq BlocksOf(TrimRange)
  /\ size' # size => platform = "mac" /\ size' \in size .. trim.start + trim.total

LEMMA SameKeeps == Same => Keeps
BY DEF Same, Keeps

LEMMA PunchKeeps ==
  ASSUME TrimInv, NEW n \in 0 .. trim.len, Punch(trim.off, n)
  PROVE  Keeps
<1>1. Interval(trim.off, n) \subseteq TrimRange
  BY LeftInRange
<1>2. Whole(Interval(trim.off, n)) \subseteq Whole(TrimRange)
  BY <1>1, WholeGrows
<1> QED
  BY <1>1, <1>2 DEF Punch, Keeps

LEMMA WriteZerosKeeps ==
  ASSUME TrimInv, NEW n \in 0 .. trim.len, WriteZeros(trim.off, n), platform = "mac"
  PROVE  Keeps
<1>1. Interval(trim.off, n) \subseteq TrimRange
  BY LeftInRange
<1>2. BlocksOf(Interval(trim.off, n)) \subseteq BlocksOf(TrimRange)
  BY <1>1, WholeGrows
<1>3. size' # size => size' \in size .. trim.start + trim.total
  BY LeftInRange DEF WriteZeros, Larger, TrimInv, TrimTypes
<1> QED
  BY <1>1, <1>2, <1>3 DEF WriteZeros, Keeps

(* A short pwrite zeroes the beginning of what it should.                  *)
LEMMA PwriteKeeps ==
  ASSUME TrimInv, NEW n \in 0 .. trim.len, Pwrite(n), platform = "mac"
  PROVE  Keeps
<1>1. ASSUME NEW short \in 0 .. n - 1, WriteZeros(trim.off, short)
      PROVE  Keeps
  <2>1. short \in 0 .. trim.len
    BY DEF TrimInv, TrimTypes
  <2> QED
    BY <1>1, <2>1, WriteZerosKeeps
<1> QED
  BY <1>1, WriteZerosKeeps DEF Pwrite

(* A step that goes on with n bytes behind it, or ends.                    *)
LEMMA AdvanceKeeps ==
  ASSUME TrimInv, NEW n \in 0 .. trim.len, NEW at \in At, Advance(n, at), size' \in Nat
  PROVE  TrimInv'
<1>1. /\ trim' = [trim EXCEPT !.at = at, !.off = trim.off + n, !.len = trim.len - n]
      /\ trim.off + n \in Nat /\ trim.len - n \in Nat
  BY DEF Advance, TrimInv, TrimTypes
<1>2. TrimTypes'
  BY <1>1 DEF TrimInv, TrimTypes
<1>3. /\ trim'.start = trim.start /\ trim'.total = trim.total
      /\ trim'.off = trim.off + n /\ trim'.len = trim.len - n
  BY <1>1 DEF TrimInv, TrimTypes
<1>4. Moving'
  BY <1>3 DEF TrimInv, TrimTypes, Moving
<1> QED
  BY <1>2, <1>4 DEF TrimInv

LEMMA EndsKeeps ==
  ASSUME TrimInv, NEW err \in Status, Ends(err), size' \in Nat
  PROVE  TrimInv'
BY DEF TrimInv, TrimTypes, Moving, Ends, At

LEMMA KeptSize ==
  ASSUME TrimInv, Keeps
  PROVE  size' \in Nat
BY DEF TrimInv, TrimTypes, Keeps

-----------------------------------------------------------------------------
(* Each step of the trim.                                                  *)

LEMMA FaultStep ==
  ASSUME TrimInv, Fault
  PROVE  TrimInv' /\ Keeps
BY SameKeeps, KeptSize, EndsKeeps DEF Fault, Status

LEMMA LinuxStep ==
  ASSUME TrimInv, LinuxTrim
  PROVE  TrimInv' /\ Keeps
<1>1. CASE Ends("EINVAL") /\ Same
  BY <1>1, SameKeeps, KeptSize, EndsKeeps DEF Status
<1>2. CASE Punch(trim.off, trim.len) /\ Ends("OK")
  <2>1. trim.len \in 0 .. trim.len
    BY DEF TrimInv, TrimTypes
  <2> QED
    BY <1>2, <2>1, PunchKeeps, KeptSize, EndsKeeps DEF Status
<1> QED
  BY <1>1, <1>2, FaultStep DEF LinuxTrim

LEMMA WinStep ==
  ASSUME TrimInv, WinTrim
  PROVE  TrimInv' /\ Keeps
<1>1. trim.len \in 0 .. trim.len
  BY DEF TrimInv, TrimTypes
<1>2. CASE Punch(trim.off, trim.len) /\ Ends("OK")
  BY <1>1, <1>2, PunchKeeps, KeptSize, EndsKeeps DEF Status
<1>3. CASE ones' = ones \ Interval(trim.off, trim.len) /\ Ends("OK") /\ UNCHANGED <<size, backed>>
  <2>1. Keeps
    BY <1>1, <1>3, LeftInRange DEF Keeps
  <2> QED
    BY <1>3, <2>1, KeptSize, EndsKeeps DEF Status
<1> QED
  BY <1>2, <1>3, FaultStep DEF WinTrim

LEMMA MacStatStep ==
  ASSUME TrimInv, MacStat
  PROVE  TrimInv' /\ Keeps
<1>1. CASE Advance(0, "head") /\ Same
  <2>1. 0 \in 0 .. trim.len
    BY DEF TrimInv, TrimTypes
  <2> QED
    BY <1>1, <2>1, SameKeeps, KeptSize, AdvanceKeeps DEF At
<1> QED
  BY <1>1, FaultStep DEF MacStat

LEMMA MacHeadStep ==
  ASSUME TrimInv, MacHead
  PROVE  TrimInv' /\ Keeps
<1> DEFINE n == HeadLength(trim.off, trim.len)
<1>1. 0 \in 0 .. trim.len /\ n \in 0 .. trim.len /\ platform = "mac"
  BY HeadInRange DEF TrimInv, TrimTypes, MacHead, Turn
<1>2. CASE Advance(0, "hole") /\ Same
  BY <1>1, <1>2, SameKeeps, KeptSize, AdvanceKeeps DEF At
<1>3. CASE Pwrite(n) /\ Advance(n, "hole")
  <2>1. Keeps
    BY <1>1, <1>3, PwriteKeeps
  <2> QED
    BY <1>1, <1>3, <2>1, KeptSize, AdvanceKeeps DEF At
<1> QED
  BY <1>2, <1>3, FaultStep DEF MacHead

LEMMA MacHoleStep ==
  ASSUME TrimInv, MacHole
  PROVE  TrimInv' /\ Keeps
<1> DEFINE n == AlignDown(trim.len)
<1>1. 0 \in 0 .. trim.len /\ n \in 0 .. trim.len
  BY AlignBounds DEF TrimInv, TrimTypes
<1>2. CASE Advance(0, "tail") /\ Same
  BY <1>1, <1>2, SameKeeps, KeptSize, AdvanceKeeps DEF At
<1>3. CASE Ends("EINVAL") /\ Same
  BY <1>3, SameKeeps, KeptSize, EndsKeeps DEF Status
<1>4. CASE Punch(trim.off, n) /\ Advance(n, "tail")
  <2>1. Keeps
    BY <1>1, <1>4, PunchKeeps
  <2> QED
    BY <1>1, <1>4, <2>1, KeptSize, AdvanceKeeps DEF At
<1> QED
  BY <1>2, <1>3, <1>4, FaultStep DEF MacHole

LEMMA MacTailStep ==
  ASSUME TrimInv, MacTail
  PROVE  TrimInv' /\ Keeps
<1>1. CASE Ends("OK") /\ Same
  BY <1>1, SameKeeps, KeptSize, EndsKeeps DEF Status
<1>2. CASE Pwrite(trim.len) /\ Ends("OK")
  <2>1. trim.len \in 0 .. trim.len /\ platform = "mac"
    BY DEF TrimInv, TrimTypes, MacTail, Turn
  <2>2. Keeps
    BY <1>2, <2>1, PwriteKeeps
  <2> QED
    BY <1>2, <2>2, KeptSize, EndsKeeps DEF Status
<1> QED
  BY <1>1, <1>2, FaultStep DEF MacTail

(* The steps of others, and the call.                                      *)
LEMMA OtherStep ==
  ASSUME TrimInv, Other \/ FsSparse
  PROVE  TrimInv' /\ trim' = trim
<1>1. trim' = trim
  BY DEF Other, FsSparse
<1>2. CASE Other
  <2>1. ASSUME NEW i \in 0 .. MaxSize - 1, size' = Larger(size, i + 1)
        PROVE  size' \in Nat
    BY <2>1, TrimAssumption DEF Larger, TrimInv, TrimTypes
  <2>2. ASSUME NEW n \in 0 .. size, size' = n
        PROVE  size' \in Nat
    BY <2>2 DEF TrimInv, TrimTypes
  <2>3. size' \in Nat
    BY <1>2, <2>1, <2>2 DEF Other
  <2> QED
    BY <1>1, <2>3 DEF TrimInv, TrimTypes, Moving
<1>3. CASE FsSparse
  BY <1>1, <1>3 DEF FsSparse, TrimInv, TrimTypes, Moving
<1> QED
  BY <1>1, <1>2, <1>3

LEMMA FsTrimStep ==
  ASSUME TrimInv, NEW off \in 0 .. MaxSize, NEW length \in 0 .. MaxSize - off, FsTrim(off, length)
  PROVE  TrimInv' /\ Keeps
<1>1. off \in Nat /\ length \in Nat
  BY TrimAssumption
<1>2. TrimInv'
  <2>1. TrimTypes'
    BY <1>1 DEF FsTrim, TrimInv, TrimTypes, At
  <2>2. trim'.start = off /\ trim'.total = length /\ trim'.off = off /\ trim'.len = length
    BY DEF FsTrim, TrimInv, TrimTypes
  <2>3. Moving'
    BY <1>1, <2>2 DEF Moving
  <2> QED
    BY <2>1, <2>3 DEF TrimInv
<1> QED
  BY <1>2 DEF FsTrim, Keeps

LEMMA Step ==
  ASSUME TrimInv, [TrimNext]_trimVars
  PROVE  TrimInv' /\ (trim' # trim => Keeps)
<1>1. CASE UNCHANGED trimVars
  BY <1>1 DEF trimVars, TrimInv, TrimTypes, Moving
<1>2. CASE TrimNext
  BY <1>2, OtherStep, FsTrimStep, LinuxStep, WinStep, MacStatStep, MacHeadStep, MacHoleStep,
     MacTailStep DEF TrimNext
<1> QED
  BY <1>1, <1>2

LEMMA InitTrimInv == TrimInit => TrimInv
BY TrimAssumption DEF TrimInit, TrimInv, TrimTypes, Moving, At, Status

-----------------------------------------------------------------------------
(* What a step leaves of the call.                                         *)
LEMMA AdvanceFields ==
  ASSUME TrimTypes, NEW n \in 0 .. trim.len, NEW at \in At, Advance(n, at)
  PROVE  /\ trim'.at = at /\ trim'.off = trim.off + n /\ trim'.len = trim.len - n
         /\ trim'.start = trim.start /\ trim'.total = trim.total /\ trim'.err = trim.err
         /\ TrimRange' = TrimRange
BY DEF TrimTypes, Advance, TrimRange

LEMMA EndsFields ==
  ASSUME TrimTypes, NEW err \in Status, Ends(err)
  PROVE  /\ trim'.at = "done" /\ trim'.err = err
         /\ trim'.start = trim.start /\ trim'.total = trim.total
         /\ TrimRange' = TrimRange
BY DEF TrimTypes, Ends, TrimRange, At

-----------------------------------------------------------------------------
(* Blocks that lie in a range whole.                                       *)

LEMMA AlignPositive == Align \in Nat /\ Align > 0
BY TrimAssumption

LEMMA Quotient ==
  ASSUME NEW n \in Nat
  PROVE  /\ Block(n) \in Nat /\ n % Align \in 0 .. Align - 1
         /\ n = (Block(n) * Align) + (n % Align)
BY AlignPositive DEF Block

LEMMA MultipleOfAlign ==
  ASSUME NEW b \in Nat
  PROVE  b * Align \in Nat /\ (b * Align) \div Align = b /\ (b * Align) % Align = 0
BY AlignPositive

(* Multiples that are less than one block apart in the wrong direction.    *)
LEMMA MultiplesInOrder ==
  ASSUME NEW i \in Nat, NEW j \in Nat, i * Align < (j * Align) + Align
  PROVE  i <= j
<1>1. ASSUME i >= j + 1 PROVE FALSE
  <2>1. i * Align >= (j + 1) * Align
    BY <1>1, AlignPositive
  <2>2. (j + 1) * Align = (j * Align) + Align
    BY AlignPositive
  <2> QED
    BY <2>1, <2>2, AlignPositive
<1> QED
  BY <1>1

(* A block begins at its first byte and ends at its last.                  *)
LEMMA BlockTouched ==
  ASSUME NEW off \in Nat, NEW length \in Nat, NEW b \in BlocksOf(Interval(off, length))
  PROVE  /\ b \in Nat
         /\ \E i \in Nat : /\ off <= i /\ i < off + length
                           /\ b * Align <= i /\ i < (b * Align) + Align
<1>1. PICK i \in Interval(off, length) : b = Block(i)
  BY DEF BlocksOf
<1>2. i \in Nat /\ off <= i /\ i < off + length
  BY <1>1 DEF Interval
<1>3. b \in Nat /\ \E k \in 0 .. Align - 1 : i = (b * Align) + k
  BY <1>1, <1>2, Quotient
<1>4. b * Align \in Nat
  BY <1>3, MultipleOfAlign
<1>5. b * Align <= i /\ i < (b * Align) + Align
  BY <1>3, <1>4, AlignPositive
<1> QED
  BY <1>2, <1>3, <1>5

LEMMA WholeMeans ==
  ASSUME NEW off \in Nat, NEW length \in Nat, NEW b \in Whole(Interval(off, length))
  PROVE  /\ b \in Nat /\ b * Align \in Nat
         /\ off <= b * Align /\ (b * Align) + Align <= off + length
<1>1. b \in Nat
  BY BlockTouched DEF Whole
<1>2. b * Align \in Nat /\ Align \in Nat /\ Align > 0
  BY <1>1, MultipleOfAlign, AlignPositive
<1>3. Interval(b * Align, Align) \subseteq Interval(off, length)
  BY DEF Whole
<1>4. /\ b * Align \in Interval(b * Align, Align)
      /\ (b * Align) + Align - 1 \in Interval(b * Align, Align)
  BY <1>2 DEF Interval
<1>5. b * Align \in Interval(off, length) /\ (b * Align) + Align - 1 \in Interval(off, length)
  BY <1>3, <1>4
<1> QED
  BY <1>1, <1>2, <1>5 DEF Interval

LEMMA WholeIf ==
  ASSUME NEW off \in Nat, NEW length \in Nat, NEW b \in Nat,
         off <= b * Align, (b * Align) + Align <= off + length
  PROVE  b \in Whole(Interval(off, length))
<1>1. b * Align \in Nat /\ Align \in Nat /\ Align > 0 /\ Block(b * Align) = b
  BY MultipleOfAlign, AlignPositive DEF Block
<1>2. Interval(b * Align, Align) \subseteq Interval(off, length)
  BY <1>1 DEF Interval
<1>3. b * Align \in Interval(off, length)
  BY <1>1 DEF Interval
<1> QED
  BY <1>1, <1>2, <1>3 DEF Whole, BlocksOf

(* The first block that begins behind n begins at AlignUp(n).              *)
LEMMA AlignUpIsLeast ==
  ASSUME NEW n \in Nat
  PROVE  /\ AlignUp(n) % Align = 0
         /\ AlignUp(n) = n => n % Align = 0
         /\ \A b \in Nat : n <= b * Align => AlignUp(n) <= b * Align
<1>1. Align \in Nat /\ Align > 0
  BY AlignPositive
<1>2. CASE n % Align = 0
  BY <1>2 DEF AlignUp
<1>3. CASE n % Align # 0
  <2> DEFINE q == Block(n)
  <2>1. /\ q \in Nat /\ q * Align \in Nat /\ n = (q * Align) + (n % Align)
        /\ n % Align \in 1 .. Align - 1 /\ q + 1 \in Nat
    BY <1>3, Quotient, MultipleOfAlign
  <2> HIDE DEF q
  <2>2. (q + 1) * Align = (q * Align) + Align
    BY <1>1, <2>1
  <2>3. AlignUp(n) = (q + 1) * Align
    BY <1>1, <1>3, <2>1, <2>2 DEF AlignUp
  <2>4. ASSUME NEW b \in Nat, n <= b * Align
        PROVE  AlignUp(n) <= b * Align
    <3>1. b * Align \in Nat
      BY MultipleOfAlign
    <3>2. ASSUME b <= q PROVE FALSE
      <4>1. b * Align <= q * Align
        BY <1>1, <2>1, <3>2
      <4> QED
        BY <2>1, <2>4, <3>1, <4>1
    <3>3. b >= q + 1
      BY <2>1, <3>2
    <3>4. (q + 1) * Align <= b * Align
      BY <1>1, <2>1, <3>3
    <3> QED
      BY <2>3, <3>4
  <2>5. AlignUp(n) # n
    BY <1>1, <2>1, <2>2, <2>3
  <2> QED
    BY <2>1, <2>3, <2>4, <2>5, MultipleOfAlign
<1> QED
  BY <1>2, <1>3

(* What AlignDown cuts off is less than a block.                           *)
LEMMA AlignDownIsMost ==
  ASSUME NEW n \in Nat
  PROVE  /\ AlignDown(n) \in 0 .. n /\ AlignDown(n) % Align = 0
         /\ n - AlignDown(n) < Align
         /\ AlignDown(n) < Align => AlignDown(n) = 0
         /\ \E q \in Nat : AlignDown(n) = q * Align
<1> DEFINE q == Block(n)
<1>1. /\ q \in Nat /\ q * Align \in Nat /\ n = (q * Align) + (n % Align)
      /\ n % Align \in 0 .. Align - 1 /\ Align \in Nat /\ Align > 0
  BY Quotient, MultipleOfAlign, AlignPositive
<1> HIDE DEF q
<1>2. AlignDown(n) = q * Align
  BY <1>1 DEF AlignDown
<1>3. q * Align < Align => q * Align = 0
  <2>1. CASE q = 0
    BY <1>1, <2>1
  <2>2. CASE q >= 1
    <3>1. q * Align >= 1 * Align
      BY <1>1, <2>2
    <3> QED
      BY <1>1, <3>1
  <2> QED
    BY <1>1, <2>1, <2>2
<1> QED
  BY <1>1, <1>2, <1>3, MultipleOfAlign

(* A step of less than a block from a whole number of blocks touches one.  *)
LEMMA TailTouchesOne ==
  ASSUME NEW off \in Nat, NEW length \in Nat, off % Align = 0, length < Align,
         NEW b \in BlocksOf(Interval(off, length))
  PROVE  b * Align = off /\ b \in Nat
<1>1. PICK i \in Nat : /\ off <= i /\ i < off + length
                       /\ b * Align <= i /\ i < (b * Align) + Align
  BY BlockTouched
<1>2. b \in Nat /\ b * Align \in Nat /\ Align \in Nat
  BY BlockTouched, MultipleOfAlign, AlignPositive
<1> DEFINE q == Block(off)
<1>3. q \in Nat /\ off = q * Align
  <2>1. q \in Nat /\ off = (q * Align) + 0
    BY Quotient
  <2> QED
    BY <2>1, MultipleOfAlign
<1> HIDE DEF q
<1>4. b <= q
  <2>1. b * Align < (q * Align) + Align
    BY <1>1, <1>2, <1>3
  <2> QED
    BY <1>2, <1>3, <2>1, MultiplesInOrder
<1>5. q <= b
  <2>1. q * Align < (b * Align) + Align
    BY <1>1, <1>2, <1>3
  <2> QED
    BY <1>2, <1>3, <2>1, MultiplesInOrder
<1> QED
  BY <1>2, <1>3, <1>4, <1>5

-----------------------------------------------------------------------------
(* A trim without a fault.                                                 *)

(* No byte of S is left but those that others wrote, and no block that     *)
(* lies in the range whole.                                                *)
Cleared(S) == ones \cap S \subseteq written
Freed == Whole(TrimRange) \cap backed \subseteq BlocksOf(written)

(* What was trimmed so far.                                                *)
Behind == Interval(trim.start, trim.off - trim.start)

InOrder ==
  /\ failures \in Nat
  /\ trim.at # "done" => trim.err = "OK"
  /\ trim.at \in {"head", "hole", "tail"} => platform = "mac"

(* Where the pieces of macOS end: the hole starts at a block, and at the   *)
(* first one of the range; the tail is less than a block.                  *)
Pieces ==
  /\ trim.at \in {"idle", "queued", "head"} => trim.off = trim.start
  /\ trim.at # "done" => Cleared(Behind)
  /\ trim.at = "hole" =>
       /\ trim.off % Align = 0 \/ trim.len = 0
       /\ \A b \in Whole(TrimRange) : trim.off <= b * Align
  /\ trim.at = "tail" =>
       /\ trim.len = 0 \/ (trim.off % Align = 0 /\ trim.len < Align)
       /\ Freed

TrimTruth == InOrder /\ (failures = 0 => Pieces /\ TrimIsTrue)

LEMMA RangeIs ==
  ASSUME TrimInv
  PROVE  /\ \A b \in Whole(TrimRange) :
              /\ b \in Nat /\ b * Align \in Nat
              /\ trim.start <= b * Align
              /\ (b * Align) + Align <= trim.off + trim.len
         /\ TrimRange = Behind \cup Interval(trim.off, trim.len)
         /\ trim.off = trim.start => TrimRange = Interval(trim.off, trim.len)
<1>1. \A b \in Whole(TrimRange) :
        /\ b \in Nat /\ b * Align \in Nat
        /\ trim.start <= b * Align
        /\ (b * Align) + Align <= trim.start + trim.total
  BY WholeMeans DEF TrimInv, Moving, TrimRange
<1>2. /\ trim.start \in Nat /\ trim.total \in Nat /\ trim.off \in Nat /\ trim.len \in Nat
      /\ trim.start <= trim.off /\ trim.off + trim.len = trim.start + trim.total
  BY DEF TrimInv, TrimTypes, Moving
<1>3. TrimRange = Behind \cup Interval(trim.off, trim.len)
  BY <1>2 DEF TrimRange, Behind, Interval
<1>4. trim.off = trim.start => trim.len = trim.total
  BY <1>2
<1> QED
  BY <1>1, <1>2, <1>3, <1>4 DEF TrimRange

(* A step that uses up a fault needs nothing more.                         *)
LEMMA SpendMakesFaults ==
  ASSUME InOrder, Spend
  PROVE  failures' \in Nat /\ failures' # 0
BY DEF InOrder, Spend

LEMMA FaultTrue ==
  ASSUME TrimInv, TrimTruth, Fault
  PROVE  TrimTruth'
<1>1. failures' \in Nat /\ failures' # 0
  BY SpendMakesFaults DEF Fault, TrimTruth
<1>2. trim'.at = "done"
  BY EndsFields DEF Fault, Status, TrimInv
<1> QED
  BY <1>1, <1>2 DEF TrimTruth, InOrder

(* A step that ends the call with its range trimmed.                       *)
LEMMA EndTrue ==
  ASSUME TrimInv, TrimTruth, NEW err \in Status, Ends(err), failures' = failures,
         UNCHANGED <<platform, sparse, written>>,
         failures = 0 =>
           /\ err = IF platform = "linux" /\ trim.total = 0 THEN "EINVAL" ELSE "OK"
           /\ Cleared(TrimRange)'
           /\ (platform = "win" /\ ~sparse) \/ Freed'
  PROVE  TrimTruth'
<1>1. /\ trim'.at = "done" /\ trim'.err = err
      /\ trim'.start = trim.start /\ trim'.total = trim.total /\ TrimRange' = TrimRange
  BY EndsFields DEF TrimInv
<1>2. InOrder'
  BY <1>1 DEF TrimTruth, InOrder
<1>3. failures' = 0 => Pieces'
  BY <1>1 DEF Pieces
<1>4. failures' = 0 => TrimIsTrue'
  BY <1>1 DEF TrimIsTrue, Cleared, Freed
<1> QED
  BY <1>2, <1>3, <1>4 DEF TrimTruth

LEMMA LinuxTrue ==
  ASSUME TrimInv, TrimTruth, LinuxTrim
  PROVE  TrimTruth'
<1>1. /\ platform = "linux" /\ trim.at = "queued"
      /\ UNCHANGED <<platform, sparse, written>> /\ trim.len \in Nat
  BY DEF LinuxTrim, Turn, TrimInv, TrimTypes
<1>2. failures = 0 => /\ trim.off = trim.start /\ trim.len = trim.total
                      /\ TrimRange = Interval(trim.off, trim.len)
  BY <1>1, RangeIs DEF TrimTruth, Pieces, TrimInv, TrimTypes, Moving
<1>3. CASE trim.len = 0 /\ Ends("EINVAL") /\ Same /\ UNCHANGED failures
  <2>1. TrimRange' = TrimRange
    BY <1>3, EndsFields DEF Status, TrimInv
  <2>2. failures = 0 => TrimRange = {}
    BY <1>2, <1>3 DEF Interval, TrimInv, TrimTypes
  <2>3. failures = 0 => Cleared(TrimRange)' /\ Freed'
    BY <2>1, <2>2 DEF Cleared, Freed, Whole, BlocksOf
  <2> QED
    BY <1>1, <1>2, <1>3, <2>3, EndTrue DEF Status
<1>4. CASE trim.len > 0 /\ Punch(trim.off, trim.len) /\ Ends("OK")
  <2>1. TrimRange' = TrimRange
    BY <1>4, EndsFields DEF Status, TrimInv
  <2>2. failures = 0 => Cleared(TrimRange)' /\ Freed'
    BY <1>2, <1>4, <2>1 DEF Cleared, Freed, Punch
  <2>3. failures = 0 => trim.total # 0
    BY <1>1, <1>2, <1>4
  <2> QED
    BY <1>1, <1>4, <2>2, <2>3, EndTrue DEF Status, Punch
<1> QED
  BY <1>3, <1>4, FaultTrue DEF LinuxTrim

LEMMA WinTrue ==
  ASSUME TrimInv, TrimTruth, WinTrim
  PROVE  TrimTruth'
<1>1. /\ platform = "win" /\ trim.at = "queued" /\ UNCHANGED <<platform, sparse, written>>
  BY DEF WinTrim, Turn
<1>2. failures = 0 => TrimRange = Interval(trim.off, trim.len)
  BY <1>1, RangeIs DEF TrimTruth, Pieces
<1>3. CASE sparse /\ Punch(trim.off, trim.len) /\ Ends("OK")
  <2>1. TrimRange' = TrimRange
    BY <1>3, EndsFields DEF Status, TrimInv
  <2>2. failures = 0 => Cleared(TrimRange)' /\ Freed'
    BY <1>2, <1>3, <2>1 DEF Cleared, Freed, Punch
  <2> QED
    BY <1>1, <1>3, <2>2, EndTrue DEF Status, Punch
<1>4. CASE /\ ~sparse /\ ones' = ones \ Interval(trim.off, trim.len)
           /\ Ends("OK") /\ UNCHANGED <<size, backed, failures>>
  <2>1. TrimRange' = TrimRange
    BY <1>4, EndsFields DEF Status, TrimInv
  <2>2. failures = 0 => Cleared(TrimRange)'
    BY <1>2, <1>4, <2>1 DEF Cleared
  <2> QED
    BY <1>1, <1>4, <2>2, EndTrue DEF Status
<1> QED
  BY <1>3, <1>4, FaultTrue DEF WinTrim

LEMMA MacStatTrue ==
  ASSUME TrimInv, TrimTruth, MacStat
  PROVE  TrimTruth'
<1>1. /\ platform = "mac" /\ trim.at = "queued" /\ UNCHANGED <<platform, sparse, written>>
  BY DEF MacStat, Turn
<1>2. CASE Advance(0, "head") /\ Same /\ UNCHANGED failures
  <2>1. /\ trim'.at = "head" /\ trim'.off = trim.off /\ trim'.start = trim.start
        /\ trim'.err = trim.err
    BY <1>2, AdvanceFields DEF At, TrimInv, TrimTypes
  <2>2. InOrder'
    BY <1>1, <1>2, <2>1 DEF TrimTruth, InOrder
  <2>3. failures' = 0 => Pieces'
    BY <1>1, <1>2, <2>1 DEF TrimTruth, Pieces, Cleared, Behind, Same
  <2> QED
    BY <2>1, <2>2, <2>3 DEF TrimTruth, TrimIsTrue
<1> QED
  BY <1>2, FaultTrue DEF MacStat

(* A step of macOS that goes on.                                           *)
LEMMA AdvanceTrue ==
  ASSUME TrimInv, TrimTruth, NEW n \in 0 .. trim.len, NEW at \in {"hole", "tail"}, Advance(n, at),
         platform' = "mac", trim.at # "done", failures' \in Nat,
         failures' = 0 =>
           /\ Cleared(Behind)'
           /\ at = "hole" => /\ (trim.off + n) % Align = 0 \/ trim.len - n = 0
                             /\ \A b \in Whole(TrimRange) : trim.off + n <= b * Align
           /\ at = "tail" => /\ \/ trim.len - n = 0
                                \/ (trim.off + n) % Align = 0 /\ trim.len - n < Align
                             /\ Freed'
  PROVE  TrimTruth'
<1>1. /\ trim'.at = at /\ trim'.off = trim.off + n /\ trim'.len = trim.len - n
      /\ trim'.err = trim.err /\ TrimRange' = TrimRange
  BY AdvanceFields DEF At, TrimInv
<1>2. InOrder'
  BY <1>1 DEF TrimTruth, InOrder
<1>3. failures' = 0 => Pieces'
  BY <1>1 DEF Pieces
<1> QED
  BY <1>1, <1>2, <1>3 DEF TrimTruth, TrimIsTrue

LEMMA BehindGrows ==
  ASSUME TrimInv, NEW n \in 0 .. trim.len, NEW at \in At, Advance(n, at)
  PROVE  Behind' = Behind \cup Interval(trim.off, n)
<1>1. trim'.off = trim.off + n /\ trim'.start = trim.start
  BY AdvanceFields DEF TrimInv
<1>2. trim.off \in Nat /\ trim.start \in Nat /\ trim.start <= trim.off /\ n \in Nat
  BY DEF TrimInv, TrimTypes, Moving
<1> QED
  BY <1>1, <1>2 DEF Behind, Interval

LEMMA MacHeadTrue ==
  ASSUME TrimInv, TrimTruth, MacHead
  PROVE  TrimTruth'
<1> DEFINE n == HeadLength(trim.off, trim.len)
           up == AlignUp(trim.off)
<1>1. /\ platform = "mac" /\ trim.at = "head" /\ UNCHANGED <<platform, sparse, written>>
      /\ trim.off \in Nat /\ trim.len \in Nat
  BY DEF MacHead, Turn, TrimInv, TrimTypes
<1>2. 0 \in 0 .. trim.len /\ n \in 0 .. trim.len
  <2>1. n \in 0 .. trim.len
    BY <1>1, HeadInRange
  <2> QED
    BY <1>1, <2>1
<1>3. /\ up \in Nat /\ up >= trim.off /\ up % Align = 0
      /\ up = trim.off => trim.off % Align = 0
      /\ \A b \in Nat : trim.off <= b * Align => up <= b * Align
  BY <1>1, AlignUpIsLeast, AlignBounds
<1>4. n = trim.len \/ n = up - trim.off
  BY DEF HeadLength, Smaller
<1>5. n <= up - trim.off
  BY <1>1, <1>3 DEF HeadLength, Smaller
<1>6. \A b \in Whole(TrimRange) : b \in Nat /\ trim.start <= b * Align
  BY RangeIs
<1>7. failures = 0 => trim.off = trim.start /\ Cleared(Behind)
  BY <1>1 DEF TrimTruth, Pieces
<1> HIDE DEF n, up
<1>8. CASE up = trim.off /\ Advance(0, "hole") /\ Same /\ UNCHANGED failures
  <2>1. Behind' = Behind
    BY <1>2, <1>8, BehindGrows, <1>1 DEF At, Interval
  <2>2. failures' = 0 => Cleared(Behind)'
    BY <1>1, <1>7, <1>8, <2>1 DEF Cleared, Same
  <2>3. failures' = 0 => /\ (trim.off + 0) % Align = 0
                         /\ \A b \in Whole(TrimRange) : trim.off + 0 <= b * Align
    BY <1>1, <1>3, <1>6, <1>7, <1>8
  <2> QED
    BY <1>1, <1>2, <1>8, <2>2, <2>3, AdvanceTrue DEF TrimTruth, InOrder
<1>9. CASE Pwrite(n) /\ Advance(n, "hole")
  <2>1. CASE Spend
    BY <1>1, <1>2, <1>9, <2>1, SpendMakesFaults, AdvanceTrue DEF TrimTruth
  <2>2. CASE WriteZeros(trim.off, n) /\ UNCHANGED failures
    <3>1. Behind' = Behind \cup Interval(trim.off, n)
      BY <1>2, <1>9, BehindGrows DEF At
    <3>2. failures' = 0 => Cleared(Behind)'
      BY <1>1, <1>7, <2>2, <3>1 DEF Cleared, WriteZeros
    <3>3. (trim.off + n) % Align = 0 \/ trim.len - n = 0
      <4>1. CASE n = trim.len
        BY <1>1, <4>1
      <4>2. CASE n = up - trim.off
        <5>1. trim.off + n = up
          BY <1>1, <1>3, <4>2
        <5> QED
          BY <1>3, <5>1
      <4> QED
        BY <1>4, <4>1, <4>2
    <3>4. ASSUME failures' = 0, NEW b \in Whole(TrimRange)
          PROVE  trim.off + n <= b * Align
      <4>1. b \in Nat /\ trim.off <= b * Align /\ b * Align \in Nat
        BY <1>6, <1>7, <2>2, <3>4, MultipleOfAlign
      <4>2. up <= b * Align
        BY <1>3, <4>1
      <4> QED
        BY <1>1, <1>2, <1>3, <1>5, <4>1, <4>2
    <3> QED
      BY <1>1, <1>2, <1>9, <2>2, <3>2, <3>3, <3>4, AdvanceTrue DEF TrimTruth, InOrder
  <2> QED
    BY <1>9, <2>1, <2>2 DEF Pwrite
<1> QED
  BY <1>8, <1>9, FaultTrue DEF MacHead, n, up

LEMMA MacHoleTrue ==
  ASSUME TrimInv, TrimTruth, MacHole
  PROVE  TrimTruth'
<1> DEFINE n == AlignDown(trim.len)
<1>1. /\ platform = "mac" /\ trim.at = "hole" /\ UNCHANGED <<platform, sparse, written>>
      /\ trim.off \in Nat /\ trim.len \in Nat /\ Align \in Nat /\ Align > 0
  BY AlignPositive DEF MacHole, Turn, TrimInv, TrimTypes
<1>2. /\ 0 \in 0 .. trim.len /\ n \in 0 .. trim.len /\ n % Align = 0
      /\ trim.len - n < Align /\ (n < Align => n = 0)
      /\ \E q \in Nat : n = q * Align
  <2>1. /\ n \in 0 .. trim.len /\ n % Align = 0 /\ trim.len - n < Align
        /\ (n < Align => n = 0) /\ \E q \in Nat : n = q * Align
    BY <1>1, AlignDownIsMost
  <2> QED
    BY <1>1, <2>1
<1>3. failures = 0 => /\ Cleared(Behind)
                      /\ trim.off % Align = 0 \/ trim.len = 0
                      /\ \A b \in Whole(TrimRange) : trim.off <= b * Align
  BY <1>1 DEF TrimTruth, Pieces
<1>4. \A b \in Whole(TrimRange) : /\ b \in Nat /\ b * Align \in Nat
                                  /\ (b * Align) + Align <= trim.off + trim.len
  BY RangeIs
<1> HIDE DEF n
<1>5. CASE n < Align /\ Advance(0, "tail") /\ Same /\ UNCHANGED failures
  <2>1. trim.len < Align
    BY <1>1, <1>2, <1>5
  <2>2. Behind' = Behind /\ TrimRange' = TrimRange
    BY <1>1, <1>2, <1>5, BehindGrows, AdvanceFields DEF At, Interval, TrimInv
  <2>3. failures' = 0 => Cleared(Behind)'
    BY <1>1, <1>3, <1>5, <2>2 DEF Cleared, Same
  <2>4. failures' = 0 => Whole(TrimRange) = {}
    BY <1>1, <1>3, <1>4, <1>5, <2>1
  <2>5. failures' = 0 => Freed'
    BY <2>2, <2>4 DEF Freed, Whole, BlocksOf
  <2>6. failures' = 0 => \/ trim.len - 0 = 0
                         \/ (trim.off + 0) % Align = 0 /\ trim.len - 0 < Align
    BY <1>1, <1>3, <1>5, <2>1
  <2> QED
    BY <1>1, <1>2, <1>5, <2>3, <2>5, <2>6, AdvanceTrue DEF TrimTruth, InOrder
<1>6. CASE n >= Align /\ ~(trim.off % Align = 0 /\ n % Align = 0)
           /\ Ends("EINVAL") /\ UNCHANGED failures
  <2>1. failures # 0
    BY <1>1, <1>2, <1>3, <1>6
  <2> QED
    BY <1>1, <1>6, <2>1, EndTrue DEF Status
<1>7. CASE /\ n >= Align /\ trim.off % Align = 0 /\ Punch(trim.off, n)
           /\ Advance(n, "tail")
  <2>1. Behind' = Behind \cup Interval(trim.off, n) /\ TrimRange' = TrimRange
    BY <1>2, <1>7, BehindGrows, AdvanceFields DEF At, TrimInv
  <2>2. failures' = 0 => Cleared(Behind)'
    BY <1>1, <1>3, <1>7, <2>1 DEF Cleared, Punch
  <2>3. PICK p, q \in Nat : trim.off = p * Align /\ n = q * Align
    <3>1. trim.off = (Block(trim.off) * Align) + 0 /\ Block(trim.off) \in Nat
      BY <1>1, <1>7, Quotient
    <3>2. trim.off = Block(trim.off) * Align
      BY <3>1, MultipleOfAlign
    <3> QED
      BY <1>2, <3>1, <3>2
  <2>4. trim.off + n = (p + q) * Align /\ p + q \in Nat
    BY <1>1, <2>3
  <2>5. (trim.off + n) % Align = 0
    BY <2>4, MultipleOfAlign
  <2>6. ASSUME failures' = 0, NEW b \in Whole(TrimRange)
        PROVE  b \in Whole(Interval(trim.off, n))
    <3>1. /\ b \in Nat /\ b * Align \in Nat /\ trim.off <= b * Align
          /\ (b * Align) + Align <= trim.off + trim.len
      BY <1>3, <1>4, <1>7, <2>6 DEF Punch
    <3>2. b + 1 \in Nat /\ (b + 1) * Align = (b * Align) + Align
      BY <1>1, <3>1
    <3>3. (b + 1) * Align < ((p + q) * Align) + Align
      BY <1>1, <1>2, <2>4, <3>1, <3>2
    <3>4. b + 1 <= p + q
      BY <2>4, <3>2, <3>3, MultiplesInOrder
    <3>5. (b + 1) * Align <= (p + q) * Align
      BY <1>1, <2>4, <3>2, <3>4
    <3>6. (b * Align) + Align <= trim.off + n
      BY <2>4, <3>2, <3>5
    <3>7. n \in Nat
      BY <1>2
    <3> QED
      BY <1>1, <3>1, <3>6, <3>7, WholeIf
  <2>7. failures' = 0 => Freed'
    BY <1>1, <1>7, <2>1, <2>6 DEF Freed, Punch
  <2> QED
    BY <1>1, <1>2, <1>7, <2>2, <2>5, <2>7, AdvanceTrue DEF TrimTruth, InOrder, Punch
<1> QED
  BY <1>5, <1>6, <1>7, FaultTrue DEF MacHole, n

LEMMA MacTailTrue ==
  ASSUME TrimInv, TrimTruth, MacTail
  PROVE  TrimTruth'
<1>1. /\ platform = "mac" /\ trim.at = "tail" /\ UNCHANGED <<platform, sparse, written>>
      /\ trim.off \in Nat /\ trim.len \in Nat /\ Align \in Nat /\ Align > 0
  BY AlignPositive DEF MacTail, Turn, TrimInv, TrimTypes
<1>2. TrimRange = Behind \cup Interval(trim.off, trim.len)
  BY RangeIs
<1>3. failures = 0 => /\ Cleared(Behind) /\ Freed
                      /\ trim.len = 0 \/ (trim.off % Align = 0 /\ trim.len < Align)
  BY <1>1 DEF TrimTruth, Pieces
<1>4. CASE trim.len = 0 /\ Ends("OK") /\ Same /\ UNCHANGED failures
  <2>1. TrimRange' = TrimRange
    BY <1>4, EndsFields DEF Status, TrimInv
  <2>2. TrimRange = Behind
    BY <1>1, <1>2, <1>4 DEF Interval
  <2>3. failures = 0 => Cleared(TrimRange)' /\ Freed'
    BY <1>1, <1>3, <1>4, <2>1, <2>2 DEF Cleared, Freed, Same
  <2> QED
    BY <1>1, <1>4, <2>3, EndTrue DEF Status
<1>5. CASE trim.len > 0 /\ Pwrite(trim.len) /\ Ends("OK")
  <2>1. TrimRange' = TrimRange
    BY <1>5, EndsFields DEF Status, TrimInv
  <2>2. CASE Spend
    <3>1. failures' \in Nat /\ failures' # 0
      BY <2>2, SpendMakesFaults DEF TrimTruth
    <3>2. trim'.at = "done"
      BY <1>5, EndsFields DEF Status, TrimInv
    <3> QED
      BY <3>1, <3>2 DEF TrimTruth, InOrder
  <2>3. CASE WriteZeros(trim.off, trim.len) /\ UNCHANGED failures
    <3>1. failures = 0 => Cleared(TrimRange)'
      BY <1>1, <1>2, <1>3, <2>1, <2>3 DEF Cleared, WriteZeros
    <3>2. ASSUME failures = 0, NEW b \in BlocksOf(Interval(trim.off, trim.len))
          PROVE  b \notin Whole(TrimRange)
      <4>1. trim.off % Align = 0 /\ trim.len < Align
        BY <1>1, <1>3, <1>5, <3>2
      <4>2. b * Align = trim.off
        BY <1>1, <3>2, <4>1, TailTouchesOne
      <4>3. ASSUME b \in Whole(TrimRange) PROVE FALSE
        <5>1. (b * Align) + Align <= trim.off + trim.len
          BY <4>3, RangeIs
        <5> QED
          BY <1>1, <4>1, <4>2, <5>1
      <4> QED
        BY <4>3
    <3>3. failures = 0 => Freed'
      BY <1>1, <1>3, <2>1, <2>3, <3>2 DEF Freed, WriteZeros
    <3> QED
      BY <1>1, <1>5, <2>3, <3>1, <3>3, EndTrue DEF Status
  <2> QED
    BY <1>5, <2>2, <2>3 DEF Pwrite
<1> QED
  BY <1>4, <1>5, FaultTrue DEF MacTail

(* What others write is known to be theirs.                                *)
LEMMA OtherTrue ==
  ASSUME TrimInv, TrimTruth, Other
  PROVE  TrimTruth'
<1>1. /\ UNCHANGED <<platform, sparse, trim, failures>>
      /\ TrimRange' = TrimRange /\ Behind' = Behind
  BY DEF Other, TrimRange, Behind
<1>2. \A S \in SUBSET Int : trim.at # "idle" /\ Cleared(S) => (ones' \cap S) \subseteq written'
  BY DEF Other, Cleared
<1>3. trim.at # "idle" /\ ~(platform = "win" /\ ~sparse) /\ Freed => Freed'
  <2> SUFFICES ASSUME trim.at # "idle", ~(platform = "win" /\ ~sparse), Freed
               PROVE  Freed'
    OBVIOUS
  <2>1. ASSUME NEW i \in 0 .. MaxSize - 1,
               backed' = backed \cup BlocksOf(
                 IF platform = "win" /\ ~sparse THEN Interval(0, i + 1) ELSE {i}),
               written' = written \cup {i}
        PROVE  Freed'
    BY <1>1, <2>1 DEF Freed, BlocksOf
  <2>2. ASSUME NEW n \in 0 .. size, backed' = backed \cap BlocksOf(Interval(0, n)),
               UNCHANGED written
        PROVE  Freed'
    BY <1>1, <2>2 DEF Freed
  <2> QED
    BY <2>1, <2>2 DEF Other
<1>4. TrimRange \in SUBSET Int /\ Behind \in SUBSET Int
  BY DEF TrimRange, Behind, Interval, TrimInv, TrimTypes
<1>5. InOrder'
  BY <1>1 DEF TrimTruth, InOrder
<1>6. failures' = 0 => Pieces'
  <2> SUFFICES ASSUME failures' = 0 PROVE Pieces'
    OBVIOUS
  <2>1. Pieces
    BY <1>1 DEF TrimTruth
  <2>2. trim.at = "idle" => Cleared(Behind)'
    BY <1>1, <2>1 DEF Pieces, Cleared, Behind, Interval, TrimInv, TrimTypes
  <2>3. trim.at \notin {"idle", "done"} => Cleared(Behind)'
    BY <1>1, <1>2, <1>4, <2>1 DEF Pieces, Cleared
  <2>4. trim.at = "tail" => Freed'
    BY <1>1, <1>3, <2>1 DEF Pieces, TrimTruth, InOrder
  <2> QED
    BY <1>1, <2>1, <2>2, <2>3, <2>4 DEF Pieces
<1>7. failures' = 0 => TrimIsTrue'
  <2> SUFFICES ASSUME failures' = 0, trim.at = "done" PROVE TrimIsTrue'
    BY <1>1 DEF TrimIsTrue
  <2>1. /\ trim.err = IF platform = "linux" /\ trim.total = 0 THEN "EINVAL" ELSE "OK"
        /\ Cleared(TrimRange) /\ ((platform = "win" /\ ~sparse) \/ Freed)
    BY <1>1 DEF TrimTruth, TrimIsTrue, Cleared, Freed
  <2>2. (ones' \cap TrimRange) \subseteq written'
    BY <1>2, <1>4, <2>1
  <2>3. (platform = "win" /\ ~sparse) \/ Freed'
    BY <1>3, <2>1
  <2> QED
    BY <1>1, <2>1, <2>2, <2>3 DEF TrimIsTrue, Freed
<1> QED
  BY <1>5, <1>6, <1>7 DEF TrimTruth

LEMMA BeginTrue ==
  ASSUME TrimInv, TrimTruth,
         FsSparse \/ \E off \in 0 .. MaxSize : \E length \in 0 .. MaxSize - off : FsTrim(off, length)
  PROVE  TrimTruth'
<1>1. CASE FsSparse
  <2>1. trim.at = "idle" /\ UNCHANGED <<platform, ones, backed, trim, written>>
    BY <1>1 DEF FsSparse
  <2>2. failures' = failures \/ (failures' \in Nat /\ failures' # 0)
    BY <1>1 DEF FsSparse, SetSparse, TrimTruth, InOrder
  <2> QED
    BY <2>1, <2>2 DEF TrimTruth, InOrder, Pieces, TrimIsTrue, Cleared, Behind
<1>2. ASSUME NEW off \in 0 .. MaxSize, NEW length \in 0 .. MaxSize - off, FsTrim(off, length)
      PROVE  TrimTruth'
  <2>1. /\ trim'.at = "queued" /\ trim'.start = off /\ trim'.off = off
        /\ trim'.err = trim.err /\ trim.at = "idle"
        /\ UNCHANGED <<platform, ones, written, failures>>
    BY <1>2 DEF FsTrim, TrimInv, TrimTypes
  <2>2. off \in Nat
    BY TrimAssumption
  <2>3. Behind' = {}
    BY <2>1, <2>2 DEF Behind, Interval
  <2> QED
    BY <2>1, <2>3 DEF TrimTruth, InOrder, Pieces, TrimIsTrue, Cleared
<1> QED
  BY <1>1, <1>2

LEMMA StepTrue ==
  ASSUME TrimInv, TrimTruth, [TrimNext]_trimVars
  PROVE  TrimTruth'
<1>1. CASE UNCHANGED trimVars
  BY <1>1 DEF trimVars, TrimTruth, InOrder, Pieces, TrimIsTrue, Cleared, Freed, Behind, TrimRange
<1> QED
  BY <1>1, BeginTrue, OtherTrue, LinuxTrue, WinTrue, MacStatTrue, MacHeadTrue, MacHoleTrue,
     MacTailTrue DEF TrimNext

LEMMA InitTrimTruth == TrimInit => TrimTruth
BY DEF TrimInit, TrimTruth, InOrder, Pieces, TrimIsTrue, Cleared, Behind, Interval

-----------------------------------------------------------------------------
(* What is left to do ends where the range ends (mac/trim.c:50-69).        *)
THEOREM TrimInvariance == TrimSpec => []TrimInv
<1>1. TrimInv /\ [TrimNext]_trimVars => TrimInv'
  BY Step
<1> QED
  BY <1>1, InitTrimInv, PTL DEF TrimSpec

(* Whatever the size of a block and the range, whatever fails and whatever *)
(* others do meanwhile, a trim changes nothing outside its range, and      *)
(* makes the file longer only on macOS, at most to the end of the range    *)
(* (mac/trim.c:37-80).                                                     *)
THEOREM TrimKeepsRest == TrimSpec => KeepsRest
<1>1. TrimInv /\ [TrimNext]_trimVars => [trim' # trim => Keeps]_trimVars
  BY Step
<1> QED
  BY <1>1, TrimInvariance, PTL DEF TrimSpec, KeepsRest, Keeps

(* A trim that nothing fails trims its range, and all of it: whatever the  *)
(* size of a block and the range, F_PUNCHHOLE of macOS is only asked for   *)
(* whole blocks, and what the three pieces leave is what others wrote      *)
(* (linux/trim.c:12-22, mac/trim.c:37-80, win/trim.c:13-36).               *)
THEOREM TrimsAreTrue == TrimSpec => []TrimIsTrue
<1>1. TrimInv /\ TrimTruth /\ [TrimNext]_trimVars => TrimTruth'
  BY StepTrue
<1>2. TrimSpec => []TrimTruth
  BY <1>1, InitTrimTruth, TrimInvariance, PTL DEF TrimSpec
<1>3. TrimTruth => TrimIsTrue
  BY DEF TrimTruth, InOrder, TrimIsTrue
<1> QED
  BY <1>2, <1>3, PTL
=============================================================================
