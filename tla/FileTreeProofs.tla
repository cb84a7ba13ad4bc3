--------------------------- MODULE FileTreeProofs ---------------------------
(***************************************************************************)
(* Facts about paths and trees that the proofs of the operations share.    *)
(***************************************************************************)
EXTENDS FileTree, FiniteSetTheorems, SequenceTheorems, TLAPS

-----------------------------------------------------------------------------
(* Paths.                                                                  *)

(* What is known of the parent of an entry.                                *)
LEMMA ParentFacts ==
  ASSUME NEW p \in Entry
  PROVE  /\ p \in Path /\ p \in Seq(Name)
         /\ Len(p) \in Nat /\ Len(p) > 0
         /\ Parent(p) \in Path /\ Parent(p) \in Seq(Name)
         /\ Len(Parent(p)) = Len(p) - 1
         /\ Parent(p) # p
<1>1. p \in Path /\ p \in Seq(Name) /\ p # << >>
  BY PathAssumption DEF Entry, Top
<1>2. Len(p) \in Nat /\ Len(p) > 0
  BY <1>1, EmptySeq, LenProperties
<1>3. Parent(p) \in Path /\ Parent(p) \in Seq(Name)
  <2>1. Len(p) - 1 \in 0 .. Len(p)
    BY <1>2
  <2> QED
    BY <1>1, <2>1, PathAssumption DEF Parent
<1>4. Len(Parent(p)) = Len(p) - 1
  <2>1. \A i \in 1 .. (Len(p) - 1) : p[i] \in Name
    BY <1>1, <1>2, ElementOfSeq
  <2>2. Len(SubSeq(p, 1, Len(p) - 1)) =
          IF 1 <= Len(p) - 1 THEN (Len(p) - 1) - 1 + 1 ELSE 0
    BY <1>2, <2>1, SubSeqProperties
  <2> QED
    BY <1>2, <2>2 DEF Parent
<1> QED
  BY <1>1, <1>2, <1>3, <1>4

(* The prefix of an entry that stops before its end is one of its parent.  *)
LEMMA PrefixOfParent ==
  ASSUME NEW p \in Entry, NEW n \in 0 .. (Len(p) - 1)
  PROVE  SubSeq(p, 1, n) = SubSeq(Parent(p), 1, n)
<1>1. p \in Seq(Name) /\ Len(p) \in Nat /\ Len(p) > 0
  BY ParentFacts
<1>2. CASE n = 0
  BY <1>2, SubSeqEmpty
<1>3. CASE n > 0
  <2>1. 1 \in 1 .. Len(p) /\ Len(p) - 1 \in 1 .. Len(p)
    BY <1>1, <1>3
  <2>2. 1 \in 1 .. (Len(p) - 1) - 1 + 1 /\ n \in 1 .. (Len(p) - 1) - 1 + 1
    BY <1>1, <1>3
  <2> QED
    BY <1>1, <2>1, <2>2, SubSeqOfSubSeq DEF Parent
<1> QED
  BY <1>2, <1>3, <1>1

(* The prefix that does not stop is the path.                              *)
LEMMA WholePrefix ==
  ASSUME NEW p \in Path
  PROVE  SubSeq(p, 1, Len(p)) = p /\ SubSeq(p, 1, 0) = Top /\ Len(p) \in Nat
<1>1. p \in Seq(Name) /\ Len(p) \in Nat
  BY PathAssumption, LenProperties
<1> QED
  BY <1>1, SubSeqEmpty, SubSeqProperties DEF Top

(* One step down from a proper prefix d of e, towards e, is a child of d.  *)
LEMMA ChildTowards ==
  ASSUME NEW e \in Path, NEW n \in 0 .. (Len(e) - 1),
         SubSeq(e, 1, n + 1) \in Path
  PROVE  /\ SubSeq(e, 1, n + 1) \in Entry
         /\ Parent(SubSeq(e, 1, n + 1)) = SubSeq(e, 1, n)
<1> DEFINE c == SubSeq(e, 1, n + 1)
<1>1. e \in Seq(Name) /\ Len(e) \in Nat
  BY PathAssumption, LenProperties
<1>2. Len(c) = n + 1
  BY <1>1, SubSeqProperties
<1>3. c \in Entry
  BY <1>2, LenProperties DEF Entry, Top
<1>4. Parent(c) = SubSeq(c, 1, n)
  BY <1>2 DEF Parent
<1>5. SubSeq(c, 1, n) = SubSeq(e, 1, n)
  <2>1. CASE n = 0
    BY <2>1, SubSeqEmpty
  <2>2. CASE n > 0
    BY <1>1, <2>2, SubSeqOfSubSeq
  <2> QED
    BY <2>1, <2>2
<1> QED
  BY <1>3, <1>4, <1>5

(* Sets of paths are finite.                                               *)
LEMMA PathSets ==
  ASSUME NEW S \in SUBSET Path
  PROVE  /\ IsFiniteSet(S) /\ Cardinality(S) \in Nat
         /\ Cardinality(S) = 0 <=> S = {}
<1>1. IsFiniteSet(S)
  BY PathAssumption, FS_Subset
<1> QED
  BY <1>1, FS_CardinalityType, FS_EmptySet

(* A prefix of n components has n of them.                                 *)
LEMMA PrefixFacts ==
  ASSUME NEW p \in Path, NEW n \in 0 .. Len(p)
  PROVE  SubSeq(p, 1, n) \in Path /\ Len(SubSeq(p, 1, n)) = n
<1>1. p \in Seq(Name) /\ Len(p) \in Nat
  BY PathAssumption, LenProperties
<1>2. \A i \in 1 .. n : p[i] \in Name
  BY <1>1, ElementOfSeq
<1>3. n \in Nat /\ 1 \in Int
  BY <1>1
<1>4. Len(SubSeq(p, 1, n)) = IF 1 <= n THEN n - 1 + 1 ELSE 0
  BY <1>2, <1>3, SubSeqProperties
<1> QED
  BY <1>3, <1>4, PathAssumption

(* Counting down from a number to one below it.                            *)
LEMMA Below ==
  ASSUME NEW m \in Nat, NEW n \in Nat, m <= n
  PROVE  /\ n - m \in 0 .. n /\ n - (n - m) = m
         /\ m # n => m \in 0 .. (n - 1) /\ m + 1 \in 0 .. n
OBVIOUS

-----------------------------------------------------------------------------
(* Induction.  The minimum stands in for the induction theorems.           *)

(* Of finite sets, one has no other below it.                              *)
LEMMA LeastSet ==
  ASSUME NEW X, NEW F, F # {}, F \subseteq FiniteSubsetsOf(X)
  PROVE  \E T \in F : \A U \in F : U \subseteq T => U = T
<1>1. \E T \in F : \A U \in F : ~(<<U, T>> \in StrictSubsetOrdering(X))
  BY FS_StrictSubsetOrderingWellFounded, WFMin
<1>2. \A U, T \in F : U \subseteq T /\ U # T => <<U, T>> \in StrictSubsetOrdering(X)
  BY DEF StrictSubsetOrdering, FiniteSubsetsOf
<1> QED
  BY <1>1, <1>2

(* Of natural numbers, one is the least.                                   *)
LEMMA LeastNatural ==
  ASSUME NEW S \in SUBSET Nat, S # {}
  PROVE  \E n \in S : \A m \in S : n <= m
<1> DEFINE F == {1 .. n : n \in S}
<1>1. \A T \in F : T \subseteq Nat /\ IsFiniteSet(T)
  BY FS_Interval
<1>2. PICK T \in F : \A U \in F : U \subseteq T => U = T
  <2>1. F # {}
    OBVIOUS
  <2>2. F \subseteq FiniteSubsetsOf(Nat)
    BY <1>1 DEF FiniteSubsetsOf
  <2> HIDE DEF F
  <2> QED
    BY <2>1, <2>2, LeastSet
<1>3. PICK n \in S : T = 1 .. n
  BY <1>2
<1>4. ASSUME NEW m \in S, m < n PROVE FALSE
  <2>1. 1 .. m \in F /\ 1 .. m \subseteq 1 .. n
    BY <1>4
  <2>2. 1 .. m = 1 .. n
    BY <1>2, <1>3, <2>1
  <2>3. n \in 1 .. n /\ n \notin 1 .. m
    BY <1>4
  <2> QED
    BY <2>2, <2>3
<1> QED
  BY <1>3, <1>4

-----------------------------------------------------------------------------
(* Prefixes.                                                               *)

(* A prefix is what is cut off a path.                                     *)
LEMMA PrefixIsCut ==
  ASSUME NEW q \in Path, NEW p \in Path
  PROVE  IsPrefix(q, p) <=> Len(q) <= Len(p) /\ SubSeq(p, 1, Len(q)) = q
BY WholePrefix DEF IsPrefix

LEMMA CutIsPrefix ==
  ASSUME NEW p \in Path, NEW n \in 0 .. Len(p)
  PROVE  SubSeq(p, 1, n) \in Path /\ IsPrefix(SubSeq(p, 1, n), p)
<1>1. SubSeq(p, 1, n) \in Path /\ Len(SubSeq(p, 1, n)) = n /\ Len(p) \in Nat
  BY PrefixFacts, WholePrefix
<1> DEFINE c == SubSeq(p, 1, n)
<1>2. SubSeq(p, 1, Len(c)) = c /\ Len(c) <= Len(p)
  BY <1>1
<1>3. IsPrefix(c, p)
  <2> HIDE DEF c
  <2> QED
    BY <1>1, <1>2, PrefixIsCut DEF c
<1> QED
  BY <1>1, <1>3

(* Every path is a prefix of itself, and Top of all.                       *)
LEMMA TrivialPrefixes ==
  ASSUME NEW p \in Path
  PROVE  Top \in Path /\ IsPrefix(p, p) /\ IsPrefix(Top, p)
<1>1. Len(p) \in Nat /\ SubSeq(p, 1, Len(p)) = p /\ SubSeq(p, 1, 0) = Top
  BY WholePrefix
<1>2. 0 \in 0 .. Len(p) /\ Len(p) \in 0 .. Len(p)
  BY <1>1
<1> QED
  BY <1>1, <1>2, CutIsPrefix

(* A cut of a cut is a cut.                                                *)
LEMMA CutOfCut ==
  ASSUME NEW p \in Path, NEW n \in 0 .. Len(p), NEW m \in 0 .. n
  PROVE  SubSeq(SubSeq(p, 1, n), 1, m) = SubSeq(p, 1, m)
<1>1. p \in Seq(Name) /\ Len(p) \in Nat
  BY PathAssumption, LenProperties
<1>2. CASE m = 0
  BY <1>2, SubSeqEmpty
<1>3. CASE m > 0
  <2>1. /\ 1 \in 1 .. Len(p) /\ n \in 1 .. Len(p)
        /\ 1 \in 1 .. n - 1 + 1 /\ m \in 1 .. n - 1 + 1
    BY <1>1, <1>3
  <2>2. SubSeq(SubSeq(p, 1, n), 1, m) = SubSeq(p, 1 + 1 - 1, 1 + m - 1)
    BY <1>1, <2>1, SubSeqOfSubSeq
  <2>3. 1 + 1 - 1 = 1 /\ 1 + m - 1 = m
    BY <1>3
  <2> QED
    BY <2>2, <2>3
<1> QED
  BY <1>1, <1>2, <1>3

LEMMA PrefixTransitive ==
  ASSUME NEW r \in Path, NEW q \in Path, NEW p \in Path, IsPrefix(r, q), IsPrefix(q, p)
  PROVE  IsPrefix(r, p)
<1>1. Len(r) \in Nat /\ Len(q) \in Nat /\ Len(p) \in Nat
  BY WholePrefix
<1>2. /\ Len(r) <= Len(q) /\ SubSeq(q, 1, Len(r)) = r
      /\ Len(q) <= Len(p) /\ SubSeq(p, 1, Len(q)) = q
  BY PrefixIsCut
<1>3. Len(q) \in 0 .. Len(p) /\ Len(r) \in 0 .. Len(q)
  BY <1>1, <1>2
<1>4. SubSeq(SubSeq(p, 1, Len(q)), 1, Len(r)) = SubSeq(p, 1, Len(r))
  BY <1>3, CutOfCut
<1> QED
  BY <1>1, <1>2, <1>4, PrefixIsCut

(* The parent of an entry is a prefix of it, and no entry of its own.      *)
LEMMA ParentIsPrefix ==
  ASSUME NEW p \in Entry
  PROVE  IsPrefix(Parent(p), p) /\ ~IsPrefix(p, Parent(p))
<1>1. /\ p \in Path /\ Parent(p) \in Path /\ Len(p) \in Nat /\ Len(p) > 0
      /\ Len(Parent(p)) = Len(p) - 1
  BY ParentFacts
<1>2. Len(p) - 1 \in 0 .. Len(p)
  BY <1>1
<1>3. IsPrefix(Parent(p), p)
  BY <1>1, <1>2, CutIsPrefix DEF Parent
<1>4. ~IsPrefix(p, Parent(p))
  BY <1>1, PrefixIsCut
<1> QED
  BY <1>3, <1>4

(* From a strict prefix of p one entry of it leads towards p.              *)
LEMMA EntryTowards ==
  ASSUME NEW q \in Path, NEW p \in Path, IsPrefix(q, p), q # p
  PROVE  \E c \in Entry : Parent(c) = q /\ IsPrefix(c, p)
<1> DEFINE n == Len(q)
           c == SubSeq(p, 1, n + 1)
<1>1. n \in Nat /\ Len(p) \in Nat /\ SubSeq(p, 1, Len(p)) = p
  BY WholePrefix
<1>2. n <= Len(p) /\ SubSeq(p, 1, n) = q
  BY PrefixIsCut
<1>3. n # Len(p)
  BY <1>1, <1>2
<1>4. n \in 0 .. (Len(p) - 1) /\ n + 1 \in 0 .. Len(p)
  BY <1>1, <1>2, <1>3, Below
<1>5. c \in Path /\ IsPrefix(c, p)
  BY <1>4, CutIsPrefix
<1>6. c \in Entry /\ Parent(c) = q
  BY <1>2, <1>4, <1>5, ChildTowards
<1> QED
  BY <1>5, <1>6

(* What an entry is a prefix of, or what is a prefix of it but itself, its *)
(* parent is as well.                                                      *)
LEMMA PrefixThroughParent ==
  ASSUME NEW q \in Path, NEW p \in Entry
  PROVE  /\ IsPrefix(q, p) <=> q = p \/ IsPrefix(q, Parent(p))
         /\ IsPrefix(p, q) => IsPrefix(Parent(p), q)
<1>1. /\ p \in Path /\ Parent(p) \in Path /\ Len(p) \in Nat /\ Len(p) > 0
      /\ Len(Parent(p)) = Len(p) - 1 /\ Len(q) \in Nat
      /\ SubSeq(p, 1, Len(p)) = p
  BY ParentFacts, WholePrefix
<1>2. ASSUME IsPrefix(p, q) PROVE IsPrefix(Parent(p), q)
  BY <1>1, <1>2, ParentIsPrefix, PrefixTransitive
<1>3. ASSUME q = p \/ IsPrefix(q, Parent(p)) PROVE IsPrefix(q, p)
  BY <1>1, <1>3, ParentIsPrefix, PrefixTransitive, TrivialPrefixes
<1>4. ASSUME IsPrefix(q, p), q # p PROVE IsPrefix(q, Parent(p))
  <2>1. Len(q) <= Len(p) /\ SubSeq(p, 1, Len(q)) = q
    BY <1>1, <1>4, PrefixIsCut
  <2>2. Len(q) # Len(p)
    BY <1>1, <1>4, <2>1
  <2>3. Len(q) \in 0 .. (Len(p) - 1)
    BY <1>1, <2>1, <2>2, Below
  <2>4. SubSeq(p, 1, Len(q)) = SubSeq(Parent(p), 1, Len(q))
    BY <2>3, PrefixOfParent
  <2> QED
    BY <1>1, <2>1, <2>3, <2>4, PrefixIsCut
<1> QED
  BY <1>2, <1>3, <1>4

(* A set of paths is closed when the parent of each is in it.              *)
Closed(S) == \A d \in S : d # Top => Parent(d) \in S

(* It then holds every prefix of each.                                     *)
LEMMA ClosedUnderPrefixes ==
  ASSUME NEW S \in SUBSET Path, Closed(S), NEW p \in S, NEW q \in Path, IsPrefix(q, p)
  PROVE  q \in S
<1> DEFINE l == Len(p)
           Cut(k) == SubSeq(p, 1, l - k)
           Bad == {k \in 0 .. l : Cut(k) \notin S}
<1>1. l \in Nat /\ Cut(0) = p /\ Len(q) \in Nat
  BY WholePrefix
<1>2. \A k \in 1 .. l : Cut(k - 1) \in Entry /\ Parent(Cut(k - 1)) = Cut(k)
  <2> TAKE k \in 1 .. l
  <2>1. l - k \in 0 .. (l - 1) /\ l - (k - 1) = (l - k) + 1 /\ l - (k - 1) \in 0 .. l
    BY <1>1
  <2>2. SubSeq(p, 1, (l - k) + 1) \in Path
    BY <2>1, PrefixFacts
  <2> QED
    BY <2>1, <2>2, ChildTowards
<1>3. Bad = {}
  <2> SUFFICES ASSUME Bad # {} PROVE FALSE
    OBVIOUS
  <2>1. Bad \in SUBSET Nat
    OBVIOUS
  <2>2. PICK k \in Bad : \A j \in Bad : k <= j
    <3> HIDE DEF Bad
    <3> QED
      BY <2>1, LeastNatural
  <2>3. k \in 0 .. l /\ Cut(k) \notin S
    BY <2>2
  <2>4. k # 0
    <3> HIDE DEF Cut
    <3> QED
      BY <1>1, <2>3
  <2>5. k \in 1 .. l /\ k - 1 \in 0 .. l /\ ~(k <= k - 1)
    BY <1>1, <2>3, <2>4
  <2>6. Cut(k - 1) \in S
    BY <2>2, <2>5
  <2>7. Cut(k - 1) # Top /\ Parent(Cut(k - 1)) = Cut(k)
    BY <1>2, <2>5 DEF Entry
  <2> HIDE DEF Cut
  <2> QED
    BY <2>3, <2>6, <2>7 DEF Closed
<1>4. Len(q) <= l /\ SubSeq(p, 1, Len(q)) = q
  BY PrefixIsCut
<1>5. l - Len(q) \in 0 .. l /\ l - (l - Len(q)) = Len(q)
  <2> HIDE DEF l
  <2> QED
    BY <1>1, <1>4, Below
<1>6. Cut(l - Len(q)) = q
  BY <1>4, <1>5
<1> QED
  BY <1>3, <1>5, <1>6

(* Below a member without children in the set there is no member.          *)
LEMMA NoMemberBelow ==
  ASSUME NEW S \in SUBSET Path, Closed(S), NEW q \in Path,
         \A c \in Entry : Parent(c) = q => c \notin S,
         NEW p \in S, IsPrefix(q, p)
  PROVE  p = q
<1> SUFFICES ASSUME q # p PROVE FALSE
  OBVIOUS
<1>1. PICK c \in Entry : Parent(c) = q /\ IsPrefix(c, p)
  BY EntryTowards
<1>2. c \in S
  BY <1>1, ClosedUnderPrefixes DEF Entry
<1> QED
  BY <1>1, <1>2

-----------------------------------------------------------------------------
(* Trees.                                                                  *)

LEMMA KindFacts == Missing # Dir /\ Missing \notin File /\ Dir \notin File
BY PathAssumption DEF Missing, Dir

(* Above something that is there are directories.                          *)
LEMMA AboveIsDir ==
  ASSUME NEW t, WellFormed(t), NEW p \in Path, t[p] # Missing,
         NEW q \in Path, IsPrefix(q, p), q # p
  PROVE  t[q] = Dir
<1> DEFINE S == {e \in Path : t[e] # Missing}
<1>1. S \in SUBSET Path /\ Closed(S) /\ p \in S
  BY ParentFacts, KindFacts DEF Closed, WellFormed, Entry
<1>2. PICK c \in Entry : Parent(c) = q /\ IsPrefix(c, p)
  BY EntryTowards
<1>3. c \in S
  <2> HIDE DEF S
  <2> QED
    BY <1>1, <1>2, ClosedUnderPrefixes DEF Entry
<1> QED
  BY <1>2, <1>3 DEF WellFormed

(* Below what is no directory, and below an empty one, is nothing.         *)
LEMMA NothingBelowLeaf ==
  ASSUME NEW t, WellFormed(t), NEW q \in Path, Children(t, q) = {} \/ t[q] # Dir,
         NEW p \in Path, IsPrefix(q, p), q # p
  PROVE  t[p] = Missing
<1> SUFFICES ASSUME t[p] # Missing PROVE FALSE
  OBVIOUS
<1>1. t[q] = Dir
  BY AboveIsDir
<1>2. PICK c \in Entry : Parent(c) = q /\ IsPrefix(c, p)
  BY EntryTowards
<1>3. t[c] # Missing
  <2>1. c \in Path
    BY <1>2 DEF Entry
  <2>2. CASE c = p
    BY <2>2
  <2>3. CASE c # p
    BY <1>2, <2>1, <2>3, AboveIsDir, KindFacts
  <2> QED
    BY <2>2, <2>3
<1> QED
  BY <1>1, <1>2, <1>3 DEF Children

(* What is added in a directory, or removed while it is empty, leaves a    *)
(* tree well-formed.                                                       *)
LEMMA ChangeKeepsForm ==
  ASSUME NEW t \in Tree, WellFormed(t), NEW p \in Path, NEW k \in Kind,
         p = Top \/ k = Missing \/ t[Parent(p)] = Dir,
         Children(t, p) = {}
  PROVE  WellFormed([t EXCEPT ![p] = k])
<1> DEFINE u == [t EXCEPT ![p] = k]
<1> SUFFICES ASSUME NEW q \in Entry, u[q] # Missing PROVE u[Parent(q)] = Dir
  BY DEF WellFormed
<1>1. q \in Path /\ Parent(q) \in Path /\ Parent(q) # q
  BY ParentFacts
<1>2. CASE q = p
  BY <1>1, <1>2 DEF Tree, Entry
<1>3. CASE q # p
  <2>1. t[q] # Missing /\ t[Parent(q)] = Dir
    BY <1>1, <1>3 DEF Tree, WellFormed
  <2>2. Parent(q) # p
    BY <2>1 DEF Children
  <2> QED
    BY <1>1, <2>1, <2>2 DEF Tree
<1> QED
  BY <1>2, <1>3

-----------------------------------------------------------------------------
(* rename(2).                                                              *)

(* What it takes for a rename to succeed.                                  *)
LEMMA RenameFacts ==
  ASSUME NEW b, NEW o, WellFormed(o), NEW p \in Path, NEW deny,
         RenameErr(b, o, p, deny) = OK
  PROVE  /\ b[p] # Missing /\ deny = OK
         /\ p # Top => o[Parent(p)] = Dir
         /\ RenameErr(b, o, p, OK) = OK
         /\ \A q \in Path : IsPrefix(p, q) /\ q # p => o[q] = Missing
<1>1. b[p] # Missing
  BY DEF RenameErr, LookupErr, OK
<1>2. p # Top => o[Parent(p)] = Dir
  <2> SUFFICES ASSUME p # Top, o[Parent(p)] # Dir PROVE FALSE
    OBVIOUS
  <2>1. LookupErr(o, p) = OK
    BY <1>1 DEF RenameErr, LookupErr
  <2>2. o[p] # Missing
    BY <2>1 DEF LookupErr, OK
  <2> QED
    BY <2>2 DEF WellFormed, Entry
<1>3. deny = OK
  BY <1>1, <1>2 DEF RenameErr, LookupErr
<1>4. Children(o, p) = {} \/ o[p] # Dir
  BY <1>1, <1>2, <1>3, KindFacts DEF RenameErr, LookupErr, OK
<1>5. \A q \in Path : IsPrefix(p, q) /\ q # p => o[q] = Missing
  BY <1>4, NothingBelowLeaf
<1> QED
  BY <1>1, <1>2, <1>3, <1>5

(* Its effect keeps both trees.                                            *)
LEMMA PrunedForm ==
  ASSUME NEW b \in Tree, WellFormed(b), NEW p \in Path
  PROVE  Pruned(b, p) \in Tree /\ WellFormed(Pruned(b, p))
<1>1. Pruned(b, p) \in Tree
  BY DEF Pruned, Tree, Kind
<1>2. ASSUME NEW q \in Entry, Pruned(b, p)[q] # Missing
      PROVE  Pruned(b, p)[Parent(q)] = Dir
  <2>1. q \in Path /\ Parent(q) \in Path
    BY ParentFacts
  <2>2. ~IsPrefix(p, q) /\ b[q] # Missing
    BY <1>2, <2>1 DEF Pruned
  <2>3. ~IsPrefix(p, Parent(q))
    BY <2>2, PrefixThroughParent
  <2> QED
    BY <2>1, <2>2, <2>3 DEF Pruned, WellFormed
<1> QED
  BY <1>1, <1>2 DEF WellFormed

LEMMA GraftedForm ==
  ASSUME NEW b \in Tree, WellFormed(b), NEW o \in Tree, WellFormed(o), NEW p \in Path,
         p # Top => o[Parent(p)] = Dir
  PROVE  Grafted(b, o, p) \in Tree /\ WellFormed(Grafted(b, o, p))
<1> DEFINE u == Grafted(b, o, p)
<1>1. /\ u \in Tree
      /\ \A q \in Path : u[q] = IF IsPrefix(p, q) THEN b[q] ELSE o[q]
  BY DEF Grafted, Tree
<1>2. ASSUME NEW q \in Entry, u[q] # Missing
      PROVE  u[Parent(q)] = Dir
  <2>0. q \in Path /\ Parent(q) \in Path
    BY ParentFacts
  <2>1. CASE q = p
    <3>1. ~IsPrefix(p, Parent(q))
      BY <2>1, ParentIsPrefix
    <3>2. o[Parent(q)] = Dir
      BY <2>1 DEF Entry
    <3> QED
      BY <1>1, <2>0, <3>1, <3>2
  <2>2. CASE q # p /\ IsPrefix(p, q)
    <3>1. IsPrefix(p, Parent(q))
      BY <2>2, PrefixThroughParent
    <3>2. b[q] # Missing
      BY <1>1, <1>2, <2>0, <2>2
    <3>3. b[Parent(q)] = Dir
      BY <3>2 DEF WellFormed
    <3> QED
      BY <1>1, <2>0, <3>1, <3>3
  <2>3. CASE ~IsPrefix(p, q)
    <3>1. ~IsPrefix(p, Parent(q))
      BY <2>3, PrefixThroughParent
    <3>2. o[q] # Missing
      BY <1>1, <1>2, <2>0, <2>3
    <3>3. o[Parent(q)] = Dir
      BY <3>2 DEF WellFormed
    <3> QED
      BY <1>1, <2>0, <3>1, <3>3
  <2> QED
    BY <2>1, <2>2, <2>3
<1> QED
  BY <1>1, <1>2 DEF WellFormed
=============================================================================
