------------------------------ MODULE FileTree ------------------------------
(***************************************************************************)
(* The part of the operating system's file system that libfs reaches       *)
(* through libuv: a tree of names and the system calls on it.              *)
(*                                                                         *)
(* The tree is external to the repository.  It is modelled from how        *)
(* src/rmdir.c, src/merge.c and src/mkdir.c use it: from the system calls  *)
(* they submit and from the error codes their callbacks tell apart.        *)
(*                                                                         *)
(* A path is the sequence of its components, so that path_join appends one *)
(* component and path_dirname drops one.  A tree maps every path to what   *)
(* is there: nothing, a directory, or a file with some content.            *)
(***************************************************************************)
EXTENDS Naturals, Sequences, FiniteSets, SequencesExt

CONSTANTS
  Name,    (* the components paths are made of                             *)
  Path,    (* the paths of the instance: finite and closed under prefixes  *)
  File     (* what a file may contain                                      *)

Missing == "missing"
Dir     == "dir"
Kind    == {Missing, Dir} \cup File

Top == << >>              (* the path the operation was called with        *)
Entry == Path \ {Top}
Parent(p) == SubSeq(p, 1, Len(p) - 1)

ASSUME PathAssumption ==
  /\ IsFiniteSet(Path)
  /\ Top \in Path
  /\ \A p \in Path : p \in Seq(Name)
  /\ \A p \in Path : \A n \in 0 .. Len(p) : SubSeq(p, 1, n) \in Path
  /\ Missing \notin File /\ Dir \notin File

Tree == [Path -> Kind]

(* What a directory listing returns.                                       *)
Children(t, p) == {q \in Entry : Parent(q) = p /\ t[q] # Missing}

(* Every entry sits in a directory.  (The parent of Top is outside.)       *)
WellFormed(t) == \A p \in Entry : t[p] # Missing => t[Parent(p)] = Dir

(* The paths that hold a file.                                             *)
Files(t) == {p \in Path : t[p] \in File}

-----------------------------------------------------------------------------
(* System calls.  Each has an error and, when the error is OK, an effect.  *)

OK == "OK"

(* Path resolution: a component that is a file gives ENOTDIR, one that is  *)
(* absent gives ENOENT.                                                    *)
LookupErr(t, p) ==
  IF t[p] # Missing THEN OK
  ELSE IF \E q \in Files(t) : IsPrefix(q, p)
       THEN "ENOTDIR"
       ELSE "ENOENT"

Without(t, p) == [t EXCEPT ![p] = Missing]

(* unlink(2).  deny is the error of the permission check on the entry, OK  *)
(* when it passes; it comes before the test for a directory, for which     *)
(* onDir is the platform's error (EISDIR on Linux, EPERM under POSIX).     *)
UnlinkErr(t, p, deny, onDir) ==
  IF LookupErr(t, p) # OK THEN LookupErr(t, p)
  ELSE IF deny # OK THEN deny
  ELSE IF t[p] = Dir THEN onDir ELSE OK

(* rmdir(2).                                                               *)
RmdirErr(t, p, deny) ==
  IF LookupErr(t, p) # OK THEN LookupErr(t, p)
  ELSE IF deny # OK THEN deny
  ELSE IF t[p] # Dir THEN "ENOTDIR"
  ELSE IF Children(t, p) # {} THEN "ENOTEMPTY" ELSE OK

(* opendir(3) and readdir(3) as uv_fs_scandir runs them, in one step.      *)
ScandirErr(t, p, readable) ==
  IF LookupErr(t, p) # OK THEN LookupErr(t, p)
  ELSE IF t[p] # Dir THEN "ENOTDIR"
  ELSE IF ~readable THEN "EACCES" ELSE OK

(* mkdir(2).  A missing Top (a drive that is not there) cannot be made.    *)
MkdirErr(t, p, deny) ==
  IF t[p] # Missing THEN "EEXIST"
  ELSE IF p # Top /\ t[Parent(p)] = Dir THEN deny
  ELSE LookupErr(t, p)

(* rename(2) of p in the tree b to p in the tree o, disjoint from b.  The  *)
(* directory Top of o is to be put in exists.                              *)
RenameErr(b, o, p, deny) ==
  IF LookupErr(b, p) # OK THEN LookupErr(b, p)
  ELSE IF p # Top /\ o[Parent(p)] # Dir THEN LookupErr(o, p)
  ELSE IF deny # OK THEN deny
  ELSE IF o[p] = Missing THEN OK
  ELSE IF b[p] # Dir THEN IF o[p] = Dir THEN "EISDIR" ELSE OK
  ELSE IF o[p] # Dir THEN "ENOTDIR"
  ELSE IF Children(o, p) # {} THEN "ENOTEMPTY" ELSE OK

(* What it leaves of b, and what it makes of o.                            *)
Pruned(b, p)     == [q \in Path |-> IF IsPrefix(p, q) THEN Missing ELSE b[q]]
Grafted(b, o, p) == [q \in Path |-> IF IsPrefix(p, q) THEN b[q] ELSE o[q]]
=============================================================================
