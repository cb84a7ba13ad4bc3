------------------------------ MODULE MCRmdir ------------------------------
(* fs_rmdir on a directory with two entries, one of which may hold two     *)
(* more.                                                                   *)
EXTENDS Rmdir

MCName == {"a", "b", "c", "d"}
MCFile == {"f"}
MCPath == {<< >>, <<"a">>, <<"b">>, <<"a", "c">>, <<"a", "d">>}

(* Every tree that fits: well-formed, and empty below a missing top.       *)
MCTrees == {t \in [MCPath -> {"missing", "dir", "f"}] :
              \A p \in MCPath \ {<< >>} :
                 t[p] # "missing" => t[SubSeq(p, 1, Len(p) - 1)] = "dir"}

Clean(onDir) ==
  [deny |-> [p \in MCPath |-> "OK"], unreadable |-> {}, toolong |-> {},
   onDir |-> onDir]

(* Nothing in the way, on Linux and under POSIX; one entry of each level   *)
(* that may not be removed, with the error that means a directory and with *)
(* another; a directory that cannot be listed; a path that is too long.    *)
MCEnvs ==
  {Clean("EISDIR"), Clean("EPERM")}
  \cup {[Clean("EISDIR") EXCEPT !.deny[p] = e] :
           p \in {<< >>, <<"a">>, <<"a", "c">>}, e \in {"EACCES", "EPERM"}}
  \cup {[Clean("EISDIR") EXCEPT !.unreadable = {<<"a">>}],
        [Clean("EISDIR") EXCEPT !.toolong = {<<"a", "c">>}]}

(* The least surroundings in which a recursive removal gets stuck.         *)
DeniedEnvs == {[Clean("EISDIR") EXCEPT !.deny[<<"a", "c">>] = "EACCES"]}
CleanEnvs  == {Clean("EISDIR")}
=============================================================================
