------------------------------ MODULE MCMerge ------------------------------
(* fs_merge of a directory with a nested one onto another.  Files of base  *)
(* and of onto have different contents.                                    *)
EXTENDS Merge

MCName == {"a", "b", "c"}
MCFile == {"f", "g"}
MCPath == {<< >>, <<"a">>, <<"b">>, <<"a", "c">>}

Fits(k) == {t \in [MCPath -> {"missing", "dir", k}] :
              /\ \A p \in MCPath \ {<< >>} :
                   t[p] # "missing" => t[SubSeq(p, 1, Len(p) - 1)] = "dir"
              /\ t[<<"b">>] # "dir"}
MCBase == Fits("f")
MCOnto == Fits("g")

Clean ==
  [deny |-> [p \in MCPath |-> "OK"], unreadable |-> {}, toolong |-> {}, typed |-> TRUE]

(* Nothing in the way; one entry of each level that may not be moved or    *)
(* removed; a directory that cannot be listed; paths that are too long,    *)
(* with and without a sibling that is not; a file system without d_type.   *)
MCEnvs ==
  {Clean}
  \cup {[Clean EXCEPT !.deny[p] = "EACCES"] : p \in {<< >>, <<"a">>, <<"a", "c">>}}
  \cup {[Clean EXCEPT !.unreadable = {<<"a">>}],
        [Clean EXCEPT !.toolong = {<<"a", "c">>}],
        [Clean EXCEPT !.toolong = {<<"b">>}],
        [Clean EXCEPT !.typed = FALSE]}
=============================================================================
