------------------------------ MODULE MCMkdir ------------------------------
(* Two calls of fs_mkdir whose paths share their first component.          *)
EXTENDS Mkdir

MCName == {"a", "b", "c", "d"}
MCFile == {"f"}
MCPath == {<< >>, <<"a">>, <<"a", "b">>, <<"a", "c">>, <<"a", "b", "d">>}

MCTrees == {t \in [MCPath -> {"missing", "dir", "f"}] :
              /\ \A p \in MCPath \ {<< >>} :
                   t[p] # "missing" => t[SubSeq(p, 1, Len(p) - 1)] = "dir"
              /\ t[<< >>] # "f" /\ t[<<"a", "b", "d">>] # "dir"}

MCTargets == {<<"a", "c">>, <<"a", "b", "d">>}

NoDenial  == [p \in MCPath |-> "OK"]
MCDenials ==
  {NoDenial}
  \cup {[NoDenial EXCEPT ![p] = e] :
           p \in {<<"a", "b">>}, e \in {"EACCES", "EROFS"}}
Permitted == {NoDenial}

(* The tree in which nothing is there yet.                                 *)
EmptyTree == {[p \in MCPath |-> IF p = << >> THEN "dir" ELSE "missing"]}
=============================================================================
