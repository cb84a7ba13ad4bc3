------------------------------ MODULE MCBatch ------------------------------
(* Batches of up to three buffers in a file of six bytes.                  *)
EXTENDS Batch

MCFileSize == 6

Job(lens, offs) == [len |-> lens, off |-> offs]

Apart(j) == \A i, k \in DOMAIN j.len : i < k =>
              j.off[i] + j.len[i] <= j.off[k] \/ j.off[k] + j.len[k] <= j.off[i]

(* Every batch of up to two buffers, empty ones and ones out of order      *)
(* included, and every batch of three that are not empty, that share no    *)
(* byte.  The longest reach past the end.                                  *)
MCJobs ==
  {j \in {Job(l, o) : l \in UNION {[1 .. n -> 0 .. 2] : n \in 0 .. 2} \cup [1 .. 3 -> 1 .. 2],
                      o \in UNION {[1 .. n -> 0 .. 4] : n \in 0 .. 3}} :
     Len(j.len) = Len(j.off) /\ Apart(j)}

(* One buffer; two runs; a run of two and one more.                        *)
SomeJobs == {Job(<<2>>, <<1>>), Job(<<2, 1>>, <<3, 0>>), Job(<<1, 1, 2>>, <<0, 1, 4>>)}
=============================================================================
