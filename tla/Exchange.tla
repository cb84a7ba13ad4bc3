------------------------------ MODULE Exchange ------------------------------
(***************************************************************************)
(* What fs_swap promises of every call: the two paths change what they     *)
(* name in one step, once, if the call succeeds, and not at all if it      *)
(* fails.  Where the system does not exchange two paths by itself, a call  *)
(* gets to points where it cannot go back: if it fails there, before the   *)
(* exchange or after it, one of its own paths loses what it names.         *)
(***************************************************************************)
CONSTANTS Req, Path, Missing

VARIABLES
  contents,    (* what each path names, told by the path that named it     *)
               (* first, or Missing                                        *)
  atomic,      (* whether the system exchanges two paths by itself         *)
  call         (* how far the call of each request is, and its paths       *)

exchangeVars == <<contents, atomic, call>>

Idle == [at |-> "idle", from |-> Missing, to |-> Missing]

ExchangeInit ==
  /\ contents \in [Path -> Path \cup {Missing}]
  /\ \A p \in Path : contents[p] \in {p, Missing}
  /\ atomic \in BOOLEAN
  /\ call = [r \in Req |-> Idle]

Becomes(r, at) == call' = [call EXCEPT ![r].at = at] /\ UNCHANGED atomic

Loses(p) == contents' = [contents EXCEPT ![p] = Missing]

Begin(r, p, q) ==
  /\ call[r].at = "idle"
  /\ call' = [call EXCEPT ![r] = [at |-> "begun", from |-> p, to |-> q]]
  /\ UNCHANGED <<contents, atomic>>

(* A failure that changes nothing.                                         *)
Refuse(r) == call[r].at = "begun" /\ Becomes(r, "failed") /\ UNCHANGED contents

(* From here the call cannot go back.                                      *)
Commit(r) ==
  /\ ~atomic /\ call[r].at = "begun" /\ contents[call[r].to] # Missing
  /\ Becomes(r, "committed") /\ UNCHANGED contents

(* The exchange: all there is to do, or what is half-way.                  *)
Exchange(r) ==
  LET p == call[r].from
      q == call[r].to
  IN /\ call[r].at = IF atomic THEN "begun" ELSE "committed"
     /\ contents[p] # Missing /\ contents[q] # Missing
     /\ contents' = [contents EXCEPT ![p] = contents[q], ![q] = contents[p]]
     /\ Becomes(r, IF atomic THEN "succeeded" ELSE "exchanged")

Succeed(r) == call[r].at = "exchanged" /\ Becomes(r, "succeeded") /\ UNCHANGED contents

(* A failure before the exchange, and one after it.                        *)
LoseTo(r)   == call[r].at = "committed" /\ Becomes(r, "failed") /\ Loses(call[r].to)
LoseFrom(r) == call[r].at = "exchanged" /\ Becomes(r, "failed") /\ Loses(call[r].from)

End(r) ==
  /\ call[r].at \in {"succeeded", "failed"} /\ call' = [call EXCEPT ![r] = Idle]
  /\ UNCHANGED <<contents, atomic>>

ExchangeNext ==
  \E r \in Req :
    \/ \E p, q \in Path : Begin(r, p, q)
    \/ Refuse(r) \/ Commit(r) \/ Exchange(r) \/ Succeed(r)
    \/ LoseTo(r) \/ LoseFrom(r)
    \/ End(r)

ExchangeSpec == ExchangeInit /\ [][ExchangeNext]_exchangeVars
=============================================================================
