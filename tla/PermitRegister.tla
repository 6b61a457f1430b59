--------------------------- MODULE PermitRegister ---------------------------
(* What the relay promises: for each Midnight transaction a register that is *)
(* written at most once, and answers that are only ever its content.         *)
CONSTANTS Transactions, Permits, NoPermit

VARIABLES
    stored,     \* the permit of each transaction
    served      \* the permits that requests for it have been given

Init ==
    /\ stored = [t \in Transactions |-> NoPermit]
    /\ served = [t \in Transactions |-> {}]

\* The register of t is written, and may be read by whoever was waiting.
Issue(t, p) ==
    /\ stored[t] = NoPermit
    /\ stored' = [stored EXCEPT ![t] = p]
    /\ served' \in {served, [served EXCEPT ![t] = {p}]}

Serve(t) ==
    /\ stored[t] # NoPermit
    /\ served' = [served EXCEPT ![t] = @ \union {stored[t]}]
    /\ UNCHANGED stored

Next == \E t \in Transactions : Serve(t) \/ \E p \in Permits : Issue(t, p)

Spec == Init /\ [][Next]_<<stored, served>>
=============================================================================
