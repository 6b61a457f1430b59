--------------------------- MODULE MilestoneEscrow ---------------------------
(* What the Cardano side promises: an inventory that is released in equal     *)
(* tranches, one for each authorization, to whoever the policy names.         *)
EXTENDS Integers

CONSTANTS Nullifiers, Inventory, Amount

VARIABLES
    locked,     \* what the escrow holds, zero before it is funded
    consumed    \* the authorizations that have been paid

Init == locked = 0 /\ consumed = {}

Fund ==
    /\ locked = 0 /\ consumed = {}
    /\ locked' = Inventory
    /\ UNCHANGED consumed

\* The tranche of an authorization is paid, once.
Pay(n) ==
    /\ n \notin consumed
    /\ locked >= Amount
    /\ locked' = locked - Amount
    /\ consumed' = consumed \union {n}

Next == Fund \/ \E n \in Nullifiers : Pay(n)

Spec == Init /\ [][Next]_<<locked, consumed>>
=============================================================================
