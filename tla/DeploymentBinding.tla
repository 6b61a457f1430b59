------------------------- MODULE DeploymentBinding -------------------------
(* What the deployment ceremony promises (docs/architecture.md): Midnight is *)
(* deployed first, Cardano initialized second with a state that names the    *)
(* contract, and only then the public configuration is given out.            *)
CONSTANTS
    Bindings    \* a contract, its policy, and the output its validator is made from

VARIABLES
    contracts,  \* bindings that a Midnight contract was deployed with
    escrows,    \* bindings that a Cardano state thread was started with
    published   \* bindings that the configuration of relay and browser carries

Init == contracts = {} /\ escrows = {} /\ published = {}

Deploy(b) ==
    /\ \A d \in contracts : d.contract # b.contract
    /\ contracts' = contracts \union {b}
    /\ UNCHANGED <<escrows, published>>

Initialize(b) ==
    /\ b \in contracts
    /\ \A e \in escrows : e.output # b.output
    /\ escrows' = escrows \union {b}
    /\ UNCHANGED <<contracts, published>>

Publish(b) ==
    /\ b \in escrows
    /\ published' = published \union {b}
    /\ UNCHANGED <<contracts, escrows>>

Next == \E b \in Bindings : Deploy(b) \/ Initialize(b) \/ Publish(b)

Spec == Init /\ [][Next]_<<contracts, escrows, published>>
=============================================================================
