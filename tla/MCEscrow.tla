------------------------------ MODULE MCEscrow ------------------------------
(* Small instances of Escrow for TLC.                                       *)
EXTENDS Escrow, TLC

CONSTANTS c1, c2, n1, n2, k1, here, elsewhere

Signed(context, nullifier, from, to) ==
    [context |-> context, beneficiary |-> "ben", amount |-> 1, relayKey |-> k1,
     nullifier |-> nullifier, notBeforeSlot |-> from, expiresAtSlot |-> to]

SessionSymmetry == Permutations(Sessions)

MCPolicy == [context |-> here, beneficiary |-> "ben", amount |-> 1, relayKey |-> k1]

MCAddresses == {"script", "deployer", "ben", "bystander"}

MCWalletOf == (c1 :> "ben" @@ c2 :> "ben")

NoWallets == <<>>

\* Two permits of one authorization with different windows (a relay that lost
\* its store signs a second one), one with another nullifier under the same
\* policy, which the escrow's list of nullifiers is for, and one that is bound
\* elsewhere.
MCPermits == {Signed(here, n1, 0, 2), Signed(here, n1, 1, 3), Signed(here, n2, 1, 3),
              Signed(elsewhere, n2, 0, 3)}

\* Permits that outlast the bounded time.
MCLastingPermits == {Signed(here, n1, 0, 9), Signed(here, n2, 0, 9)}

NoTransactions == {}

\* What other wallets try: one or two inputs, a continuing state output or
\* none, up to two payouts, any claim.
MCOtherStates ==
    {[policy |-> MCPolicy, consumed |-> s, sequence |-> n] :
        s \in {<<>>, <<n1>>, <<n2, n1>>, <<n1, n1>>}, n \in 0..2}

MCContinuing ==
    {<<>>} \union
    {<<[address |-> a, token |-> 1, asset |-> v, datum |-> d]>> :
        a \in {"script"}, v \in 0..2, d \in MCOtherStates}

MCPayout(n, v) == [address |-> "ben", token |-> 0, asset |-> v, datum |-> n]

MCPayouts == {<<>>, <<MCPayout(n1, 1)>>, <<MCPayout(n2, 1)>>,
              <<MCPayout(n1, 1), MCPayout(n1, 1)>>}

MCOtherTransactions ==
    {[inputs |-> ins, outputs |-> cont \o pay, mint |-> m, signers |-> who, from |-> f, to |-> 3,
      claim |-> p, initial |-> d] :
        ins \in {{r} : r \in 2..7} \union {{2, r} : r \in 3..7},
        cont \in MCContinuing, pay \in MCPayouts, m \in {0},
        who \in {{"ben", "bystander"}, {"bystander"}}, f \in 0..1,
        p \in MCPermits, d \in {NoDatum}}
    \union
    {[inputs |-> {r}, outputs |-> cont, mint |-> 1, signers |-> {"ben", "bystander"},
      from |-> 0, to |-> 3, claim |-> NoPermit, initial |-> Head(cont).datum] :
        r \in 2..7, cont \in MCContinuing \ {<<>>}}
    \union
    {[inputs |-> {2}, mint |-> 0, signers |-> {"bystander"}, from |-> 0, to |-> 3,
      claim |-> NoPermit, initial |-> NoDatum,
      outputs |-> <<[address |-> "script", token |-> 0, asset |-> 1,
                     datum |-> [policy |-> MCPolicy, consumed |-> <<>>, sequence |-> 0]]>>]}
=============================================================================
