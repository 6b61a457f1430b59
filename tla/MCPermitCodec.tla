--------------------------- MODULE MCPermitCodec ---------------------------
(* A byte of three values, so that a marker or a length may be neither 0     *)
(* nor 1, and integers of two bytes, whose order matters.                    *)
EXTENDS PermitCodec

\* A permit that encodePermit accepts: fields beside each other differ.
Good(index, assetPolicyId, assetName, notBefore, expires) == [
    version |-> 1, domain |-> 1, midnightNetwork |-> 1,
    midnightContractId |-> <<0>>, midnightTxId |-> <<1>>, authorizationIndex |-> index,
    policyId |-> <<2>>, escrowId |-> <<0>>, milestoneId |-> <<1>>,
    beneficiaryPkh |-> <<0, 2>>, actionId |-> <<2>>,
    entitlement |-> [policyId |-> <<2>>, escrowId |-> <<0>>, milestoneId |-> <<1>>,
                     assetPolicyId |-> assetPolicyId, assetName |-> assetName, amount |-> 5],
    nullifier |-> <<2>>, notBeforeSlot |-> notBefore, expiresAtSlot |-> expires,
    cardanoValidatorHash |-> <<1, 1>>, relayKeyId |-> <<0>>]

Some == Good(<<1>>, <<1, 0>>, <<2>>, <<3>>, 7)

\* What encodePermit refuses, and what is at the edge of its checks.
Odd == {
    [Some EXCEPT !.version = 2],
    [Some EXCEPT !.domain = 2],
    [Some EXCEPT !.entitlement.escrowId = <<1>>],
    [Some EXCEPT !.entitlement.amount = 9],
    [Some EXCEPT !.entitlement.assetPolicyId = <<1>>],
    [Some EXCEPT !.entitlement.assetName = <<1, 2, 0>>],
    [Some EXCEPT !.authorizationIndex = <<3>>],
    [Some EXCEPT !.authorizationIndex = <<-1>>],
    [Some EXCEPT !.notBeforeSlot = <<8>>],
    [Some EXCEPT !.expiresAtSlot = 9],
    [Some EXCEPT !.relayKeyId = <<0, 1>>]}

\* Every optional field there and not there, every length, both ends of the
\* integers, and a permit that is not valid before the slot of its expiry.
SomePermits == Odd \union {
    Some,
    Good(<<>>, <<>>, <<>>, <<>>, 3),
    Good(<<0>>, <<>>, <<2>>, <<0>>, 8),
    Good(<<2>>, <<0, 1>>, <<>>, <<8>>, 8),
    Good(<<>>, <<2, 2>>, <<0>>, <<3>>, 3)}

TheMagic == <<2>>
=============================================================================
