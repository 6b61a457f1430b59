---------------------------- MODULE MCHandOver ----------------------------
(* One good policy, and policies with one field that is missing, too many,   *)
(* of the width of another field, or not hexadecimal.                        *)
EXTENDS HandOver

TheMaxU64 == 7

Good == [f \in stringFields \union {"amount"} |->
    CASE f = "amount" -> 5
      [] f \in {"beneficiaryPkh", "assetPolicyId"} -> Hex(28, f)
      [] OTHER -> Hex(32, f)]

With(f, value) == [g \in DOMAIN Good \union {f} |-> IF g = f THEN value ELSE Good[g]]

ThePolicies ==
    {Good, With("relayPrivateKey", Hex(32, "k"))}
    \union {With("amount", a) : a \in {0, 1, 7, 8}}
    \union {With(f, Hex(n, f)) : f \in stringFields, n \in {0, 28, 32}}
    \union {With(f, NotHex) : f \in stringFields}
    \union {[g \in DOMAIN Good \ {f} |-> Good[g]] : f \in DOMAIN Good}
    \union {With("reviewerTwoPublicKey", Hex(32, "reviewerOnePublicKey"))}

Url(scheme, local) == [scheme |-> scheme, local |-> local, clean |-> TRUE]

Wallet(net, indexer, ws) == [networkId |-> net, indexerUri |-> indexer, indexerWsUri |-> ws]

\* The hosted indexer, a wallet on another network, one without TLS, two with an
\* indexer on the user's machine, and one with only the subscriptions there.
TheWallets ==
    {Wallet("preprod", Url("https", FALSE), Url("wss", FALSE)),
     Wallet("preprod", Url("https", TRUE), Url("wss", TRUE)),
     Wallet("mainnet", Url("https", FALSE), Url("wss", FALSE)),
     Wallet("preprod", Url("http", FALSE), Url("wss", FALSE)),
     Wallet("preprod", Url("http", TRUE), Url("ws", TRUE)),
     Wallet("preprod", Url("https", FALSE), Url("ws", TRUE))}

\* Providers on this machine and a fallback elsewhere.
TheEndpoints == [
    artifactBase |-> Url("https", FALSE), relay |-> Url("http", TRUE),
    kupo |-> Url("http", TRUE), ogmios |-> Url("http", TRUE),
    fallbackKupo |-> Url("https", FALSE), fallbackOgmios |-> Url("https", FALSE)]

TheKeyFiles ==
    {[seed |-> s, private |-> p] : s \in {Hex(32, "relayPublicKey"), Hex(32, "k2"), Hex(31, "k3")},
                                   p \in BOOLEAN}

TheNumbers ==
    {[RELAY_PORT |-> p, PERMIT_TTL_SLOTS |-> t, RELAY_PROVIDER_TIMEOUT_MS |-> 100,
      RELAY_PROVIDER_MAX_ATTEMPTS |-> a] : p \in {80, 1024}, t \in {3600, 3601}, a \in {0, 5}}
=============================================================================
