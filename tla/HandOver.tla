----------------------------- MODULE HandOver -----------------------------
(***************************************************************************)
(* What the deployment ceremony accepts, others read again, each with       *)
(* checks of its own: the Midnight client when it deploys the contract, the *)
(* relay when it starts, the web page when it loads and the Cardano client  *)
(* when it decodes the state of the escrow.  By then the contract and the   *)
(* escrow exist and cannot be changed.                                      *)
(*                                                                          *)
(* The relay reads its configuration in steps; meanwhile the operator, who  *)
(* copies the documents and owns the key file, may change the files.        *)
(* Abstracted: a hexadecimal text is its length in bytes and a name, a URL  *)
(* is its scheme, whether it is local, and whether it is free of            *)
(* credentials and a fragment.                                              *)
(***************************************************************************)
EXTENDS Integers, Sequences

CONSTANTS
    Policies,       \* what is typed into the page: functions of field names
    Wallets,        \* configurations of a Midnight wallet
    Endpoints,      \* public URLs of the page, the Cardano fallback may lack
    KeyFiles,       \* key files: a seed and whether nobody else may read it
    Numbers,        \* the numbers an operator configures
    MaxU64,         \* 2^64 - 1
    None, Refused,  \* nothing there; a policy that was not accepted
    NotHex,         \* a text that is not canonical hexadecimal
    MaxChanges      \* bound: changes the operator makes

Hex(bytes, text) == [bytes |-> bytes, text |-> text]

ASSUME ConstantsAssumption == MaxU64 \in Nat \ {0} /\ MaxChanges \in Nat

VARIABLES
    page,       \* the policy in the page
    wallet,     \* the configuration of the connected wallet
    plan,       \* the finalized deployment, None before, or Refused
    documents,  \* the artifacts that are shown
    host,       \* environment and files of the relay's host
    changes,    \* how often the operator has changed them
    relay,      \* "off", "stat", "seed", "policies", "running", "failed"
    loaded,     \* what the starting relay has read so far
    web,        \* whether the page has loaded its configuration
    datum       \* whether the initial state has been decoded

vars == <<page, wallet, plan, documents, host, changes, relay, loaded, web, datum>>

hasBytes(text, n) == text # NotHex /\ text.bytes = n

-----------------------------------------------------------------------------
(* The ceremony.                                                            *)

stringFields == {"policyId", "escrowId", "milestoneId", "beneficiaryPkh", "actionId",
    "assetPolicyId", "assetName", "reviewerOnePublicKey", "reviewerTwoPublicKey",
    "relayKeyId", "relayPublicKey"}

\* Every field is there and no other; the amount has no upper limit here.
parsePublicPolicy(p) ==
    /\ DOMAIN p = stringFields \union {"amount"}
    /\ p.amount > 0

\* Wrong, as all definitions so named: they are used to see that a property
\* notices.  Here the amount has no upper limit.
wrongDeploymentArguments(p) ==
    /\ p.amount > 0
    /\ \A f \in {"policyId", "escrowId", "milestoneId", "actionId", "assetName",
                 "reviewerOnePublicKey", "reviewerTwoPublicKey"} : hasBytes(p[f], 32)
    /\ hasBytes(p.beneficiaryPkh, 28) /\ hasBytes(p.assetPolicyId, 28)
    /\ p.reviewerOnePublicKey # p.reviewerTwoPublicKey

deploymentArguments(p) ==
    /\ p.amount \in 1..MaxU64
    /\ \A f \in {"policyId", "escrowId", "milestoneId", "actionId", "assetName",
                 "reviewerOnePublicKey", "reviewerTwoPublicKey"} : hasBytes(p[f], 32)
    /\ hasBytes(p.beneficiaryPkh, 28) /\ hasBytes(p.assetPolicyId, 28)
    /\ p.reviewerOnePublicKey # p.reviewerTwoPublicKey

prepareDeployment(p) ==
    /\ hasBytes(p.relayKeyId, 32) /\ hasBytes(p.relayPublicKey, 32)
    /\ deploymentArguments(p)

\* The contract id, validator hash and output reference come from libraries
\* and have their widths; so has the name of the state token.
finalizeDeployment(p) == [
    inputs |-> p,
    midnightContractId |-> Hex(32, "contract"),
    validatorHash |-> Hex(28, "validator"),
    stateThreadAssetName |-> Hex(8, "NP_STATE"),
    initializationTxHash |-> Hex(32, "reserved")]

\* TLS, or no TLS on this machine.
secureProviderEndpoint(url, websocket) ==
    /\ url.clean
    /\ \/ url.scheme = (IF websocket THEN "wss" ELSE "https")
       \/ url.local /\ url.scheme = (IF websocket THEN "ws" ELSE "http")

\* The fallback is a pair or it is not there.
cardanoProviderEndpoints(c) ==
    /\ \A name \in {"kupo", "ogmios"} : secureProviderEndpoint(c[name], FALSE)
    /\ (c.fallbackKupo = None) <=> (c.fallbackOgmios = None)
    /\ c.fallbackKupo # None =>
         \A name \in {"fallbackKupo", "fallbackOgmios"} : secureProviderEndpoint(c[name], FALSE)

\* createDeploymentRuntime.
endpointsOfCeremony ==
    /\ cardanoProviderEndpoints(Endpoints)
    /\ secureProviderEndpoint(Endpoints.artifactBase, FALSE)
    /\ secureProviderEndpoint(Endpoints.relay, FALSE)

\* createMidnightBrowserProviders, before a contract is deployed; artifacts()
\* makes the same checks on the wallet's configuration again.
midnightEndpoints(w) ==
    /\ w.networkId = "preprod"
    /\ secureProviderEndpoint(w.indexerUri, FALSE)
    /\ secureProviderEndpoint(w.indexerWsUri, TRUE)

relayPolicyDocument(d) == [
    version |-> 1,
    policies |-> <<[f \in {"policyId", "escrowId", "milestoneId", "beneficiaryPkh", "actionId",
                           "assetPolicyId", "assetName", "amount", "cardanoValidatorHash"} |->
                        IF f = "cardanoValidatorHash" THEN d.validatorHash ELSE d.inputs[f]]>>]

\* NotHex, and None in place of a document or a key file, are told apart from
\* what the ceremony makes.
ASSUME TextAssumption ==
    /\ \A n \in {8, 28, 32}, text \in {"contract", "validator", "NP_STATE", "reserved"} :
          Hex(n, text) # NotHex
    /\ \A p \in Policies : parsePublicPolicy(p) /\ prepareDeployment(p) =>
          /\ relayPolicyDocument(finalizeDeployment(p)) # None
          /\ [seed |-> p.relayPublicKey, private |-> TRUE] # None

relayPublicEnvironment(d, w) == [
    MIDNIGHT_NETWORK |-> "preprod",
    MIDNIGHT_INDEXER_URL |-> w.indexerUri, MIDNIGHT_INDEXER_WS_URL |-> w.indexerWsUri,
    MIDNIGHT_CONTRACT_ID |-> d.midnightContractId,
    OGMIOS_URL |-> Endpoints.ogmios,
    RELAY_KEY_ID |-> d.inputs.relayKeyId, RELAY_PUBLIC_KEY |-> d.inputs.relayPublicKey]

browserEnvironment(d) == [
    VITE_RELAY_PUBLIC_KEY |-> d.inputs.relayPublicKey,
    VITE_MIDNIGHT_CONTRACT_ID |-> d.midnightContractId,
    endpoints |-> Endpoints,
    VITE_CARDANO_INITIALIZATION_TX_HASH |-> d.initializationTxHash]

-----------------------------------------------------------------------------
(* The configuration of the relay.                                          *)

limits == [
    RELAY_PORT |-> 1024..65535,
    PERMIT_TTL_SLOTS |-> 1..3600,
    RELAY_PROVIDER_TIMEOUT_MS |-> 100..10000,
    RELAY_PROVIDER_MAX_ATTEMPTS |-> 1..5]

parseInteger(number, name) == number \in limits[name]

parseUrl(url, protocols) == url.scheme \in protocols /\ url.clean

\* parsePolicy, for one entry of the file.
parsePolicy(p) ==
    /\ DOMAIN p \subseteq {"policyId", "escrowId", "milestoneId", "beneficiaryPkh", "actionId",
                           "assetPolicyId", "assetName", "amount", "cardanoValidatorHash"}
    /\ p.amount \in 1..MaxU64
    /\ \A f \in {"policyId", "escrowId", "milestoneId", "actionId", "assetName"} :
            hasBytes(p[f], 32)
    /\ \A f \in {"beneficiaryPkh", "assetPolicyId", "cardanoValidatorHash"} : hasBytes(p[f], 28)

readPolicies(file) ==
    /\ file # None
    /\ file.version = 1
    /\ Len(file.policies) = 1
    /\ parsePolicy(file.policies[1])

\* Everything in the environment but the key and the policy file.
parseEnvironment(env, numbers) ==
    /\ parseUrl(env.MIDNIGHT_INDEXER_URL, {"https"})
    /\ parseUrl(env.MIDNIGHT_INDEXER_WS_URL, {"wss"})
    /\ parseUrl(env.OGMIOS_URL, {"http", "https"})
    /\ hasBytes(env.MIDNIGHT_CONTRACT_ID, 32) /\ hasBytes(env.RELAY_KEY_ID, 32)
    /\ \A name \in DOMAIN limits : parseInteger(numbers[name], name)

\* A seed and its public key have the same name.
getRelayPublicKey(seed) == seed

-----------------------------------------------------------------------------
(* The web page and the escrow's state.                                     *)

\* relayUrl and productConfigFromEnvironment; the compiled code and the output
\* index are data.
relayUrl(url) ==
    /\ url.clean
    /\ url.scheme = "https" \/ (url.scheme = "http" /\ url.local)

productConfigFromEnvironment(env) ==
    /\ hasBytes(env.VITE_RELAY_PUBLIC_KEY, 32)
    /\ hasBytes(env.VITE_MIDNIGHT_CONTRACT_ID, 32)
    /\ secureProviderEndpoint(env.endpoints.artifactBase, FALSE)
    /\ cardanoProviderEndpoints(env.endpoints)
    /\ hasBytes(env.VITE_CARDANO_INITIALIZATION_TX_HASH, 32)

\* encodeValidatorState, and asHex and asInteger of decodeValidatorState.
decodeValidatorState(d) ==
    /\ hasBytes(d.validatorHash, 28)
    /\ d.stateThreadAssetName.bytes \in 0..32
    /\ hasBytes(d.midnightContractId, 32)
    /\ \A f \in {"policyId", "escrowId", "milestoneId", "actionId", "relayKeyId",
                 "relayPublicKey"} : hasBytes(d.inputs[f], 32)
    /\ hasBytes(d.inputs.beneficiaryPkh, 28)
    /\ d.inputs.assetPolicyId # NotHex /\ d.inputs.assetPolicyId.bytes \in 0..28
    /\ d.inputs.assetName # NotHex /\ d.inputs.assetName.bytes \in 0..32
    /\ d.inputs.amount >= 0

-----------------------------------------------------------------------------
(* Steps of the ceremony.                                                   *)

\* The policy and the wallet are checked before a transaction, and then the
\* contract is deployed.
Deploy ==
    /\ plan = None
    /\ plan' = IF /\ endpointsOfCeremony
                  /\ parsePublicPolicy(page) /\ prepareDeployment(page)
                  /\ midnightEndpoints(wallet)
               THEN finalizeDeployment(page) ELSE Refused
    /\ UNCHANGED <<page, wallet, documents, host, changes, relay, loaded, web, datum>>

\* artifacts(): the URLs of the indexer are those of the wallet.
Artifacts ==
    /\ plan \notin {None, Refused} /\ documents = None
    /\ midnightEndpoints(wallet)
    /\ documents' = [browserEnvironment |-> browserEnvironment(plan),
                     relayEnvironment |-> relayPublicEnvironment(plan, wallet),
                     relayPolicy |-> relayPolicyDocument(plan)]
    /\ UNCHANGED <<page, wallet, plan, host, changes, relay, loaded, web, datum>>

LoadPage ==
    /\ documents # None /\ web = "no"
    /\ web' = IF /\ productConfigFromEnvironment(documents.browserEnvironment)
                 /\ relayUrl(documents.browserEnvironment.endpoints.relay)
              THEN "yes" ELSE "refused"
    /\ UNCHANGED <<page, wallet, plan, documents, host, changes, relay, loaded, datum>>

ReadState ==
    /\ plan \notin {None, Refused} /\ datum = "no"
    /\ datum' = IF decodeValidatorState(plan) THEN "yes" ELSE "refused"
    /\ UNCHANGED <<page, wallet, plan, documents, host, changes, relay, loaded, web>>

-----------------------------------------------------------------------------
(* The operator.                                                            *)

\* The documents are copied, and a key file for the key of the policy is there.
Install ==
    /\ documents # None /\ host.env = None
    /\ host' = [host EXCEPT !.env = documents.relayEnvironment,
                            !.policy = documents.relayPolicy,
                            !.key = [seed |-> plan.inputs.relayPublicKey, private |-> TRUE]]
    /\ UNCHANGED <<page, wallet, plan, documents, changes, relay, loaded, web, datum>>

\* One of the files, the key in the environment or a number is changed.
Change ==
    /\ host.env # None /\ changes < MaxChanges
    /\ \/ \E k \in KeyFiles : host' = [host EXCEPT !.key = k]
       \/ \E k \in KeyFiles : host' = [host EXCEPT !.env.RELAY_PUBLIC_KEY = k.seed]
       \/ \E n \in Numbers : host' = [host EXCEPT !.numbers = n]
       \/ \E f \in {None, [version |-> 2, policies |-> <<>>], [version |-> 1, policies |-> <<>>]} :
              host' = [host EXCEPT !.policy = f]
    /\ changes' = changes + 1
    /\ UNCHANGED <<page, wallet, plan, documents, relay, loaded, web, datum>>

-----------------------------------------------------------------------------
(* loadConfig, from one await to the next.                                  *)

Step(from, ok, to) ==
    /\ relay = from
    /\ relay' = IF ok THEN to ELSE "failed"
    /\ UNCHANGED <<page, wallet, plan, documents, host, changes, web, datum>>

\* The environment is taken when the process starts; the key file is looked at.
Start ==
    /\ host.env # None
    /\ Step("off", TRUE, "stat")
    /\ loaded' = [env |-> host.env, numbers |-> host.numbers, seed |-> None, policy |-> None]

StatKey ==
    /\ Step("stat", host.key # None /\ host.key.private, "seed")
    /\ UNCHANGED loaded

\* Wrong: the seed is not compared with the public key.
wrongReadKey ==
    LET seed == IF host.key = None THEN NotHex ELSE host.key.seed IN
    /\ Step("seed", hasBytes(seed, 32) /\ parseEnvironment(loaded.env, loaded.numbers), "policies")
    /\ loaded' = [loaded EXCEPT !.seed = seed]

\* The content is read, and compared with the public key; the rest of the
\* environment is parsed before the policy file is opened.
ReadKey ==
    LET seed == IF host.key = None THEN NotHex ELSE host.key.seed IN
    /\ Step("seed", /\ hasBytes(seed, 32)
                    /\ getRelayPublicKey(seed) = loaded.env.RELAY_PUBLIC_KEY
                    /\ parseEnvironment(loaded.env, loaded.numbers),
            "policies")
    /\ loaded' = [loaded EXCEPT !.seed = seed]

ReadPolicies ==
    /\ Step("policies", readPolicies(host.policy), "running")
    /\ loaded' = [loaded EXCEPT !.policy = host.policy]

\* The process ends and may be started again.
Stop ==
    /\ relay \in {"running", "failed"}
    /\ Step(relay, TRUE, "off")
    /\ loaded' = None

-----------------------------------------------------------------------------
Init ==
    /\ page \in Policies /\ wallet \in Wallets
    /\ plan = None /\ documents = None
    /\ host = [env |-> None, policy |-> None, key |-> None,
               numbers |-> [RELAY_PORT |-> 8787, PERMIT_TTL_SLOTS |-> 600,
                            RELAY_PROVIDER_TIMEOUT_MS |-> 5000, RELAY_PROVIDER_MAX_ATTEMPTS |-> 3]]
    /\ changes = 0
    /\ relay = "off" /\ loaded = None /\ web = "no" /\ datum = "no"

Next ==
    \/ Deploy \/ Artifacts \/ LoadPage \/ ReadState
    \/ Install \/ Change
    \/ Start \/ StatKey \/ ReadKey \/ ReadPolicies \/ Stop

Spec == Init /\ [][Next]_vars

-----------------------------------------------------------------------------
(* Properties.                                                              *)

indexerWithoutTls ==
    wallet.indexerUri.scheme = "http" \/ wallet.indexerWsUri.scheme = "ws"

\* What the ceremony has accepted, nobody refuses afterwards: not the page,
\* not the Cardano client, and not the relay.  The exceptions: the operator has
\* changed something; or an endpoint of the wallet's indexer is without TLS,
\* which the ceremony allows on the user's machine and the relay does not.
HandOverIsAccepted ==
    /\ web # "refused" /\ datum # "refused"
    /\ relay = "failed" => changes > 0 \/ indexerWithoutTls

\* A relay that runs signs with the key of its configuration, whatever was
\* done to the files while it started; so a changed key file alone never
\* makes it sign with another key than the one fixed in the escrow.
RunningKeepsAuthority ==
    relay = "running" /\ loaded.env.RELAY_PUBLIC_KEY = plan.inputs.relayPublicKey =>
        getRelayPublicKey(loaded.seed) = plan.inputs.relayPublicKey

-----------------------------------------------------------------------------
(* The inductive invariant behind both properties.                          *)

accepted == plan \notin {None, Refused}

\* A plan is made of what has been checked, and the documents are made of it.
PlanIsChecked ==
    /\ accepted =>
          /\ endpointsOfCeremony
          /\ parsePublicPolicy(page) /\ prepareDeployment(page)
          /\ midnightEndpoints(wallet)
          /\ plan = finalizeDeployment(page)
    /\ documents # None =>
          /\ accepted
          /\ documents = [browserEnvironment |-> browserEnvironment(plan),
                          relayEnvironment |-> relayPublicEnvironment(plan, wallet),
                          relayPolicy |-> relayPolicyDocument(plan)]

defaults == [RELAY_PORT |-> 8787, PERMIT_TTL_SLOTS |-> 600,
             RELAY_PROVIDER_TIMEOUT_MS |-> 5000, RELAY_PROVIDER_MAX_ATTEMPTS |-> 3]

\* As long as the operator has changed nothing, the host has what was handed over.
HostIsInstalled ==
    /\ host = [env |-> host.env, policy |-> host.policy, key |-> host.key,
               numbers |-> host.numbers]
    /\ changes \in Nat
    /\ changes = 0 /\ host.env = None => host.numbers = defaults
    /\ changes = 0 /\ host.env # None =>
          /\ documents # None /\ host.numbers = defaults
          /\ host.env = documents.relayEnvironment
          /\ host.policy = documents.relayPolicy
          /\ host.key = [seed |-> plan.inputs.relayPublicKey, private |-> TRUE]

\* The relay works on what it has read, and read its environment once.
RelayHasRead ==
    /\ relay \in {"stat", "seed", "policies", "running", "failed"} =>
          /\ loaded = [env |-> loaded.env, numbers |-> loaded.numbers, seed |-> loaded.seed,
                       policy |-> loaded.policy]
          /\ changes = 0 =>
                /\ host.env # None
                /\ loaded.env = host.env /\ loaded.numbers = host.numbers
    /\ relay \in {"policies", "running"} =>
          getRelayPublicKey(loaded.seed) = loaded.env.RELAY_PUBLIC_KEY

HandOverInv ==
    /\ page \in Policies
    /\ PlanIsChecked
    /\ HostIsInstalled
    /\ RelayHasRead
    /\ HandOverIsAccepted
=============================================================================
