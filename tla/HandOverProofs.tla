-------------------------- MODULE HandOverProofs --------------------------
(***************************************************************************)
(* Proofs about HandOver, for any policies, wallets, endpoints, key files   *)
(* and numbers: what the ceremony has accepted passes every later check,    *)
(* and a relay that runs has the key it names.                              *)
(***************************************************************************)
EXTENDS HandOver, TLAPS

-----------------------------------------------------------------------------
(* The checks imply one another.                                            *)

\* A page that is built from an accepted plan starts.
LEMMA PagePasses ==
  ASSUME PlanIsChecked, documents # None
  PROVE  /\ productConfigFromEnvironment(documents.browserEnvironment)
         /\ relayUrl(documents.browserEnvironment.endpoints.relay)
<1> DEFINE env == documents.browserEnvironment
<1>1. /\ endpointsOfCeremony /\ prepareDeployment(page)
      /\ plan = finalizeDeployment(page) /\ env = browserEnvironment(plan)
  BY DEF PlanIsChecked
<1>2. /\ env.VITE_RELAY_PUBLIC_KEY = page.relayPublicKey
      /\ env.VITE_MIDNIGHT_CONTRACT_ID = Hex(32, "contract")
      /\ env.VITE_CARDANO_INITIALIZATION_TX_HASH = Hex(32, "reserved")
      /\ env.endpoints = Endpoints
  BY <1>1 DEF browserEnvironment, finalizeDeployment
<1>3. /\ hasBytes(Hex(32, "contract"), 32) /\ hasBytes(Hex(32, "reserved"), 32)
      /\ hasBytes(page.relayPublicKey, 32)
  BY <1>1, TextAssumption DEF hasBytes, Hex, prepareDeployment
<1>4. relayUrl(Endpoints.relay)
  BY <1>1 DEF endpointsOfCeremony, relayUrl, secureProviderEndpoint
<1>5. cardanoProviderEndpoints(Endpoints) /\ secureProviderEndpoint(Endpoints.artifactBase, FALSE)
  BY <1>1 DEF endpointsOfCeremony
<1> QED
  BY <1>2, <1>3, <1>4, <1>5 DEF productConfigFromEnvironment

\* The Cardano client decodes the state it has encoded from an accepted plan.
LEMMA StatePasses ==
  ASSUME PlanIsChecked, accepted
  PROVE  decodeValidatorState(plan)
<1>1. /\ deploymentArguments(page) /\ hasBytes(page.relayKeyId, 32)
      /\ hasBytes(page.relayPublicKey, 32) /\ plan = finalizeDeployment(page)
  BY DEF PlanIsChecked, prepareDeployment
<1>2. /\ plan.inputs = page /\ plan.validatorHash = Hex(28, "validator")
      /\ plan.stateThreadAssetName = Hex(8, "NP_STATE")
      /\ plan.midnightContractId = Hex(32, "contract")
  BY <1>1 DEF finalizeDeployment
<1>3. /\ hasBytes(Hex(28, "validator"), 28) /\ hasBytes(Hex(32, "contract"), 32)
      /\ Hex(8, "NP_STATE").bytes \in 0..32
  BY TextAssumption DEF hasBytes, Hex
<1>4. /\ page.amount \in 1..MaxU64 /\ page.amount >= 0
      /\ \A f \in {"policyId", "escrowId", "milestoneId", "actionId", "assetName"} :
            hasBytes(page[f], 32)
      /\ hasBytes(page.beneficiaryPkh, 28) /\ hasBytes(page.assetPolicyId, 28)
  BY <1>1, ConstantsAssumption DEF deploymentArguments
<1>5. \A f \in {"policyId", "escrowId", "milestoneId", "actionId", "relayKeyId",
                 "relayPublicKey"} : hasBytes(page[f], 32)
  BY <1>1, <1>4
<1>6. /\ page.assetPolicyId # NotHex /\ page.assetPolicyId.bytes \in 0..28
      /\ page.assetName # NotHex /\ page.assetName.bytes \in 0..32
  <2>1. hasBytes(page.assetName, 32) /\ hasBytes(page.assetPolicyId, 28)
    BY <1>4
  <2> QED
    BY <2>1 DEF hasBytes
<1> QED
  BY <1>2, <1>3, <1>4, <1>5, <1>6 DEF decodeValidatorState

\* The rest is about a host on which nothing has been changed.
LEMMA KeyPasses ==
  ASSUME HandOverInv, changes = 0, host.env # None
  PROVE  /\ host.key # None /\ host.key.private
         /\ hasBytes(host.key.seed, 32)
         /\ getRelayPublicKey(host.key.seed) = host.env.RELAY_PUBLIC_KEY
<1>1. /\ host.env = documents.relayEnvironment /\ documents # None
      /\ host.key = [seed |-> plan.inputs.relayPublicKey, private |-> TRUE]
  BY DEF HandOverInv, HostIsInstalled
<1>2. /\ prepareDeployment(page) /\ parsePublicPolicy(page) /\ page \in Policies
      /\ plan = finalizeDeployment(page)
      /\ documents.relayEnvironment = relayPublicEnvironment(plan, wallet)
  BY <1>1 DEF HandOverInv, PlanIsChecked
<1>3. plan.inputs = page /\ host.env.RELAY_PUBLIC_KEY = page.relayPublicKey
  BY <1>1, <1>2 DEF finalizeDeployment, relayPublicEnvironment
<1>4. hasBytes(page.relayPublicKey, 32)
  BY <1>2 DEF prepareDeployment
<1>5. [seed |-> page.relayPublicKey, private |-> TRUE] # None
  BY <1>2, TextAssumption
<1> QED
  BY <1>1, <1>3, <1>4, <1>5 DEF getRelayPublicKey

LEMMA EnvironmentPasses ==
  ASSUME HandOverInv, changes = 0, host.env # None, ~indexerWithoutTls
  PROVE  parseEnvironment(host.env, host.numbers)
<1>1. /\ host.env = documents.relayEnvironment /\ documents # None
      /\ host.numbers = defaults
  BY DEF HandOverInv, HostIsInstalled
<1>2. /\ prepareDeployment(page) /\ midnightEndpoints(wallet) /\ endpointsOfCeremony
      /\ plan = finalizeDeployment(page)
      /\ documents.relayEnvironment = relayPublicEnvironment(plan, wallet)
  BY <1>1 DEF HandOverInv, PlanIsChecked
<1>3. /\ host.env.MIDNIGHT_INDEXER_URL = wallet.indexerUri
      /\ host.env.MIDNIGHT_INDEXER_WS_URL = wallet.indexerWsUri
      /\ host.env.OGMIOS_URL = Endpoints.ogmios
      /\ host.env.MIDNIGHT_CONTRACT_ID = Hex(32, "contract")
      /\ host.env.RELAY_KEY_ID = page.relayKeyId
  BY <1>1, <1>2 DEF finalizeDeployment, relayPublicEnvironment
<1>4. /\ parseUrl(wallet.indexerUri, {"https"}) /\ parseUrl(wallet.indexerWsUri, {"wss"})
  BY <1>2 DEF midnightEndpoints, secureProviderEndpoint, indexerWithoutTls, parseUrl
<1>5. parseUrl(Endpoints.ogmios, {"http", "https"})
  <2>1. secureProviderEndpoint(Endpoints["ogmios"], FALSE)
    BY <1>2 DEF endpointsOfCeremony, cardanoProviderEndpoints
  <2> QED
    BY <2>1 DEF secureProviderEndpoint, parseUrl
<1>6. hasBytes(Hex(32, "contract"), 32) /\ hasBytes(page.relayKeyId, 32)
  BY <1>2, TextAssumption DEF prepareDeployment, hasBytes, Hex
<1>7. \A name \in DOMAIN limits : parseInteger(defaults[name], name)
  <2>1. DOMAIN limits = {"RELAY_PORT", "PERMIT_TTL_SLOTS", "RELAY_PROVIDER_TIMEOUT_MS",
                         "RELAY_PROVIDER_MAX_ATTEMPTS"}
    BY DEF limits
  <2>2. defaults.RELAY_PORT \in limits.RELAY_PORT
    BY DEF limits, defaults
  <2>3. defaults.PERMIT_TTL_SLOTS \in limits.PERMIT_TTL_SLOTS
    BY DEF limits, defaults
  <2>4. defaults.RELAY_PROVIDER_TIMEOUT_MS \in limits.RELAY_PROVIDER_TIMEOUT_MS
    BY DEF limits, defaults
  <2>5. defaults.RELAY_PROVIDER_MAX_ATTEMPTS \in limits.RELAY_PROVIDER_MAX_ATTEMPTS
    BY DEF limits, defaults
  <2> QED
    BY <2>1, <2>2, <2>3, <2>4, <2>5 DEF parseInteger
<1> QED
  BY <1>1, <1>3, <1>4, <1>5, <1>6, <1>7 DEF parseEnvironment

LEMMA PoliciesPass ==
  ASSUME HandOverInv, changes = 0, host.env # None
  PROVE  readPolicies(host.policy)
<1>1. host.policy = documents.relayPolicy /\ documents # None
  BY DEF HandOverInv, HostIsInstalled
<1>2. /\ deploymentArguments(page) /\ prepareDeployment(page) /\ parsePublicPolicy(page)
      /\ page \in Policies
      /\ plan = finalizeDeployment(page)
      /\ documents.relayPolicy = relayPolicyDocument(plan)
  BY <1>1 DEF HandOverInv, PlanIsChecked, prepareDeployment
<1> DEFINE fields == {"policyId", "escrowId", "milestoneId", "beneficiaryPkh", "actionId",
                      "assetPolicyId", "assetName", "amount", "cardanoValidatorHash"}
           entry == [f \in fields |->
                        IF f = "cardanoValidatorHash" THEN Hex(28, "validator") ELSE page[f]]
<1>3. host.policy = [version |-> 1, policies |-> <<entry>>]
  BY <1>1, <1>2 DEF relayPolicyDocument, finalizeDeployment
<1>4. host.policy # None
  BY <1>1, <1>2, TextAssumption
<1>5. parsePolicy(entry)
  <2>1. DOMAIN entry = fields /\ entry["amount"] = page.amount
    OBVIOUS
  <2>2. page.amount \in 1..MaxU64
    BY <1>2 DEF deploymentArguments
  <2>3. \A f \in {"policyId", "escrowId", "milestoneId", "actionId", "assetName"} :
            hasBytes(entry[f], 32)
    BY <1>2 DEF deploymentArguments
  <2>4. hasBytes(Hex(28, "validator"), 28)
    BY TextAssumption DEF hasBytes, Hex
  <2>5. \A f \in {"beneficiaryPkh", "assetPolicyId", "cardanoValidatorHash"} :
            hasBytes(entry[f], 28)
    BY <1>2, <2>4 DEF deploymentArguments
  <2> HIDE DEF entry
  <2> QED
    BY <2>1, <2>2, <2>3, <2>5 DEF parsePolicy
<1> HIDE DEF entry
<1> QED
  BY <1>3, <1>4, <1>5 DEF readPolicies

-----------------------------------------------------------------------------
(* Every action preserves the invariant.                                    *)

LEMMA DeployInd ==
  ASSUME HandOverInv, Deploy
  PROVE  HandOverInv'
<1>1. /\ plan = None
      /\ UNCHANGED <<page, wallet, documents, host, changes, relay, loaded, web, datum>>
  BY DEF Deploy
<1>2. documents = None
  BY <1>1 DEF HandOverInv, PlanIsChecked, accepted
<1>3. PlanIsChecked'
  <2>1. accepted' => /\ endpointsOfCeremony /\ parsePublicPolicy(page) /\ prepareDeployment(page)
                     /\ midnightEndpoints(wallet) /\ plan' = finalizeDeployment(page)
    BY DEF Deploy, accepted
  <2> QED
    BY <1>1, <1>2, <2>1 DEF PlanIsChecked
<1>4. HostIsInstalled'
  BY <1>1, <1>2 DEF HandOverInv, HostIsInstalled
<1>5. RelayHasRead' /\ HandOverIsAccepted'
  BY <1>1 DEF HandOverInv, RelayHasRead, HandOverIsAccepted, indexerWithoutTls
<1> QED
  BY <1>1, <1>3, <1>4, <1>5 DEF HandOverInv

LEMMA ArtifactsInd ==
  ASSUME HandOverInv, Artifacts
  PROVE  HandOverInv'
<1>1. /\ plan \notin {None, Refused} /\ documents = None
      /\ documents' = [browserEnvironment |-> browserEnvironment(plan),
                       relayEnvironment |-> relayPublicEnvironment(plan, wallet),
                       relayPolicy |-> relayPolicyDocument(plan)]
      /\ UNCHANGED <<page, wallet, plan, host, changes, relay, loaded, web, datum>>
  BY DEF Artifacts
<1>2. PlanIsChecked'
  BY <1>1 DEF HandOverInv, PlanIsChecked, accepted
<1>3. HostIsInstalled'
  BY <1>1 DEF HandOverInv, HostIsInstalled
<1>4. RelayHasRead' /\ HandOverIsAccepted'
  BY <1>1 DEF HandOverInv, RelayHasRead, HandOverIsAccepted, indexerWithoutTls
<1> QED
  BY <1>1, <1>2, <1>3, <1>4 DEF HandOverInv

LEMMA LoadPageInd ==
  ASSUME HandOverInv, LoadPage
  PROVE  HandOverInv'
<1>1. /\ documents # None
      /\ UNCHANGED <<page, wallet, plan, documents, host, changes, relay, loaded, datum>>
  BY DEF LoadPage
<1>2. PlanIsChecked
  BY DEF HandOverInv
<1>3. web' = "yes"
  BY <1>1, <1>2, PagePasses DEF LoadPage
<1>4. HandOverIsAccepted'
  BY <1>1, <1>3 DEF HandOverInv, HandOverIsAccepted, indexerWithoutTls
<1>5. PlanIsChecked' /\ HostIsInstalled' /\ RelayHasRead'
  BY <1>1 DEF HandOverInv, PlanIsChecked, accepted, HostIsInstalled, RelayHasRead
<1> QED
  BY <1>1, <1>4, <1>5 DEF HandOverInv

LEMMA ReadStateInd ==
  ASSUME HandOverInv, ReadState
  PROVE  HandOverInv'
<1>1. /\ accepted
      /\ UNCHANGED <<page, wallet, plan, documents, host, changes, relay, loaded, web>>
  BY DEF ReadState, accepted
<1>2. PlanIsChecked
  BY DEF HandOverInv
<1>3. datum' = "yes"
  BY <1>1, <1>2, StatePasses DEF ReadState
<1>4. HandOverIsAccepted'
  BY <1>1, <1>3 DEF HandOverInv, HandOverIsAccepted, indexerWithoutTls
<1>5. PlanIsChecked' /\ HostIsInstalled' /\ RelayHasRead'
  BY <1>1 DEF HandOverInv, PlanIsChecked, accepted, HostIsInstalled, RelayHasRead
<1> QED
  BY <1>1, <1>4, <1>5 DEF HandOverInv

\* The relay of a host that has no environment, and has not been changed, is off.
LEMMA InstallInd ==
  ASSUME HandOverInv, Install
  PROVE  HandOverInv'
<1>1. /\ documents # None /\ host.env = None
      /\ UNCHANGED <<page, wallet, plan, documents, changes, relay, loaded, web, datum>>
      /\ host' = [host EXCEPT !.env = documents.relayEnvironment,
                              !.policy = documents.relayPolicy,
                              !.key = [seed |-> plan.inputs.relayPublicKey, private |-> TRUE]]
  BY DEF Install
<1>2. /\ host = [env |-> host.env, policy |-> host.policy, key |-> host.key,
                 numbers |-> host.numbers]
      /\ changes \in Nat
      /\ changes = 0 => host.numbers = defaults
  BY <1>1 DEF HandOverInv, HostIsInstalled
<1>3. host' = [env |-> documents.relayEnvironment, policy |-> documents.relayPolicy,
               key |-> [seed |-> plan.inputs.relayPublicKey, private |-> TRUE],
               numbers |-> host.numbers]
  BY <1>1, <1>2
<1>4. HostIsInstalled'
  BY <1>1, <1>2, <1>3 DEF HostIsInstalled
<1>5. RelayHasRead'
  BY <1>1 DEF HandOverInv, RelayHasRead
<1>6. PlanIsChecked' /\ HandOverIsAccepted'
  BY <1>1 DEF HandOverInv, PlanIsChecked, accepted, HandOverIsAccepted, indexerWithoutTls
<1> QED
  BY <1>1, <1>4, <1>5, <1>6 DEF HandOverInv

LEMMA ChangeInd ==
  ASSUME HandOverInv, Change
  PROVE  HandOverInv'
<1>1. /\ changes \in Nat /\ changes' = changes + 1
      /\ UNCHANGED <<page, wallet, plan, documents, relay, loaded, web, datum>>
  BY DEF HandOverInv, HostIsInstalled, Change
<1>2. changes' \in Nat /\ changes' > 0
  BY <1>1
<1>3. host = [env |-> host.env, policy |-> host.policy, key |-> host.key,
              numbers |-> host.numbers]
  BY DEF HandOverInv, HostIsInstalled
<1>4. host' = [env |-> host'.env, policy |-> host'.policy, key |-> host'.key,
               numbers |-> host'.numbers]
  BY <1>3 DEF Change
<1>5. HostIsInstalled'
  BY <1>2, <1>4 DEF HostIsInstalled
<1>6. RelayHasRead' /\ HandOverIsAccepted'
  BY <1>1, <1>2 DEF HandOverInv, RelayHasRead, HandOverIsAccepted
<1>7. PlanIsChecked'
  BY <1>1 DEF HandOverInv, PlanIsChecked, accepted
<1> QED
  BY <1>1, <1>5, <1>6, <1>7 DEF HandOverInv

\* What the steps of the relay have in common.
LEMMA RelayStep ==
  ASSUME HandOverInv, RelayHasRead',
         UNCHANGED <<page, wallet, plan, documents, host, changes, web, datum>>,
         relay' = "failed" => relay = "failed" \/ changes > 0 \/ indexerWithoutTls
  PROVE  HandOverInv'
<1>1. PlanIsChecked' /\ HostIsInstalled'
  BY DEF HandOverInv, PlanIsChecked, accepted, HostIsInstalled
<1>2. HandOverIsAccepted'
  BY DEF HandOverInv, HandOverIsAccepted, indexerWithoutTls
<1> QED
  BY <1>1, <1>2 DEF HandOverInv

LEMMA StartInd ==
  ASSUME HandOverInv, Start
  PROVE  HandOverInv'
<1>1. /\ host.env # None /\ relay' = "stat"
      /\ loaded' = [env |-> host.env, numbers |-> host.numbers, seed |-> None, policy |-> None]
      /\ UNCHANGED <<page, wallet, plan, documents, host, changes, web, datum>>
  BY DEF Start, Step
<1>2. RelayHasRead'
  BY <1>1 DEF RelayHasRead
<1> QED
  BY <1>1, <1>2, RelayStep

LEMMA StatKeyInd ==
  ASSUME HandOverInv, StatKey
  PROVE  HandOverInv'
<1>1. /\ relay = "stat"
      /\ relay' = IF host.key # None /\ host.key.private THEN "seed" ELSE "failed"
      /\ UNCHANGED <<page, wallet, plan, documents, host, changes, web, datum, loaded>>
  BY DEF StatKey, Step
<1>2. RelayHasRead'
  BY <1>1 DEF HandOverInv, RelayHasRead
<1>3. changes = 0 => host.env # None
  BY <1>1 DEF HandOverInv, RelayHasRead
<1>4. relay' = "failed" => changes > 0
  BY <1>1, <1>3, KeyPasses DEF HandOverInv, HostIsInstalled
<1> QED
  BY <1>1, <1>2, <1>4, RelayStep

LEMMA ReadKeyInd ==
  ASSUME HandOverInv, ReadKey
  PROVE  HandOverInv'
<1> DEFINE seed == IF host.key = None THEN NotHex ELSE host.key.seed
           ok == /\ hasBytes(seed, 32)
                 /\ getRelayPublicKey(seed) = loaded.env.RELAY_PUBLIC_KEY
                 /\ parseEnvironment(loaded.env, loaded.numbers)
<1>1. /\ relay = "seed" /\ relay' = IF ok THEN "policies" ELSE "failed"
      /\ loaded' = [loaded EXCEPT !.seed = seed]
      /\ UNCHANGED <<page, wallet, plan, documents, host, changes, web, datum>>
  BY DEF ReadKey, Step
<1>2. /\ loaded = [env |-> loaded.env, numbers |-> loaded.numbers, seed |-> loaded.seed,
                   policy |-> loaded.policy]
      /\ changes = 0 => /\ host.env # None
                        /\ loaded.env = host.env /\ loaded.numbers = host.numbers
  BY <1>1 DEF HandOverInv, RelayHasRead
<1>3. loaded' = [env |-> loaded.env, numbers |-> loaded.numbers, seed |-> seed,
                 policy |-> loaded.policy]
  BY <1>1, <1>2
<1>4. relay' = "failed" => changes > 0 \/ indexerWithoutTls
  <2> SUFFICES ASSUME ~(changes > 0), ~indexerWithoutTls
               PROVE  ok
    BY <1>1
  <2>1. changes = 0
    BY DEF HandOverInv, HostIsInstalled
  <2>2. /\ host.key # None /\ hasBytes(host.key.seed, 32)
        /\ getRelayPublicKey(host.key.seed) = host.env.RELAY_PUBLIC_KEY
    BY <1>2, <2>1, KeyPasses
  <2>3. parseEnvironment(host.env, host.numbers)
    BY <1>2, <2>1, EnvironmentPasses
  <2> QED
    BY <1>2, <2>1, <2>2, <2>3
<1>5. RelayHasRead'
  <2>1. relay' = "policies" => getRelayPublicKey(seed) = loaded.env.RELAY_PUBLIC_KEY
    BY <1>1
  <2> HIDE DEF seed, ok
  <2>2. /\ relay' \in {"policies", "failed"}
        /\ loaded'.env = loaded.env /\ loaded'.numbers = loaded.numbers
        /\ loaded'.seed = seed /\ loaded'.policy = loaded.policy
    BY <1>1, <1>3
  <2> QED
    BY <1>1, <1>2, <1>3, <2>1, <2>2 DEF RelayHasRead
<1> QED
  BY <1>1, <1>4, <1>5, RelayStep

LEMMA ReadPoliciesInd ==
  ASSUME HandOverInv, ReadPolicies
  PROVE  HandOverInv'
<1>1. /\ relay = "policies"
      /\ relay' = IF readPolicies(host.policy) THEN "running" ELSE "failed"
      /\ loaded' = [loaded EXCEPT !.policy = host.policy]
      /\ UNCHANGED <<page, wallet, plan, documents, host, changes, web, datum>>
  BY DEF ReadPolicies, Step
<1>2. /\ loaded = [env |-> loaded.env, numbers |-> loaded.numbers, seed |-> loaded.seed,
                   policy |-> loaded.policy]
      /\ changes = 0 => /\ host.env # None
                        /\ loaded.env = host.env /\ loaded.numbers = host.numbers
      /\ getRelayPublicKey(loaded.seed) = loaded.env.RELAY_PUBLIC_KEY
  BY <1>1 DEF HandOverInv, RelayHasRead
<1>3. loaded' = [env |-> loaded.env, numbers |-> loaded.numbers, seed |-> loaded.seed,
                 policy |-> host.policy]
  BY <1>1, <1>2
<1>4. relay' = "failed" => changes > 0
  BY <1>1, <1>2, PoliciesPass DEF HandOverInv, HostIsInstalled
<1>5. /\ relay' \in {"running", "failed"}
      /\ loaded'.env = loaded.env /\ loaded'.numbers = loaded.numbers
      /\ loaded'.seed = loaded.seed /\ loaded'.policy = host.policy
  BY <1>1, <1>3
<1>6. RelayHasRead'
  BY <1>1, <1>2, <1>3, <1>5 DEF RelayHasRead
<1> QED
  BY <1>1, <1>4, <1>6, RelayStep

LEMMA StopInd ==
  ASSUME HandOverInv, Stop
  PROVE  HandOverInv'
<1>1. relay' = "off" /\ UNCHANGED <<page, wallet, plan, documents, host, changes, web, datum>>
  BY DEF Stop, Step
<1>2. RelayHasRead'
  BY <1>1 DEF RelayHasRead
<1> QED
  BY <1>1, <1>2, RelayStep

-----------------------------------------------------------------------------
(* The theorems.                                                            *)

LEMMA InitInd == Init => HandOverInv
<1> SUFFICES ASSUME Init
             PROVE  HandOverInv
  OBVIOUS
<1>1. PlanIsChecked /\ HandOverIsAccepted
  BY DEF Init, PlanIsChecked, accepted, HandOverIsAccepted
<1>2. HostIsInstalled
  BY DEF Init, HostIsInstalled, defaults
<1>3. RelayHasRead /\ page \in Policies
  BY DEF Init, RelayHasRead
<1> QED
  BY <1>1, <1>2, <1>3 DEF HandOverInv

LEMMA NextInd == HandOverInv /\ [Next]_vars => HandOverInv'
<1> SUFFICES ASSUME HandOverInv, [Next]_vars
             PROVE  HandOverInv'
  OBVIOUS
<1>1. CASE Deploy \/ Artifacts \/ LoadPage \/ ReadState
  BY <1>1, DeployInd, ArtifactsInd, LoadPageInd, ReadStateInd
<1>2. CASE Install \/ Change
  BY <1>2, InstallInd, ChangeInd
<1>3. CASE Start \/ StatKey \/ ReadKey \/ ReadPolicies \/ Stop
  BY <1>3, StartInd, StatKeyInd, ReadKeyInd, ReadPoliciesInd, StopInd
<1>4. CASE UNCHANGED vars
  BY <1>4 DEF vars, HandOverInv, PlanIsChecked, accepted, HostIsInstalled, RelayHasRead,
     HandOverIsAccepted, indexerWithoutTls
<1> QED
  BY <1>1, <1>2, <1>3, <1>4 DEF Next

\* The inductive invariant: while the operator changes nothing, what is read is
\* what was checked before the contract was deployed.
THEOREM Invariance == Spec => []HandOverInv
BY InitInd, NextInd, PTL DEF Spec

\* What the ceremony has accepted is refused by nobody, but for a changed host
\* and an indexer without TLS.
THEOREM HandOverTheorem == Spec => []HandOverIsAccepted
<1>1. HandOverInv => HandOverIsAccepted
  BY DEF HandOverInv
<1> QED
  BY <1>1, Invariance, PTL

\* A relay that runs has the key that its configuration names.
THEOREM AuthorityTheorem == Spec => []RunningKeepsAuthority
<1>1. HandOverInv => RunningKeepsAuthority
  BY DEF HandOverInv, RelayHasRead, RunningKeepsAuthority
<1> QED
  BY <1>1, Invariance, PTL
=============================================================================
