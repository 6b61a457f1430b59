# A TLA+ model of NightPermit

NightPermit releases one Cardano milestone tranche after two private approvals
on Midnight. The two chains do not see each other: a relay reads Midnight and
signs a permit, and the Cardano validator checks the signature. This directory
holds specifications of the parts where that can go wrong, TLC instances that
check them, and TLAPS proofs of what matters for every instance.

Paths below are relative to the repository.

## The system

| Component | State it keeps | Operations | What is hard | What makes it correct |
| --- | --- | --- | --- | --- |
| Approval contract (`packages/midnight-contract`) | reviewer keys, reviewer nullifiers, count, authorized flag, authorization nullifier | `constructor`, `approve` | a proof is made on one state and replayed on another | authorized exactly when both reviewers have approved; final |
| Midnight client (`packages/midnight-client`) | the private state of an account (a reviewer's secret); the promises of each page | `joinNightPermit`, `approve`, `deployNightPermit` | indexer lag, lost transactions, timeouts, two pages of one account | answers are true of the chain and name the call's own transaction |
| Relay (`packages/relay`) | pending map, write queue, state file, signing key | `GET` and `POST /v1/permits`, start | every `await` lets other requests in; upstream failures; crashes; key rotation | one permit per transaction, for ever; nothing unauthorized is signed |
| Validator (`contracts/cardano`) | state output: policy, consumed nullifiers, sequence, inventory | `mint`, `spend` | other wallets build any transaction; interval bounds | one state thread, one tranche per nullifier, to the beneficiary, in time |
| Cardano client (`packages/cardano-client`) | what a claim has read and planned | initialize, claim | the state output is spent by a competitor; slots pass while the user signs | what it plans the validator accepts; success is only reported when it is one |
| Web flow (`packages/web`) | the reducer's stage, permit, transaction ids | connect, approve, get permit, claim | asynchronous results, errors after a step was recorded, several browsers | what is shown is true; no progress is lost; no stage from which the user cannot go on |
| Deployment (`packages/deployment`, `DeployApp.tsx`, `deployment-runtime.ts`) | prepared and finalized plan, the page's stage | prepare, deploy, initialize, artifacts | two chains, each step may fail after it took effect | both chains carry the same policy; the ceremony can be finished |
| Permit codec (`packages/permit`, `permit_v1.ak`) | none | encode, decode, decode again in Aiken | two decoders of one format | they agree on all bytes; decoding inverts encoding; one encoding |
| Relay configuration (`relay/src/config.ts`) | none | start | files that change while they are read; checks that were written apart | it accepts what the ceremony has published; the key is the configured one |
| Readiness (`infra/check-readiness.mjs`) | attempt counter | poll | deadline, services that change during an attempt | a pass is of one attempt; a failure has a cause in its attempt and is not reported before the deadline |
| Plutus data, provider selection, rendering | none of protocol interest | | | |

Interaction: reviewers' pages submit approvals to Midnight; its indexer shows
them to other pages and to the relay; the beneficiary's page asks the relay for
the permit of the second approval's transaction; it reads the state output on
Cardano, plans a claim, and the wallet signs and submits it. Before all that,
the deployment ceremony has bound the contract and the escrow to each other, and
has published the documents from which relay and page take their configuration.

## Modules

| Module | Models | Checked with | Proved in |
| --- | --- | --- | --- |
| `MilestoneApproval` | the promise: two reviewers approve, then it is authorized | as a property | |
| `ApprovalContract` | contract, chain, indexer and the client's sessions | `MCApproval` | `ApprovalProofs` |
| `PermitRegister` | the promise: a write-once register per transaction | as a property | |
| `PermitRelay` | the relay process, its file, its upstreams, crashes | `MCRelay` | `RelayProofs` |
| `MilestoneEscrow` | the promise: an inventory paid in equal tranches, one per authorization | as a property | |
| `Escrow` | validator, ledger, claim sessions, other wallets | `MCEscrow` | `EscrowProofs` |
| `NightPermit` | the promise of the whole: two approvals, one permit, one payment | as a property | |
| `WebFlow` | the claim page in several browsers, on top of `MilestoneApproval`, `PermitRegister` and a claim ledger | `MCWebFlow` | `WebProofs` |
| `DeploymentBinding` | the promise: deployed, then initialized with the same binding, then published | as a property | |
| `Deployment` | the ceremony's page and runtime, on two chains | `MCDeployment` | `DeploymentProofs` |
| `HandOver` | what the ceremony accepts and publishes, and what page, Cardano client and relay check again | `MCHandOver` | `HandOverProofs` |
| `PermitCodec` | the writer and both readers of a permit's bytes | `MCPermitCodec` | `CodecProofs` |
| `Readiness` | the readiness verifier | `MCReadiness` | `ReadinessProofs` |

Operators whose names begin with `wrong` are deliberately faulty variants of
the definition after them. No specification uses them; replacing a definition
by one shows that a property notices the fault.

### ApprovalContract

`ledger` is the contract's public state, `indexed` what the indexer serves,
`mempool` what was submitted, `receipt` what became of it. A session is a page
with its `NightPermitAPI`. `BeginJoin` and `FinishJoin` are the two halves of
`joinNightPermit` around its awaits: the private state is read in the first and
stored in the second. `CheckApproval` is `approve` up to `callTx`; `Submit` is
`callTx.approve()`, which reads state and witness once more, runs the circuit
and submits its transcript; `AwaitInclusion` is its promise;
`ObserveResult` and `ObserveTimeout` are the two ends of the observation of the
state at exactly that transaction. The browser joins anew for each approval; a
session that joins once and approves again includes that.

A transaction is the transcript of a circuit run: the reads it made (flag,
membership, the count it compared with two) and the writes. The branch that
authorizes is taken when the circuit runs; the chain applies the transcript only
if the reads give the same values on the state it meets (`Replays`). This is how
the generated `_approve_0` records its reads, and why the count is read, not
merely incremented: a counter that commutes would accept two first approvals.

The secret is a value, `persistentHash` a constructor: it has no collisions.

### PermitRelay

The process has one thread. A step is what runs between two awaits: `Arrive`,
`ReadStore` (the content is taken when the file is read, the request goes on
later), `ServeStored`/`NotFound`/`ShareOrStart` (the rest of `get` and `issue`),
`Authorize`, `CurrentSlot`, `SignAndEnqueue` (the parts of `issueOnce`),
`PutIfAbsent`, `WriteTemporary`, `Rename` (the parts of `putIfAbsent`, one at a
time because of the promise chain `writes`). Every upstream call and every file
operation has a failing twin. `Restart` kills the process between any two steps:
only `file` and `temporary` stay, and the key may be another one. A file that is
being written is `Torn`.

The retries inside one upstream read are one step that succeeds or fails: they
share no state with anything. `served` and `promised` are history variables.

### Escrow

Outputs have an address, the state-thread token or not, an amount of the
entitlement asset, and a datum. `Mint` and `Spend` are the two purposes of the
validator, conjunct by conjunct; `ledgerAccepts` is what the ledger checks
around them. `ReadState`, `MakePlan`, `Submit`, `Confirm` are
`submitWalletClaim` and `awaitConfirmation` cut at the awaits; `Refusal` keeps
the order of the checks of `createClaimPlan`. `Leave` is the page going away.
`OtherWallet` includes transactions that this client would never build: the
instance enumerates some 20000, with one or two inputs, any continuing state
out of a set that includes replayed, forged and skipped ones, any payouts, and
minting. The ledger's conservation of the entitlement asset is left out for
them, so they can do more than on the real ledger.

The relay derives the nullifier from the payout context, so one deployment
yields one nullifier. The validator and the client do not rely on it: their
state has a list of nullifiers and their tests fill it. The model therefore
lets permits of one policy carry different nullifiers, as well as equal ones.

A slot stands for its POSIX time (the conversion is linear on Preview). The
interval's lower bound is inclusive and its upper bound exclusive, as the ledger
has it; `is_entirely_before(expiry + 1 ms)` on such an interval is
`to <= expiresAtSlot`. Permits from this relay always have a `notBeforeSlot`.

### WebFlow and NightPermit

The parts above are used by their promises: a page approves with
`MilestoneApproval!Approve` and reads a permit with `PermitRegister!Serve`,
which `ApprovalContract` and `PermitRelay` implement, and a claim ledger pays
once while the permit is valid, as `MilestoneEscrow` does.

`flow[p]` is the `FlowState` of a page, and each event of `flowReducer` an
operator with the reducer's own guards. `pc[p]` is what the promise of `run()`
awaits. `Click` is `run` up to the first await; the actions named after the
operations are what follows; `Return` and `Throw` are its two ends, with
`toFlowError` deciding which code is shown. `Offered` is the set of buttons that
are rendered and enabled. `Reload` forgets everything the page had.

Failures come in ten kinds: a wallet declines, credentials are refused, an
observation times out after the approval was applied, the relay does not answer
or answers with a forged envelope, providers fail, a submission is taken but
answered with an error, the wait for its confirmation fails, a claim is lost,
a page is loaded again. `PostPermit` is an operator who sends
`POST /v1/permits`; the page does not, and nobody is bound to.

`NightPermit` is what the composition promises. `attested` is that the relay has
a permit, `paid` that a block has included a claim.

### Deployment and DeploymentBinding

`stage`, `operation`, `error`, the wallets, `candidates` and `artifacts` are the
state of `DeployApp`; `prepared` and `finalized` are the variables of
`createDeploymentRuntime`; `module` is the cached promise of `deploy-main.tsx`,
which keeps a rejection. Each operation is cut at its awaits: `ConnectCardano`
sets the wallet before `ListOutputs` asks for the outputs,
`SubmitInitialization` is followed by `ConfirmInitialization` and `Publish`. Each
has a failing twin, and `DeployFailsLate` and `SubmitFailsLate` fail after their
effect. `IncludeInitialization` spends the output the validator is made from, so
a second initialization for it, from this page or another, is dropped or refused.

### HandOver

One check after the other is translated, with a text as its width in bytes and
a name: `parsePublicPolicy`, `deploymentArguments` and `prepareDeployment` of the
ceremony; `relayPolicyDocument`, `relayPublicEnvironment` and
`browserEnvironment` that it publishes; `parsePolicy`, `readPolicies` and
`parseEnvironment` of the relay; `productConfigFromEnvironment` of the page;
`decodeValidatorState` of the Cardano client. `Start`, `StatKey`, `ReadKey` and
`ReadPolicies` are `loadConfig` cut at its awaits, and `Change` is the operator
who replaces a file or a setting in between.

### PermitCodec

`Layout` is the order of the fields with their kinds, `encodePermit`'s checks are
`refusal`, and the two readers are written as differently as in the code:
`decodePermit` folds `readField` over the layout and names its errors, `decode`
is the chain of reads of the Aiken function (`take_header` to `take_target` are its
groups of lines), where any unexpected value fails the transaction. A byte has three values in the instance, so that a marker may be
something else than 0 and 1, and identifiers are one byte, hashes and `U64` two.
`Damage` changes, loses or adds a byte anywhere. What a caller may pass is
`PermitV1`, the TypeScript type with numbers that may be too large or negative and
text of any length; `PermitsAssumption` says no more than that of `Permits`.

### Readiness

An attempt asks all services at once; a service answers with what it knows at
that moment (`Headers`), its body comes later (`Body`), however much later. One
that is not ready refuses at once or in its body. `Abort` is the timer, which is
cleared with the headers. `report` is the conjunction of all checks and of the
comparison of the tips. Time is in ticks: a timer fires on time and code takes
none, so `Tick` waits until nothing is due. `disturbed` and `seen` are history
variables about the environment during an attempt: the one says that a service
was down or slow, or that a block came between the answers of Kupo and Ogmios;
the other, which services were ready at some moment.

## Runs

| Run | Instance | Shows |
| --- | --- | --- |
| `approval_pages` | 2 reviewers in 3 pages, two of them of one account, 1 transaction of each page alive, 1 lost, 1 reload | the count, the flag and the nullifiers agree whatever the order; refusals are true; every result names its own rank; refinement; the inductive invariant of the proofs; the milestone is authorized at last |
| `approval_join_race` | 3 pages, one account with two secrets | **finding**: the second of two joins overwrites the private state |
| `relay_faults` | 2 requests at a time, 3 transactions of which one never authorizes, 2 slots, 2 keys, 1 failure, 1 crash | what is stored is confirmed and authorized, what was served is served again, and an answer is signed with the key of the process that gives it; with two writes in the queue and two permits in the file, a write never loses the other transaction's permit (refinement of `PermitRegister`); the inductive invariant of the proofs |
| `relay_live` | 2 requests at a time, 2 transactions that authorize, 1 slot, 1 key, 1 failure, 1 crash | the write queued behind one that failed still runs, and every request ends; each confirmed authorization gets its permit |
| `escrow_claims` | 2 pages, 4 permits (two share a nullifier, one is bound elsewhere), clocks off by one, one tranche | no script refuses a plan; a plan can be included, but for one made in the slot of expiry; confirmed means paid |
| `escrow_ledger` | no page, other wallets only, two tranches | one state thread, exact claims; refinement |
| `escrow_live` | 2 pages, 2 authorizations, one-transaction mempool | both are paid |
| `web_pages` | 2 browsers, 3 slots, a permit that lives one, 3 claims each, 2 failures of ten kinds | what is shown is true of the chains; completion is real; what failed can be retried, but for a claim that is known; progress is kept; refinement of `NightPermit`; the inductive invariant of the proofs; what is authorized is paid, but for four dead ends |
| `deploy_two` | 2 pages, 2 outputs, 2 policies, 3 contracts each, 2 failures of eleven kinds | what is published is on the chain, and by one ceremony; refinement of `DeploymentBinding` (escrows are bound to contracts with their own policy and validator); the inductive invariant of the proofs; ceremonies complete, but for three dead ends |
| `ready_polls` | 3 services, 2 of them with tips, timeout 2, deadline 3, interval 2, 2 changes, 2 blocks | a report of failure has a cause in its own attempt and does not precede the deadline; success is of one attempt; only a body delays a report beyond the deadline and one timeout; a report comes |
| `codec_once` | 5 permits of every shape and 11 with a defect, at most two bytes damaged | decoding inverts encoding; readers agree; one encoding |
| `hand_over_policies` | policies with each single defect, 6 wallets, 2 changes by the operator | what was accepted is not refused afterwards, but for an indexer without TLS; a running relay has the key it names |

Why these bounds suffice for the cases of interest: two approvals on one
snapshot need two pages; a third makes two pages of one account, one of which
approves again while the transaction of the other is under way, race with the
other reviewer. The relay's races need one request that is late and one that
finishes, and either may ask again as a third. A transaction has one operation at
a time, and only one that authorizes reaches the write queue: a lost write and a
queue that stops take two such transactions, which both runs of the relay have, and
a refusal one of another kind. Requests, keys and transactions of one kind are
symmetric, which `relay_faults` uses; for liveness slots and keys make no
difference, since nothing waits on them. A crash matters once per position and a
second adds nothing that the first does not, since all that survives is the file.
The relay's safety is proved for any number of all these. On Cardano two
claims compete for the output; four slots hold a permit that is not yet valid,
valid and expired. A page and a competitor make every race of the web flow, in
which the beneficiary has one page and either reviewer may use either of them; two failures allow one
to hit a step and one its retry, and three claims are one more than these can
waste. Two ceremonies suffice to reserve one output twice. The readiness
interval does not divide the deadline, and the last attempt begins exactly at
it. Two damaged bytes can turn a marker and shorten the rest to fit it.

`CHECK_DEADLOCK FALSE` is set where the system really stops: `escrow_ledger` has
no session and ends with its clock; a page that is complete, or at one of the
dead ends below, has no button, and so ends a run of `WebFlow` or `Deployment`;
the readiness verifier ends with its report; a permit is read once by each
reader; a refused policy ends the ceremony of `HandOver`. The other runs never
stop, and check it.

### Fairness

* Approval: blocks include what reached them and the indexer follows; the
  program's own continuations run; users of a ready page approve and try again.
  Losses, reloads without reason and timeouts are never assumed.
* Relay: the event loop runs what is ready; upstream reads end because they have
  deadlines (`providerTimeoutMs`, `providerMaxAttempts`); somebody goes on
  asking. The last is strong fairness: a crash or another request can take a
  connection's turn away any number of times.
* Escrow: blocks include what they can, nodes drop what they cannot include. The
  user comes back to a permit, and does not close the page before signing every
  time; since leaving takes such a step away, it is strong fairness. A page whose
  transaction is gone is left: `awaitTxConfirmation` never resolves for it. The
  clock is not assumed to tick, and the permits outlast it: a permit that
  expires is lost, which is intended.
* Web flow: promises settle (the browser's requests have timers, wallets answer),
  blocks include what they can, and users press a button that stays on offer.
  That a reviewer with several secrets types each one sooner or later is strong
  fairness on `Approve`, since every attempt ends in between. Failures, reloads,
  dismissed alerts and ticks are never assumed, nor that anybody posts.
* Deployment: awaited calls settle, blocks include, the operator presses what is
  on offer.
* Readiness: the event loop and time go on, and a body comes at last. That a service answers is not
  assumed: the timer does without.

## Where code and documents disagree

`approval_join_race` is a run that ends in a violation of what a document says:

* `packages/midnight-client/src/api.ts:127`: joining reads the private state and
  stores it several awaits later. Two pages of one account that join at once can
  leave the secret of the second in place of the first's. The package's README
  says that joining reuses the private state "without overwriting it".

The other disagreements are dead ends and edges. Each is an exception which a
property that holds names; without that exception the property fails in the same
run.

* `AuthorizedIsPaid`, `unattested` (`web/src/runtime.ts:189`): the page only reads
  permits, and nobody in the repository asks the relay to issue one. README.md:12
  says that the relay observes the authorization and signs.
* `AuthorizedIsPaid`, `expired` (`relay/src/service.ts:64`): a stored permit is
  returned also when it has expired, and the milestone has only one
  authorization. `web/src/errors.ts:53` tells the user to "Request a fresh
  authorization", which cannot exist.
* `AuthorizedIsPaid`, `uninformed` (`web/src/state.ts:68`): only its own approval
  moves a page on to the claim. Two reviewers and a beneficiary with a browser
  each, as in README.md:10-13, do not get there; nor does a reviewer whose
  observation timed out or who loads the page again.
* `AuthorizedIsPaid`, `waitsInVain`, and the exception of `WebFlow!RetryIsOffered`
  (`web/src/App.tsx:182`): when a claim is dropped, or the wait for its
  confirmation fails, the page offers no button, while its alert says (App.tsx:88)
  "You can safely retry this step."
* `stranded` of `Deployment` (`web/src/DeployApp.tsx:104`, `deploy-main.tsx:12`,
  `DeployApp.tsx:156`): a failed listing of outputs, a failed load of the runtime
  and a failed wait for the confirmation each leave a ceremony that cannot be
  finished, while its alert says (DeployApp.tsx:90) "You can safely retry this
  step."
* `PlansAreIncludable` (`cardano-client/src/claim.ts:117`): at
  `currentSlot = expiresAtSlot` the client asks the user to sign a claim with an
  empty validity interval. `docs/security/threat-model.md:39` says it "must fail
  before signing" when a validity range cannot be established.
* `DeadlineIsKept` (`infra/check-readiness.mjs:147` and `:40`): success may be
  reported after the deadline, and bodies are read without a timer.
  `infra/README.md:28` says ready "before the deadline", and `:34` "Each
  individual request retains its own bounded timeout".
* `HandOverIsAccepted`, `indexerWithoutTls` (`web/src/deployment-runtime.ts:173`):
  the URLs of a local indexer without TLS are accepted and published, also when only
  one of the two is local, and the relay refuses them (`relay/src/config.ts:194`).

One more shows in no property, since it costs effort and not correctness:
`relay/src/service.ts:69` consults the pending map after the store was read, so
a request may miss both and ask the upstreams and sign once more. The permit
that is served stays the first one (`ServedIsStored`, `PermitsAreFinal`). The
relay's README and a test say that concurrent requests are coalesced.

## Proofs

All theorems hold for every value of the constants under the assumptions that
the modules name (`SessionsAssumption`, `BoundsAssumption`, `HashAssumption`,
`ConstantsAssumption`, ...); TLC evaluates those on each run.

* `ApprovalProofs`. The inductive invariant `ApprovalInv` is `TypeOK` with: the
  reviewers are fixed and distinct (`KeysFixed`); the count is the number of
  recorded approvals of reviewers (`CountsApprovals`); the indexer shows nothing
  the chain does not have (`IndexerBehind`); a transaction on its way is alone
  with its id and proven by a reviewer (`MempoolPending`); applied transactions
  have ranks of their own (`ReceiptsRanked`); results come from receipts
  (`ResultsFromReceipts`). The property that the flag says that both have
  approved is not inductive by itself: the second application must find a count
  of one, which takes `Replays` and the count's relation to the nullifiers. One
  lemma per action; the theorems follow from `Inductive`, and refinement from one
  step lemma more.
* `RelayProofs`. `RelayInv` is `TypeOK` with: a pending entry is an operation that
  runs (`PendingRuns`), requests wait only for those (`WaitersPend`), a draft is
  authorized and of this process's key (`DraftsAreSound`), the queue's head
  writes one permit on top of what the file still holds (`QueueIsSound`), what a
  request has read is old only if there was nothing (`ReadsAreCurrent`), and a
  permit that an operation finds was stored by this process (`FoundIsOwn`). The
  last is why `putIfAbsent`'s answer needs no validation, which the code does
  not do. `TypeOK` says that `file` is never torn.
* `EscrowProofs`. Uniqueness of the thread is not inductive by itself: the
  initialization output must be the deployer's until it is spent, references
  must never be given out twice (`RefsInOrder`), and nobody but `Initialize`
  may spend that output. `EscrowInv` adds the books, which a claim keeps because
  its nullifier is new to the list, and what the sessions hold: what was read was
  a state output and is still there or spent (`SeenWasThere`), what is signed is
  a claim that there was no reason to refuse (`PlansAreClaims`), and what a block
  has included has paid (`ClaimsAreSent`). An accepted transaction starts the
  thread, leaves it alone or claims (`ThreadSteps`); exactness and refinement
  follow from that split. `PlanAccepted` is where the client's conditions are
  shown to imply the validator's. Other wallets may submit any set of
  transactions that does not carry the deployer's signature. `PlansAreIncludable`
  follows from `PlansAreClaims`: there was no reason to refuse, so the permit has not
  expired at the plan's first slot, and `validTo` is beyond it but at the expiry.

* `WebProofs`, over any number of pages and reviewers. `ShownIsTrue` and
  `CompletionIsTrue` speak about what a page has been told; to show that an answer
  still fits the page that it reaches, `FlowInv` says what a page at each await has
  and lacks (`AwaitsMatch`), how the stage follows from wallets and permit
  (`StagesMatch`), and that a page is busy while it awaits (`BusyWhileRunning`).
  `ChainsAgree` relates the chains: only the authorizing transaction has a permit,
  and a payment has used it, so that a claim in a block has the permit of the
  transaction that authorized the milestone (`PaidIsAuthorized`). `ProgressIsKept`
  and the refinement of `NightPermit` follow action by action; `RetryIsOffered` follows because a page that shows an
  error is idle and not complete.
* `DeploymentProofs`, over any number of ceremonies, outputs and policies.
  `ArtifactsDescribeEscrows` is about the end of a chain of awaits: `CeremonyInv` follows
  the plan through the stages (`PlansFollowStages`), says whose await a page is at
  (`AwaitsMatch`) and what an initialization that is under way or included has to do
  with it (`TransactionsArePlans`). Two ceremonies do not share an output because each
  escrow has spent its own (`EscrowsSpend`); the refinement takes the
  binding of each escrow to a deployed contract (`EscrowsAreBound`). `PlanIsFixed` and
  `PublishedIsOnBothChains`, which puts what a page published on Midnight and Cardano
  with its output spent, are stated by theorems only.
* `ReadinessProofs`, over any services, timeouts and intervals. `PollInv` says that
  what an attempt has heard is of that attempt, that nothing is asked while the
  verifier sleeps, and that a sleep ends by the deadline. `TipsMatch` is why two
  services that answered without a block in between agree. That the interval need
  not divide the deadline is why the last sleep is shortened, and why
  `DeadlineIsKept` needs the start of the attempt.
* `HandOverProofs`, over any policies, wallets, endpoints and key files. The checks of
  the ceremony imply each later one (`PagePasses`, `StatePasses`, `KeyPasses`,
  `EnvironmentPasses`, `PoliciesPass`); `HandOverInv` says that a plan is made of what was
  checked, that an unchanged host has what was published, and that the relay has
  read what the host had. `TextAssumption` says that the markers for a text that is
  not hexadecimal and for a missing file differ from what they mark the lack of.

* `CodecProofs`, over bytes of any number of values, fields, integers and texts of any
  width, and any limit of the length. The module builds what it needs upwards:
  - induction over numbers and recursion over a range (`Smallest`, `Induction`,
    `BoundedInduction`, `Recursion`). The library states these with an operator as a
    parameter, which the provers cannot instantiate; here the parameter is a set or a
    function, and induction is a smallest counterexample;
  - positional numerals: `IntegerReadBack` and `IntegerWrittenBack` say that
    `readInt` and `writeInt` are inverse to each other on `size` bytes, by induction
    over the digits and with `QuotientOfQuotient`;
  - one field: what is written and suits is read back (`FieldReadBack`), and what is
    read suits and would be written so (`FieldWrittenBack`). The second is where the
    canonical markers and lengths are needed;
  - whole permits: `ReadsBack` and `WritesBack` carry both over the sixteen fields,
    and `EncodedRead` and `ReadEncodes` over the checks before and after them;
  - the validator: `cursorOf` maps a state of `decodePermit` to the cursor that
    `decode` has there; each `take_` commutes with it (`TakesFixed`, `TakesInteger`,
    `TakesOptional`, `TakesCounted`, `TakesHeader`), failures included, so that
    `SameReading` says `decode(from) = cursorOf(from, decodePermit(from))` for all bytes.

  `CodecInv` is then short: only an accepted permit is written, its bytes are
  `bytesOf` until they are damaged, and what was read is what the bytes say.
  `Injective` adds that two accepted permits never have the same bytes.

Only model-checked: liveness (`AuthorizedIsPaid`, `CeremonyCompletes`, `Reports` and
those of approval, relay and escrow), which is outside the prover's reach, as is
ENABLED. `EscrowInv`, `PollInv`, `HandOverInv` and `CodecInv` are stated by theorems
only. Every invariant and action property that a passing run checks is stated by a
theorem as well.

## Not modelled, and the plan

Not modelled: rendering, the evidence panel, the construction of SDK clients and
the choice of a fallback provider (they keep no protocol state); the shape of
Plutus data and the parameterization of the script beyond the widths that
`HandOver` compares (library calls on constants); the parsing of HTTP requests
and JSON documents; fees, min-UTxO, chain rollbacks and power failures that undo
a rename. Signatures cannot be forged in the model and hashes do not collide.

`contractStateObservable` is used by the relay without `inclusive: true`
(`relay/src/midnight.ts:49`) and by the client with it; what the library does
without is not in the repository, and the model takes it to deliver the state at
the transaction. With a lovelace entitlement the last claims might leave less
than the ledger's minimum; the ceremony cannot deploy such an entitlement, since
`deploymentArguments` wants 28 bytes of `assetPolicyId`.

Done, in this order: `ApprovalContract`, `PermitRelay` and `Escrow`, each with
proofs; `WebFlow`, which composes the promises of the three into `NightPermit`;
`Deployment`, `Readiness`, `PermitCodec` and `HandOver`; then the proofs of
`Deployment`, `WebFlow`, `Readiness`, `HandOver` and `PermitCodec`.
