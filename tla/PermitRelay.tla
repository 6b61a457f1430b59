----------------------------- MODULE PermitRelay -----------------------------
(***************************************************************************)
(* The permit relay (packages/relay): an HTTP service that reads a Midnight *)
(* transaction and the Cardano slot, signs one permit for the transaction,  *)
(* keeps it in a file, and gives it to whoever asks.                        *)
(*                                                                          *)
(* The process has one thread, and every await lets other requests in: a    *)
(* step here is what runs between two awaits.  A request decides on a file  *)
(* content that may be old by then; the operations that issue permits run   *)
(* side by side and queue up to write the file; any of their upstream calls *)
(* may fail; the process may be killed between any two steps and come back, *)
(* with the same signing key or a new one.                                  *)
(* Abstracted: the bytes and the signature of a permit (a permit is what it *)
(* binds), its lifetime, the other fields copied from the policy, requests  *)
(* refused before the service sees them, and the wording of answers.        *)
(***************************************************************************)
EXTENDS Naturals, Sequences, FiniteSets

CONSTANTS
    Requests,       \* HTTP connections, each asking one thing at a time
    Transactions,   \* Midnight transaction ids that are asked for
    Authorizing,    \* those whose state satisfies a configured policy
    Slots,          \* the slots the Cardano node may report
    RelayKeys,      \* relay signing keys an operator may configure
    NoPermit,       \* no record
    Torn,           \* content of a file that is only partly written
    MaxFailures,    \* bound: upstream and storage calls that fail
    MaxRestarts     \* bound: times the process is killed and restarted

Permits == [midnightTxId : Transactions, notBeforeSlot : Slots, relayKeyId : RelayKeys]

\* What a request is told: a permit, or the HTTP status of an error.  The
\* status is "none" before, and "dropped" when the connection is cut off.
Answers == [status : {"none", "dropped", "200", "404", "422", "500", "503", "504"},
            permit : Permits \union {NoPermit}]

Error(status) == [status |-> status, permit |-> NoPermit]

Found(p) == [status |-> "200", permit |-> p]

ASSUME ConstantsAssumption ==
    /\ Authorizing \subseteq Transactions
    /\ NoPermit \notin Permits
    /\ Torn \notin [Transactions -> Permits \union {NoPermit}]
    /\ MaxFailures \in Nat /\ MaxRestarts \in Nat

VARIABLES
    confirmed,      \* transactions the Midnight indexer knows
    key,            \* the signing key this process was started with
    file,           \* the state file
    temporary,      \* the file that is written before it is renamed
    pending,        \* PermitService.pending: transactions being issued
    stage,          \* where issueOnce is for each transaction
    permit,         \* the permit it is about to store
    writes,         \* FilePermitStore.writes: whose turn it is to write
    writer,         \* where the write at the head of that queue is
    records,        \* what it is writing
    pc,             \* where each request is
    asked,          \* its method and transaction
    seen,           \* the record it read
    answer,         \* how it was last answered
    promised,       \* whether a permit had been served when it arrived
    served,         \* every permit given for a transaction so far
    failures, restarts  \* how much of the bounds is used

memory == <<pending, stage, permit, writes, writer, records>>
requestVars == <<pc, asked, seen, answer, promised, served>>
vars == <<confirmed, key, file, temporary, memory, requestVars, failures, restarts>>

Records == [Transactions -> Permits \union {NoPermit}]

-----------------------------------------------------------------------------
(* Answers.                                                                 *)

tx(r) == asked[r].tx

\* Every request in "who" is answered, in one turn of the event loop.
Answer(who, result) ==
    /\ pc' = [r \in Requests |-> IF r \in who THEN "idle" ELSE pc[r]]
    /\ answer' = [r \in Requests |-> IF r \in who THEN result ELSE answer[r]]
    /\ served' = [t \in Transactions |->
                    IF result.permit # NoPermit /\ \E r \in who : tx(r) = t
                    THEN served[t] \union {result.permit} ELSE served[t]]
    /\ UNCHANGED <<asked, seen, promised>>

waitingFor(t) == {r \in Requests : pc[r] = "waiting" /\ tx(r) = t}

\* issueOnce ends, with a permit or an error: the pending entry goes, and the
\* requests that share the operation are answered.
Settle(t, result) ==
    /\ pending' = pending \ {t}
    /\ stage' = [stage EXCEPT ![t] = "none"]
    /\ permit' = [permit EXCEPT ![t] = NoPermit]
    /\ Answer(waitingFor(t), result)

Fail ==
    /\ failures < MaxFailures
    /\ failures' = failures + 1

-----------------------------------------------------------------------------
(* A request: route, get and the part of issue that each request runs.      *)

Arrive(r, method, t) ==
    /\ pc[r] = "idle"
    /\ pc' = [pc EXCEPT ![r] = "reading"]
    /\ asked' = [asked EXCEPT ![r] = [method |-> method, tx |-> t]]
    /\ answer' = [answer EXCEPT ![r] = Error("none")]
    /\ promised' = [promised EXCEPT ![r] = served[t] # {}]
    /\ UNCHANGED <<seen, served, confirmed, key, file, temporary, memory, failures, restarts>>

\* FilePermitStore.get: the content is taken when the file is opened; the
\* request goes on with it some time later.
ReadStore(r) ==
    /\ pc[r] = "reading"
    /\ IF file = Torn
       THEN Answer({r}, Error("500"))
       ELSE /\ pc' = [pc EXCEPT ![r] = "read"]
            /\ seen' = [seen EXCEPT ![r] = file[tx(r)]]
            /\ UNCHANGED <<asked, answer, promised, served>>
    /\ UNCHANGED <<confirmed, key, file, temporary, memory, failures, restarts>>

ReadStoreFails(r) ==
    /\ pc[r] = "reading"
    /\ Fail
    /\ Answer({r}, Error("500"))
    /\ UNCHANGED <<confirmed, key, file, temporary, memory, restarts>>

\* A deliberately wrong variant, as all those named "wrong" below: they are
\* used to see that a property notices.  Here a record signed with another key
\* passes.
wrongValidUnderAnyKey(p, t) == p.midnightTxId = t

\* validateStored: bound to this transaction and signed with this key.
Valid(p, t) == p.midnightTxId = t /\ p.relayKeyId = key

\* A record was read: it is given out if it is still valid.
ServeStored(r) ==
    /\ pc[r] = "read" /\ seen[r] # NoPermit
    /\ Answer({r}, IF Valid(seen[r], tx(r)) THEN Found(seen[r]) ELSE Error("500"))
    /\ UNCHANGED <<confirmed, key, file, temporary, memory, failures, restarts>>

NotFound(r) ==
    /\ pc[r] = "read" /\ seen[r] = NoPermit /\ asked[r].method = "GET"
    /\ Answer({r}, Error("404"))
    /\ UNCHANGED <<confirmed, key, file, temporary, memory, failures, restarts>>

\* Wrong: a failed operation stays and answers the requests after it.
wrongShareFailed(r) ==
    LET t == tx(r)
        fails == failures > 0 /\ t \notin pending IN
    /\ pc[r] = "read" /\ seen[r] = NoPermit /\ asked[r].method = "POST"
    /\ IF fails THEN Answer({r}, Error("504")) /\ UNCHANGED <<pending, stage>>
       ELSE /\ pc' = [pc EXCEPT ![r] = "waiting"]
            /\ pending' = pending \union {t}
            /\ stage' = IF t \in pending THEN stage ELSE [stage EXCEPT ![t] = "authorizing"]
            /\ UNCHANGED <<asked, seen, answer, promised, served>>
    /\ UNCHANGED <<permit, writes, writer, records, confirmed, key, file, temporary, failures,
                   restarts>>

\* No record was read: the request shares the operation that is pending, or
\* starts one.
ShareOrStart(r) ==
    LET t == tx(r) IN
    /\ pc[r] = "read" /\ seen[r] = NoPermit /\ asked[r].method = "POST"
    /\ pc' = [pc EXCEPT ![r] = "waiting"]
    /\ pending' = pending \union {t}
    /\ stage' = IF t \in pending THEN stage ELSE [stage EXCEPT ![t] = "authorizing"]
    /\ UNCHANGED <<permit, writes, writer, records, asked, seen, answer, promised, served,
                   confirmed, key, file, temporary, failures, restarts>>

-----------------------------------------------------------------------------
(* issueOnce.                                                               *)

\* Wrong: reads the latest state instead of the state at a confirmed transaction.
wrongAuthorizeUnconfirmed(t) ==
    /\ stage[t] = "authorizing" /\ t \in Authorizing
    /\ stage' = [stage EXCEPT ![t] = "locating"]
    /\ UNCHANGED <<pending, permit, requestVars, writes, writer, records, confirmed, key,
                   file, temporary, failures, restarts>>

\* readAtTransaction and validateAuthorization.
Authorize(t) ==
    /\ stage[t] = "authorizing" /\ t \in confirmed
    /\ IF t \in Authorizing
       THEN /\ stage' = [stage EXCEPT ![t] = "locating"]
            /\ UNCHANGED <<pending, permit, requestVars>>
       ELSE Settle(t, Error("422"))
    /\ UNCHANGED <<writes, writer, records, confirmed, key, file, temporary, failures, restarts>>

\* The deadline passes: the transaction is unknown, or the indexer is slow.
AuthorizeTimeout(t) ==
    /\ stage[t] = "authorizing"
    /\ IF t \in confirmed THEN Fail ELSE UNCHANGED failures
    /\ Settle(t, Error("504"))
    /\ UNCHANGED <<writes, writer, records, confirmed, key, file, temporary, restarts>>

\* The Cardano tip fixes the validity range of the permit.
CurrentSlot(t, slot) ==
    /\ stage[t] = "locating"
    /\ stage' = [stage EXCEPT ![t] = "signing"]
    /\ permit' = [permit EXCEPT ![t] =
                    [midnightTxId |-> t, notBeforeSlot |-> slot, relayKeyId |-> key]]
    /\ UNCHANGED <<pending, writes, writer, records, requestVars, confirmed, key, file,
                   temporary, failures, restarts>>

CurrentSlotFails(t) ==
    /\ stage[t] = "locating"
    /\ Fail
    /\ Settle(t, Error("503"))
    /\ UNCHANGED <<writes, writer, records, confirmed, key, file, temporary, restarts>>

\* The permit is signed and put in the queue for the file.
SignAndEnqueue(t) ==
    /\ stage[t] = "signing"
    /\ stage' = [stage EXCEPT ![t] = "queued"]
    /\ writes' = Append(writes, t)
    /\ UNCHANGED <<pending, permit, writer, records, requestVars, confirmed, key, file,
                   temporary, failures, restarts>>

-----------------------------------------------------------------------------
(* FilePermitStore.putIfAbsent: one write at a time, in the order queued.   *)

\* The write at the head ends, and the next may begin.
EndWrite(result) ==
    /\ Settle(Head(writes), result)
    /\ writes' = Tail(writes)
    /\ writer' = "idle"
    /\ UNCHANGED <<records, confirmed, key, restarts>>

\* Wrong: on top of a snapshot that is older than the other transactions' permits.
wrongBeginWrite(t) ==
    /\ records' = [u \in Transactions |-> IF u = t THEN permit[t] ELSE NoPermit]
    /\ temporary' = Torn
    /\ writer' = "writing"
    /\ UNCHANGED <<pending, stage, permit, writes, requestVars, confirmed, key, file,
                   failures, restarts>>

\* The write of t's permit begins, on top of what the file holds.
BeginWrite(t) ==
    /\ records' = [file EXCEPT ![t] = permit[t]]
    /\ temporary' = Torn
    /\ writer' = "writing"
    /\ UNCHANGED <<pending, stage, permit, writes, requestVars, confirmed, key, file,
                   failures, restarts>>

\* Wrong: the caller's own permit is the result, whatever the file holds.
wrongPutReturningOwn ==
    LET t == Head(writes) IN
    /\ writes # <<>> /\ writer = "idle"
    /\ \/ /\ file[t] # NoPermit
          /\ EndWrite(Found(permit[t]))
          /\ UNCHANGED <<file, temporary, failures>>
       \/ /\ file[t] = NoPermit
          /\ BeginWrite(t)

\* The head of the queue reads the file.  A permit that is already there is
\* the result; otherwise the temporary file is truncated and written.
PutIfAbsent ==
    LET t == Head(writes) IN
    /\ writes # <<>> /\ writer = "idle"
    /\ \/ /\ file = Torn
          /\ EndWrite(Error("500"))
          /\ UNCHANGED <<file, temporary, failures>>
       \/ /\ file # Torn /\ file[t] # NoPermit
          /\ EndWrite(Found(file[t]))
          /\ UNCHANGED <<file, temporary, failures>>
       \/ /\ file # Torn /\ file[t] = NoPermit
          /\ BeginWrite(t)

WriteTemporary ==
    /\ writer = "writing"
    /\ temporary' = records
    /\ writer' = "renaming"
    /\ UNCHANGED <<pending, stage, permit, writes, records, requestVars, confirmed, key, file,
                   failures, restarts>>

Rename ==
    /\ writer = "renaming"
    /\ file' = temporary
    /\ EndWrite(Found(permit[Head(writes)]))
    /\ UNCHANGED <<temporary, failures>>

\* Wrong: the next in the queue waits for a write that has succeeded.
wrongWriteFails ==
    /\ writes # <<>>
    /\ Fail
    /\ Settle(Head(writes), Error("500"))
    /\ writes' = Tail(writes)
    /\ writer' = "stopped"
    /\ UNCHANGED <<records, confirmed, key, file, temporary, restarts>>

\* Reading, writing or renaming fails: this operation does, the queue goes on.
WriteFails ==
    /\ writes # <<>>
    /\ Fail
    /\ EndWrite(Error("500"))
    /\ UNCHANGED <<file, temporary>>

-----------------------------------------------------------------------------
(* The environment.                                                         *)

\* The indexer comes to know a transaction.
Confirm(t) ==
    /\ t \notin confirmed
    /\ confirmed' = confirmed \union {t}
    /\ UNCHANGED <<key, file, temporary, memory, requestVars, failures, restarts>>

\* Wrong: the permits were kept in memory only.
wrongRestartEmpty(newKey) ==
    /\ restarts < MaxRestarts
    /\ restarts' = restarts + 1
    /\ key' = newKey
    /\ file' = [t \in Transactions |-> NoPermit]
    /\ pending' = {} /\ writes' = <<>> /\ writer' = "idle"
    /\ stage' = [t \in Transactions |-> "none"]
    /\ permit' = [t \in Transactions |-> NoPermit]
    /\ Answer({r \in Requests : pc[r] # "idle"}, Error("dropped"))
    /\ UNCHANGED <<records, confirmed, temporary, failures>>

\* The process is killed and started again: the files are all that stays.
Restart(newKey) ==
    /\ restarts < MaxRestarts
    /\ restarts' = restarts + 1
    /\ key' = newKey
    /\ pending' = {} /\ writes' = <<>> /\ writer' = "idle"
    /\ stage' = [t \in Transactions |-> "none"]
    /\ permit' = [t \in Transactions |-> NoPermit]
    /\ Answer({r \in Requests : pc[r] # "idle"}, Error("dropped"))
    /\ UNCHANGED <<records, confirmed, file, temporary, failures>>

-----------------------------------------------------------------------------
Init ==
    /\ confirmed = {}
    /\ key \in RelayKeys
    /\ file = [t \in Transactions |-> NoPermit]
    /\ temporary = file
    /\ pending = {} /\ writes = <<>> /\ writer = "idle"
    /\ stage = [t \in Transactions |-> "none"]
    /\ permit = [t \in Transactions |-> NoPermit]
    /\ records = file
    /\ pc = [r \in Requests |-> "idle"]
    /\ asked \in [Requests -> {[method |-> "GET", tx |-> t] : t \in Transactions}]
    /\ seen = [r \in Requests |-> NoPermit]
    /\ answer = [r \in Requests |-> Error("none")]
    /\ promised = [r \in Requests |-> FALSE]
    /\ served = [t \in Transactions |-> {}]
    /\ failures = 0 /\ restarts = 0

RequestStep(r) ==
    \/ ReadStore(r)
    \/ ReadStoreFails(r)
    \/ ServeStored(r)
    \/ NotFound(r)
    \/ ShareOrStart(r)

IssueStep(t) ==
    \/ Authorize(t)
    \/ AuthorizeTimeout(t)
    \/ \E slot \in Slots : CurrentSlot(t, slot)
    \/ CurrentSlotFails(t)
    \/ SignAndEnqueue(t)

WriteStep ==
    \/ PutIfAbsent
    \/ WriteTemporary
    \/ Rename
    \/ WriteFails

Next ==
    \/ \E r \in Requests, m \in {"GET", "POST"}, t \in Transactions : Arrive(r, m, t)
    \/ \E r \in Requests : RequestStep(r)
    \/ \E t \in Transactions : IssueStep(t)
    \/ WriteStep
    \/ \E t \in Transactions : Confirm(t)
    \/ \E k \in RelayKeys : Restart(k)

Spec == Init /\ [][Next]_vars

(* The event loop runs what is ready, upstream calls end (they have         *)
(* deadlines), and somebody who is not answered with a permit asks again.   *)
(* No failure, restart or confirmation is assumed to happen.                *)
Fairness ==
    /\ \A r \in Requests : WF_vars(RequestStep(r))
    /\ \A t \in Transactions : WF_vars(IssueStep(t))
    /\ WF_vars(WriteStep)
    /\ \A t \in Transactions : SF_vars(\E r \in Requests : Arrive(r, "POST", t))

FairSpec == Spec /\ Fairness

-----------------------------------------------------------------------------
(* Properties.                                                              *)

ProcessTypeOK ==
    /\ confirmed \subseteq Transactions
    /\ key \in RelayKeys
    /\ file \in Records
    /\ temporary \in Records \union {Torn}
    /\ pending \subseteq Transactions
    /\ stage \in [Transactions -> {"none", "authorizing", "locating", "signing", "queued"}]
    /\ permit \in Records
    /\ writes \in Seq(Transactions)
    /\ writer \in {"idle", "writing", "renaming"}
    /\ records \in Records
    /\ failures \in 0..MaxFailures
    /\ restarts \in 0..MaxRestarts

RequestTypeOK ==
    /\ pc \in [Requests -> {"idle", "reading", "read", "waiting"}]
    /\ asked \in [Requests -> [method : {"GET", "POST"}, tx : Transactions]]
    /\ seen \in [Requests -> Permits \union {NoPermit}]
    /\ answer \in [Requests -> Answers]
    /\ promised \in [Requests -> BOOLEAN]
    /\ served \in [Transactions -> SUBSET Permits]

\* Every variable stays in its domain; in particular the state file is never
\* torn, whenever the process is killed.
TypeOK ==
    /\ ProcessTypeOK
    /\ RequestTypeOK

\* Whatever permit anybody was ever given for a transaction is the one in the
\* file: all answers for a transaction agree, over concurrent operations that
\* sign different slots, failed writes, crashes and a change of the key.
ServedIsStored ==
    \A t \in Transactions : \A p \in served[t] : file[t] = p

\* Only a confirmed transaction that satisfies a policy has a permit stored,
\* and the permit is bound to that transaction.
StoredIsAuthorized ==
    \A t \in Transactions : file[t] # NoPermit =>
        /\ t \in confirmed \intersect Authorizing
        /\ file[t].midnightTxId = t

\* Once a permit has been given out, no later request for its transaction is
\* told that there is none or that the transaction is not authorized, nor
\* sent back to the indexer: it gets the permit, or an error of the relay.
PromisesAreKept ==
    \A r \in Requests : promised[r] =>
        /\ pc[r] # "waiting"
        /\ answer[r].status \in {"none", "dropped", "200", "500"}

\* A stored permit is never replaced and never lost.
PermitsAreFinal ==
    [][\A t \in Transactions : file[t] # NoPermit => file'[t] = file[t]]_vars

\* Every permit given out carries the key the relay is configured with at
\* that time.  The answer of an operation is not validated as stored records
\* are: it is right only because no record of an earlier process can appear
\* after the request has looked.
AnswersCarryTheKey ==
    [][\A r \in Requests : answer'[r] # answer[r] /\ answer'[r].status = "200"
                             => answer'[r].permit.relayKeyId = key]_vars

\* Every request is answered or cut off by a crash: no operation waits for
\* ever in the queue, and no failure leaves a pending entry behind that later
\* requests would wait on.
EveryRequestEnds ==
    \A r \in Requests : pc[r] # "idle" ~> pc[r] = "idle"

\* A confirmed and authorized transaction for which people keep asking gets
\* its permit, whatever failed before.
EventuallyIssued ==
    \A t \in Authorizing : t \in confirmed ~> file[t] # NoPermit

-----------------------------------------------------------------------------
(* The inductive invariant behind the safety properties.                    *)

\* A transaction is pending exactly while its operation runs.
PendingRuns ==
    \A t \in Transactions : t \in pending <=> stage[t] # "none"

\* Requests wait only for operations that run.
WaitersPend ==
    \A r \in Requests : pc[r] = "waiting" => tx(r) \in pending

\* What an operation is about to store is authorized, bound to its transaction
\* and to the key of this process.
DraftsAreSound ==
    \A t \in Transactions :
        /\ stage[t] \in {"locating", "signing", "queued"} => t \in confirmed \intersect Authorizing
        /\ stage[t] \in {"signing", "queued"} =>
              /\ permit[t] # NoPermit
              /\ permit[t].midnightTxId = t
              /\ permit[t].relayKeyId = key

\* The queue holds operations that are at that stage, each once.  The write at
\* its head adds one permit to what the file still holds.
QueueIsSound ==
    /\ \A i \in 1..Len(writes) : stage[writes[i]] = "queued"
    /\ \A i, j \in 1..Len(writes) : writes[i] = writes[j] => i = j
    /\ writer # "idle" =>
          /\ writes # <<>>
          /\ file[Head(writes)] = NoPermit
          /\ records = [file EXCEPT ![Head(writes)] = permit[Head(writes)]]
    /\ writer = "renaming" => temporary = records

\* What a request has read may be old only where there was no permit yet, and
\* then the permit that is there by now is of this process.
ReadsAreCurrent ==
    \A r \in Requests : pc[r] = "read" =>
        \/ seen[r] = file[tx(r)]
        \/ seen[r] = NoPermit /\ file[tx(r)].relayKeyId = key

\* So a permit that an operation finds stored is of this process too.
FoundIsOwn ==
    \A t \in Transactions : stage[t] # "none" /\ file[t] # NoPermit
                               => file[t].relayKeyId = key

\* A request that arrived after a permit had been served reads it.
PromisesAreRead ==
    \A r \in Requests : promised[r] =>
        /\ file[tx(r)] # NoPermit
        /\ pc[r] = "read" => seen[r] # NoPermit

RelayInv ==
    /\ TypeOK
    /\ PendingRuns
    /\ WaitersPend
    /\ DraftsAreSound
    /\ QueueIsSound
    /\ ReadsAreCurrent
    /\ FoundIsOwn
    /\ PromisesAreRead
    /\ ServedIsStored
    /\ StoredIsAuthorized
    /\ PromisesAreKept

-----------------------------------------------------------------------------
(* The relay implements PermitRegister.                                     *)

Register == INSTANCE PermitRegister WITH stored <- file

\* Every step writes one register that was empty, serves what a register
\* holds, or changes nothing that the promise is about.
ImplementsRegister == Register!Spec
=============================================================================
