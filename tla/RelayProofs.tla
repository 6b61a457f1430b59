---------------------------- MODULE RelayProofs ----------------------------
(***************************************************************************)
(* Proofs about PermitRelay, for any number of requests, transactions,      *)
(* slots and keys and for any value of the bounds.  RelayInv is the inductive *)
(* invariant; the safety properties and the refinement follow from it.      *)
(***************************************************************************)
EXTENDS PermitRelay, TLAPS

\* The part of the invariant that is about requests and what they are told.
RequestInv == RequestTypeOK /\ ServedIsStored /\ PromisesAreRead /\ PromisesAreKept

\* The part about the operations that issue permits and the file.
IssueInv == ProcessTypeOK /\ PendingRuns /\ DraftsAreSound /\ QueueIsSound
            /\ FoundIsOwn /\ StoredIsAuthorized

\* The part that relates the two.
SharedInv == WaitersPend /\ ReadsAreCurrent

\* The stored permits may only be added to, by this process.
Grows ==
    \A t \in Transactions :
        /\ file[t] # NoPermit => file'[t] = file[t]
        /\ file'[t] # file[t] => file'[t].relayKeyId = key

-----------------------------------------------------------------------------
(* The invariant holds initially and in every step.                         *)

\* A relay that starts with an empty file satisfies RelayInv.
LEMMA InitInd == Init => RelayInv
<1> SUFFICES ASSUME Init PROVE RelayInv
  OBVIOUS
<1>1. ProcessTypeOK
  BY ConstantsAssumption DEF Init, ProcessTypeOK, Records
<1>2. RequestTypeOK
  BY DEF Init, RequestTypeOK, Answers, Error
<1>3. PendingRuns /\ WaitersPend /\ DraftsAreSound /\ QueueIsSound /\ ReadsAreCurrent
      /\ FoundIsOwn /\ PromisesAreRead
  BY DEF Init, PendingRuns, WaitersPend, DraftsAreSound, QueueIsSound, ReadsAreCurrent,
         FoundIsOwn, PromisesAreRead
<1>4. ServedIsStored /\ StoredIsAuthorized /\ PromisesAreKept
  BY DEF Init, ServedIsStored, StoredIsAuthorized, PromisesAreKept
<1> QED
  BY <1>1, <1>2, <1>3, <1>4 DEF RelayInv, TypeOK

\* Answering requests: an answer that holds a permit must hold the stored one,
\* and an error told to a request with a promise must be the relay's own.
LEMMA AnswerInd ==
  ASSUME RelayInv, Grows,
         NEW who \in SUBSET Requests, NEW result \in Answers, Answer(who, result),
         result.permit # NoPermit => \A r \in who : file'[tx(r)] = result.permit,
         \A r \in who : promised[r] => result.status \in {"none", "dropped", "200", "500"}
  PROVE  /\ RequestInv'
         /\ \A r \in Requests : pc'[r] = IF r \in who THEN "idle" ELSE pc[r]
         /\ UNCHANGED <<asked, seen, promised>>
<1>1. /\ RequestTypeOK
      /\ \A r \in Requests : pc'[r] = IF r \in who THEN "idle" ELSE pc[r]
      /\ UNCHANGED <<asked, seen, promised>>
  BY DEF RelayInv, TypeOK, Answer
<1>2. RequestTypeOK'
  BY <1>1 DEF Answer, RequestTypeOK, Answers
<1>3. ServedIsStored'
  <2> SUFFICES ASSUME NEW t \in Transactions, NEW p \in served'[t]
               PROVE  file'[t] = p
    BY DEF ServedIsStored
  <2>1. CASE p \in served[t]
    <3>1. file[t] = p /\ p \in Permits
      BY <1>1, <2>1 DEF RelayInv, ServedIsStored, RequestTypeOK
    <3> QED
      BY <3>1, ConstantsAssumption DEF Grows
  <2>2. CASE p \notin served[t]
    BY <2>2 DEF Answer
  <2> QED
    BY <2>1, <2>2
<1>4. PromisesAreRead'
  BY <1>1 DEF RelayInv, PromisesAreRead, Grows, RequestTypeOK, tx
<1>5. PromisesAreKept'
  BY <1>1 DEF RelayInv, PromisesAreKept, Answer
<1> QED
  BY <1>1, <1>2, <1>3, <1>4, <1>5 DEF RequestInv

\* A request is answered and nothing else happens.
LEMMA AnswerOneInd ==
  ASSUME RelayInv, NEW r \in Requests, NEW result \in Answers, Answer({r}, result),
         UNCHANGED <<confirmed, key, file, temporary, memory, restarts>>,
         failures' \in 0..MaxFailures,
         result.permit # NoPermit => file[tx(r)] = result.permit,
         promised[r] => result.status \in {"none", "dropped", "200", "500"}
  PROVE  RelayInv'
<1>1. Grows
  BY DEF Grows
<1>2. /\ RequestInv'
      /\ \A q \in Requests : pc'[q] = IF q \in {r} THEN "idle" ELSE pc[q]
      /\ UNCHANGED <<asked, seen, promised>>
  BY <1>1, AnswerInd
<1>3. SharedInv'
  <2>1. WaitersPend'
    BY <1>2 DEF RelayInv, WaitersPend, tx, memory
  <2>2. \A q \in Requests : pc'[q] = "read" => pc[q] = "read" /\ tx(q)' = tx(q)
    BY <1>2 DEF tx
  <2>3. ReadsAreCurrent'
    BY <1>2, <2>2 DEF RelayInv, ReadsAreCurrent
  <2> QED
    BY <2>1, <2>3 DEF SharedInv
<1>4. IssueInv'
  BY DEF RelayInv, TypeOK, IssueInv, memory, ProcessTypeOK, PendingRuns, DraftsAreSound,
         QueueIsSound, FoundIsOwn, StoredIsAuthorized
<1> QED
  BY <1>2, <1>3, <1>4 DEF RelayInv, TypeOK, RequestInv, IssueInv, SharedInv

\* An operation ends: all that is left to show is about the queue and the file.
LEMMA SettleInd ==
  ASSUME RelayInv, Grows, NEW t \in Transactions, NEW result \in Answers, Settle(t, result),
         UNCHANGED <<confirmed, key>>,
         result.permit # NoPermit => file'[t] = result.permit,
         ProcessTypeOK', QueueIsSound', StoredIsAuthorized'
  PROVE  RelayInv'
<1>1. /\ RequestInv'
      /\ \A r \in Requests : pc'[r] = IF r \in waitingFor(t) THEN "idle" ELSE pc[r]
      /\ UNCHANGED <<asked, seen, promised>>
  <2>1. waitingFor(t) \in SUBSET Requests /\ \A r \in waitingFor(t) : ~promised[r]
    BY DEF waitingFor, RelayInv, PromisesAreKept
  <2>2. \A r \in waitingFor(t) : tx(r) = t
    BY DEF waitingFor
  <2>3. Answer(waitingFor(t), result)
    BY DEF Settle
  <2> QED
    BY <2>1, <2>2, <2>3, AnswerInd
<1>2. /\ pending' = pending \ {t}
      /\ \A u \in Transactions : stage'[u] = IF u = t THEN "none" ELSE stage[u]
      /\ \A u \in Transactions : u # t => permit'[u] = permit[u]
  BY DEF Settle, RelayInv, TypeOK, ProcessTypeOK, Records
<1>3. RequestTypeOK
  BY DEF RelayInv, TypeOK
<1>4. SharedInv'
  <2>1. WaitersPend'
    BY <1>1, <1>2, <1>3 DEF RelayInv, WaitersPend, waitingFor, tx
  <2>2. ReadsAreCurrent'
    <3> SUFFICES ASSUME NEW r \in Requests, pc'[r] = "read"
                 PROVE  \/ seen[r] = file'[tx(r)]
                        \/ seen[r] = NoPermit /\ file'[tx(r)].relayKeyId = key
      BY <1>1 DEF ReadsAreCurrent, tx
    <3>1. pc[r] = "read" /\ tx(r) \in Transactions
      BY <1>1, <1>3 DEF RequestTypeOK, tx
    <3>2. \/ seen[r] = file[tx(r)]
          \/ seen[r] = NoPermit /\ file[tx(r)].relayKeyId = key
      BY <3>1 DEF RelayInv, ReadsAreCurrent
    <3> QED
      BY <3>1, <3>2 DEF Grows
  <2> QED
    BY <2>1, <2>2 DEF SharedInv
<1>5. PendingRuns' /\ DraftsAreSound' /\ FoundIsOwn'
  BY <1>2 DEF RelayInv, PendingRuns, DraftsAreSound, FoundIsOwn, Grows
<1> QED
  BY <1>1, <1>4, <1>5 DEF RelayInv, TypeOK, RequestInv, SharedInv

\* An operation that is not in the queue fails.
LEMMA FailInd ==
  ASSUME RelayInv, NEW t \in Transactions, stage[t] # "queued", stage[t] # "none",
         NEW result \in Answers, result.permit = NoPermit, Settle(t, result),
         UNCHANGED <<writes, writer, records, confirmed, key, file, temporary, restarts>>,
         failures' \in 0..MaxFailures
  PROVE  RelayInv'
<1>1. Grows
  BY DEF Grows
<1>2. /\ ProcessTypeOK
      /\ \A u \in Transactions : stage'[u] = IF u = t THEN "none" ELSE stage[u]
      /\ \A u \in Transactions : u # t => permit'[u] = permit[u]
  BY DEF Settle, RelayInv, TypeOK, ProcessTypeOK, Records
<1>3. ProcessTypeOK'
  BY <1>2 DEF ProcessTypeOK, Settle, Records
<1>4. QueueIsSound'
  <2>1. \A i \in 1..Len(writes) : writes[i] \in Transactions /\ writes[i] # t
    BY <1>2 DEF ProcessTypeOK, RelayInv, QueueIsSound
  <2>2. writes # <<>> => Head(writes) \in Transactions /\ Head(writes) # t
    BY <1>2, <2>1 DEF ProcessTypeOK
  <2> QED
    BY <1>2, <2>1, <2>2 DEF RelayInv, QueueIsSound
<1>5. StoredIsAuthorized'
  BY DEF RelayInv, StoredIsAuthorized
<1> QED
  BY <1>1, <1>3, <1>4, <1>5, SettleInd
\* A request arrives: what has been served by now is in the file.
LEMMA ArriveInd ==
  ASSUME RelayInv, NEW r \in Requests, NEW m \in {"GET", "POST"}, NEW t \in Transactions,
         Arrive(r, m, t)
  PROVE  RelayInv'
<1>1. RequestTypeOK /\ UNCHANGED <<file, seen, served>>
  BY DEF RelayInv, TypeOK, Arrive
<1>2. RequestTypeOK'
  BY <1>1 DEF Arrive, RequestTypeOK, Answers, Error
<1>3. /\ \A q \in Requests : q # r => /\ pc'[q] = pc[q] /\ asked'[q] = asked[q]
                                      /\ answer'[q] = answer[q]
                                      /\ promised'[q] = promised[q]
      /\ pc'[r] = "reading" /\ asked'[r].tx = t /\ answer'[r].status = "none"
      /\ promised'[r] <=> served[t] # {}
  BY <1>1 DEF Arrive, RequestTypeOK, Error
<1>4. served[t] # {} => file[t] # NoPermit
  BY <1>1, ConstantsAssumption DEF RelayInv, ServedIsStored, RequestTypeOK
<1>5. ServedIsStored'
  BY <1>1 DEF RelayInv, ServedIsStored
<1>6. PromisesAreRead'
  BY <1>1, <1>3, <1>4 DEF RelayInv, PromisesAreRead, tx
<1>7. PromisesAreKept'
  BY <1>1, <1>3 DEF RelayInv, PromisesAreKept
<1>8. SharedInv'
  <2>1. WaitersPend'
    BY <1>3 DEF Arrive, memory, RelayInv, WaitersPend, tx
  <2>2. ReadsAreCurrent'
    BY <1>1, <1>3 DEF Arrive, RelayInv, ReadsAreCurrent, tx
  <2> QED
    BY <2>1, <2>2 DEF SharedInv
<1>9. IssueInv'
  BY DEF Arrive, RelayInv, TypeOK, IssueInv, memory, ProcessTypeOK, PendingRuns,
         DraftsAreSound, QueueIsSound, FoundIsOwn, StoredIsAuthorized
<1> QED
  BY <1>2, <1>5, <1>6, <1>7, <1>8, <1>9 DEF RelayInv, TypeOK, IssueInv, SharedInv

\* The steps of a request that has arrived.
LEMMA RequestInd ==
  ASSUME RelayInv, NEW r \in Requests, RequestStep(r)
  PROVE  RelayInv'
<1>1. ProcessTypeOK /\ RequestTypeOK /\ tx(r) \in Transactions /\ file # Torn
  BY ConstantsAssumption DEF RelayInv, TypeOK, RequestTypeOK, ProcessTypeOK, Records, tx
<1>2. \A status \in {"dropped", "404", "500"} :
        Error(status) \in Answers /\ Error(status).permit = NoPermit
                                /\ Error(status).status = status
  BY DEF Error, Answers
<1>3. Fail => failures' \in 0..MaxFailures
  BY <1>1, ConstantsAssumption DEF Fail, ProcessTypeOK
<1>4. CASE ReadStore(r)
  <2>1. /\ pc' = [pc EXCEPT ![r] = "read"]
        /\ seen' = [seen EXCEPT ![r] = file[tx(r)]]
        /\ UNCHANGED <<asked, answer, promised, served>>
        /\ UNCHANGED <<confirmed, key, file, temporary, memory, failures, restarts>>
    BY <1>1, <1>4 DEF ReadStore
  <2>2. file[tx(r)] \in Permits \union {NoPermit}
    BY <1>1 DEF ProcessTypeOK, Records
  <2>3. RequestTypeOK'
    BY <1>1, <2>1, <2>2 DEF RequestTypeOK
  <2>4. ServedIsStored'
    BY <2>1 DEF RelayInv, ServedIsStored
  <2>5. PromisesAreRead'
    BY <1>1, <2>1 DEF RelayInv, PromisesAreRead, RequestTypeOK, tx
  <2>6. PromisesAreKept'
    BY <1>1, <2>1 DEF RelayInv, PromisesAreKept, RequestTypeOK
  <2>7. WaitersPend'
    BY <1>1, <2>1 DEF RelayInv, WaitersPend, memory, tx, RequestTypeOK
  <2>8. ReadsAreCurrent'
    BY <1>1, <2>1 DEF RelayInv, ReadsAreCurrent, tx, RequestTypeOK
  <2>9. IssueInv'
    BY <2>1 DEF RelayInv, TypeOK, IssueInv, memory, ProcessTypeOK, PendingRuns,
                DraftsAreSound, QueueIsSound, FoundIsOwn, StoredIsAuthorized
  <2> QED
    BY <2>3, <2>4, <2>5, <2>6, <2>7, <2>8, <2>9 DEF RelayInv, TypeOK, IssueInv
<1>5. CASE ReadStoreFails(r)
  BY <1>1, <1>2, <1>3, <1>5, AnswerOneInd DEF ReadStoreFails
<1>6. CASE ServeStored(r)
  <2>1. pc[r] = "read" /\ seen[r] # NoPermit /\ seen[r] \in Permits
        /\ failures' \in 0..MaxFailures
        /\ UNCHANGED <<confirmed, key, file, temporary, memory, restarts>>
    BY <1>1, <1>6 DEF ServeStored, RequestTypeOK, ProcessTypeOK
  <2>2. seen[r] = file[tx(r)]
    BY <2>1 DEF RelayInv, ReadsAreCurrent
  <2>3. CASE Valid(seen[r], tx(r))
    <3>1. Found(seen[r]) \in Answers /\ Found(seen[r]).permit = seen[r]
          /\ Found(seen[r]).status = "200"
      BY <2>1 DEF Found, Answers
    <3> QED
      BY <1>6, <2>1, <2>2, <2>3, <3>1, AnswerOneInd DEF ServeStored
  <2>4. CASE ~Valid(seen[r], tx(r))
    BY <1>2, <1>6, <2>1, <2>4, AnswerOneInd DEF ServeStored
  <2> QED
    BY <2>3, <2>4
<1>7. CASE NotFound(r)
  <2>1. ~promised[r]
    BY <1>7 DEF NotFound, RelayInv, PromisesAreRead
  <2> QED
    BY <1>1, <1>2, <1>7, <2>1, AnswerOneInd DEF NotFound, ProcessTypeOK
<1>8. CASE ShareOrStart(r)
  <2> DEFINE t == tx(r)
  <2>1. /\ pc' = [pc EXCEPT ![r] = "waiting"]
        /\ pending' = pending \union {t}
        /\ stage' = IF t \in pending THEN stage ELSE [stage EXCEPT ![t] = "authorizing"]
        /\ UNCHANGED <<permit, writes, writer, records, asked, seen, answer, promised, served,
                       confirmed, key, file, temporary, failures, restarts>>
        /\ pc[r] = "read" /\ seen[r] = NoPermit
    BY <1>8 DEF ShareOrStart
  <2>2. ~promised[r]
    BY <2>1 DEF RelayInv, PromisesAreRead
  <2>3. \A u \in Transactions : stage'[u] = IF u = t /\ stage[u] = "none"
                                            THEN "authorizing" ELSE stage[u]
    BY <1>1, <2>1 DEF RelayInv, PendingRuns, ProcessTypeOK
  <2>4. ProcessTypeOK'
    BY <1>1, <2>1 DEF ProcessTypeOK
  <2>5. RequestTypeOK'
    BY <1>1, <2>1 DEF RequestTypeOK
  <2>6. PendingRuns'
    BY <1>1, <2>1, <2>3 DEF RelayInv, PendingRuns
  <2>7. WaitersPend'
    BY <1>1, <2>1 DEF RelayInv, WaitersPend, tx, RequestTypeOK
  <2>8. ReadsAreCurrent'
    BY <1>1, <2>1 DEF RelayInv, ReadsAreCurrent, tx, RequestTypeOK
  <2>9. DraftsAreSound'
    BY <2>1, <2>3 DEF RelayInv, DraftsAreSound
  <2>10. QueueIsSound'
    BY <1>1, <2>1, <2>3 DEF RelayInv, QueueIsSound, ProcessTypeOK
  <2>11. FoundIsOwn'
    BY <1>1, <2>1, <2>3 DEF RelayInv, FoundIsOwn, ReadsAreCurrent
  <2>12. ServedIsStored' /\ StoredIsAuthorized'
    BY <2>1 DEF RelayInv, ServedIsStored, StoredIsAuthorized
  <2>13. PromisesAreRead' /\ PromisesAreKept'
    BY <1>1, <2>1, <2>2 DEF RelayInv, PromisesAreRead, PromisesAreKept, tx, RequestTypeOK
  <2> QED
    BY <2>4, <2>5, <2>6, <2>7, <2>8, <2>9, <2>10, <2>11, <2>12, <2>13 DEF RelayInv, TypeOK
<1> QED
  BY <1>4, <1>5, <1>6, <1>7, <1>8 DEF RequestStep

\* The steps of an operation before it writes.
LEMMA IssueInd ==
  ASSUME RelayInv, NEW t \in Transactions, IssueStep(t)
  PROVE  RelayInv'
<1>1. ProcessTypeOK /\ RequestTypeOK
  BY DEF RelayInv, TypeOK
<1>2. \A status \in {"422", "503", "504"} :
        Error(status) \in Answers /\ Error(status).permit = NoPermit
  BY DEF Error, Answers
<1>3. failures' = failures \/ Fail => failures' \in 0..MaxFailures
  BY <1>1, ConstantsAssumption DEF Fail, ProcessTypeOK
<1>4. ASSUME \A u \in Transactions : u # t => stage'[u] = stage[u],
             \A u \in Transactions : u # t => permit'[u] = permit[u],
             stage[t] \notin {"none", "queued"}, stage'[t] # "none",
             UNCHANGED <<requestVars, confirmed, key, file, temporary, pending, writer, records>>,
             ProcessTypeOK', DraftsAreSound', QueueIsSound'
      PROVE  RelayInv'
  <2>1. PendingRuns' /\ FoundIsOwn' /\ StoredIsAuthorized'
    BY <1>4 DEF RelayInv, PendingRuns, FoundIsOwn, StoredIsAuthorized
  <2>2. RequestTypeOK' /\ ServedIsStored' /\ PromisesAreRead' /\ PromisesAreKept'
    BY <1>1, <1>4 DEF RelayInv, requestVars, RequestTypeOK, ServedIsStored, PromisesAreRead,
                      PromisesAreKept, tx
  <2>3. WaitersPend' /\ ReadsAreCurrent'
    BY <1>4 DEF RelayInv, requestVars, WaitersPend, ReadsAreCurrent, tx
  <2> QED
    BY <1>4, <2>1, <2>2, <2>3 DEF RelayInv, TypeOK
<1>5. ASSUME stage[t] \notin {"none", "queued"}, UNCHANGED writes
      PROVE  (\A u \in Transactions : u # t => stage'[u] = stage[u] /\ permit'[u] = permit[u])
             /\ UNCHANGED <<file, temporary, writer, records>>
             => QueueIsSound'
  <2>1. \A i \in 1..Len(writes) : writes[i] \in Transactions /\ writes[i] # t
    BY <1>1, <1>5 DEF ProcessTypeOK, RelayInv, QueueIsSound
  <2>2. writes # <<>> => Head(writes) \in Transactions /\ Head(writes) # t
    BY <1>1, <2>1 DEF ProcessTypeOK
  <2> QED
    BY <1>5, <2>1, <2>2 DEF RelayInv, QueueIsSound
<1>6. CASE Authorize(t)
  <2>1. CASE t \in Authorizing
    <3>1. stage' = [stage EXCEPT ![t] = "locating"] /\ t \in confirmed /\ stage[t] = "authorizing"
          /\ UNCHANGED <<pending, permit, requestVars, writes, writer, records, confirmed, key,
                         file, temporary, failures, restarts>>
      BY <1>6, <2>1 DEF Authorize
    <3>2. ProcessTypeOK'
      BY <1>1, <3>1 DEF ProcessTypeOK
    <3>3. DraftsAreSound'
      BY <1>1, <2>1, <3>1 DEF RelayInv, DraftsAreSound, ProcessTypeOK
    <3>4. QueueIsSound'
      BY <1>1, <1>5, <3>1 DEF ProcessTypeOK
    <3> QED
      BY <1>1, <1>4, <3>1, <3>2, <3>3, <3>4 DEF ProcessTypeOK
  <2>2. CASE t \notin Authorizing
    BY <1>2, <1>3, <1>6, <2>2, FailInd DEF Authorize
  <2> QED
    BY <2>1, <2>2
<1>7. CASE AuthorizeTimeout(t)
  BY <1>2, <1>3, <1>7, FailInd DEF AuthorizeTimeout
<1>8. ASSUME NEW slot \in Slots, CurrentSlot(t, slot)
      PROVE  RelayInv'
  <2> DEFINE p == [midnightTxId |-> t, notBeforeSlot |-> slot, relayKeyId |-> key]
  <2>1. /\ stage[t] = "locating"
        /\ stage' = [stage EXCEPT ![t] = "signing"]
        /\ permit' = [permit EXCEPT ![t] = p]
        /\ UNCHANGED <<pending, writes, writer, records, requestVars, confirmed, key, file,
                       temporary, failures, restarts>>
    BY <1>8 DEF CurrentSlot
  <2>2. p \in Permits
    BY <1>1 DEF Permits, ProcessTypeOK
  <2>3. ProcessTypeOK'
    BY <1>1, <2>1, <2>2 DEF ProcessTypeOK, Records
  <2>4. DraftsAreSound'
    BY <1>1, <2>1, <2>2, ConstantsAssumption
       DEF RelayInv, DraftsAreSound, ProcessTypeOK, Records
  <2>5. QueueIsSound'
    BY <1>1, <1>5, <2>1 DEF ProcessTypeOK, Records
  <2> QED
    BY <1>1, <1>4, <2>1, <2>3, <2>4, <2>5 DEF ProcessTypeOK, Records
<1>9. CASE CurrentSlotFails(t)
  BY <1>2, <1>3, <1>9, FailInd DEF CurrentSlotFails
<1>10. CASE SignAndEnqueue(t)
  <2>1. /\ stage[t] = "signing"
        /\ stage' = [stage EXCEPT ![t] = "queued"]
        /\ writes' = Append(writes, t)
        /\ UNCHANGED <<pending, permit, writer, records, requestVars, confirmed, key, file,
                       temporary, failures, restarts>>
    BY <1>10 DEF SignAndEnqueue
  <2>2. ProcessTypeOK'
    BY <1>1, <2>1 DEF ProcessTypeOK
  <2>3. DraftsAreSound'
    BY <1>1, <2>1 DEF RelayInv, DraftsAreSound, ProcessTypeOK
  <2>4. \A i \in 1..Len(writes) : writes[i] \in Transactions /\ writes[i] # t
    BY <1>1, <2>1 DEF ProcessTypeOK, RelayInv, QueueIsSound
  <2>5. /\ Len(writes') = Len(writes) + 1 /\ writes'[Len(writes) + 1] = t
        /\ \A i \in 1..Len(writes) : writes'[i] = writes[i]
        /\ writes # <<>> => Head(writes') = Head(writes)
        /\ writes' # <<>> /\ Len(writes) \in Nat
    BY <1>1, <2>1 DEF ProcessTypeOK
  <2>6. QueueIsSound'
    <3>1. \A i \in 1..Len(writes') : stage'[writes'[i]] = "queued"
      BY <1>1, <2>1, <2>4, <2>5 DEF RelayInv, QueueIsSound, ProcessTypeOK
    <3>2. \A i, j \in 1..Len(writes') : writes'[i] = writes'[j] => i = j
      BY <2>4, <2>5 DEF RelayInv, QueueIsSound
    <3>3. writer # "idle" => Head(writes') = Head(writes)
      BY <2>5 DEF RelayInv, QueueIsSound
    <3> QED
      BY <2>1, <2>5, <3>1, <3>2, <3>3 DEF RelayInv, QueueIsSound
  <2> QED
    BY <1>1, <1>4, <2>1, <2>2, <2>3, <2>6 DEF ProcessTypeOK
<1> QED
  BY <1>6, <1>7, <1>8, <1>9, <1>10 DEF IssueStep

\* The write at the head of the queue ends, with a result that is in the file.
LEMMA EndWriteInd ==
  ASSUME RelayInv, Grows, writes # <<>>, NEW result \in Answers, EndWrite(result),
         result.permit # NoPermit => file'[Head(writes)] = result.permit,
         file' \in Records, temporary' = temporary, failures' \in 0..MaxFailures,
         StoredIsAuthorized'
  PROVE  RelayInv'
<1> DEFINE t == Head(writes)
<1>1. /\ ProcessTypeOK /\ t \in Transactions /\ t = writes[1]
      /\ Tail(writes) \in Seq(Transactions) /\ Len(Tail(writes)) = Len(writes) - 1
      /\ \A i \in 1..Len(Tail(writes)) : Tail(writes)[i] = writes[i + 1]
      /\ Len(writes) \in Nat /\ Len(writes) >= 1
  BY DEF RelayInv, TypeOK, ProcessTypeOK
<1>2. /\ Settle(t, result) /\ writes' = Tail(writes) /\ writer' = "idle"
      /\ UNCHANGED <<records, confirmed, key, restarts>>
  BY DEF EndWrite
<1>3. \A u \in Transactions : stage'[u] = IF u = t THEN "none" ELSE stage[u]
  BY <1>1, <1>2 DEF Settle, ProcessTypeOK
<1>4. ProcessTypeOK'
  BY <1>1, <1>2 DEF ProcessTypeOK, Settle, Records
<1>5. QueueIsSound'
  <2>1. \A i \in 1..Len(Tail(writes)) :
          /\ writes[i + 1] \in Transactions /\ i + 1 \in 1..Len(writes)
          /\ writes[i + 1] # t /\ stage[writes[i + 1]] = "queued"
    BY <1>1 DEF RelayInv, QueueIsSound, ProcessTypeOK
  <2>2. \A i \in 1..Len(writes') : stage'[writes'[i]] = "queued"
    BY <1>1, <1>2, <1>3, <2>1
  <2>3. \A i, j \in 1..Len(writes') : writes'[i] = writes'[j] => i = j
    <3> SUFFICES ASSUME NEW i \in 1..Len(writes'), NEW j \in 1..Len(writes'),
                        writes'[i] = writes'[j]
                 PROVE  i = j
      OBVIOUS
    <3>1. i + 1 \in 1..Len(writes) /\ j + 1 \in 1..Len(writes)
          /\ writes[i + 1] = writes[j + 1]
      BY <1>1, <1>2, <2>1
    <3>2. i + 1 = j + 1
      BY <3>1 DEF RelayInv, QueueIsSound
    <3> QED
      BY <1>1, <1>2, <3>2
  <2> QED
    BY <1>2, <2>2, <2>3 DEF QueueIsSound
<1> QED
  BY <1>1, <1>2, <1>4, <1>5, SettleInd

\* The steps of the write at the head of the queue.
LEMMA WriteInd ==
  ASSUME RelayInv, WriteStep
  PROVE  RelayInv'
<1> DEFINE t == Head(writes)
<1>1. ProcessTypeOK /\ file # Torn
  BY ConstantsAssumption DEF RelayInv, TypeOK, ProcessTypeOK, Records
<1>2. Error("500") \in Answers /\ Error("500").permit = NoPermit
  BY DEF Error, Answers
<1>3. \A p \in Permits : Found(p) \in Answers /\ Found(p).permit = p
  BY DEF Found, Answers
<1>4. writes # <<>> => /\ t \in Transactions
                      /\ stage[t] = "queued"
                      /\ permit[t] # NoPermit /\ permit[t] \in Permits
                      /\ permit[t].midnightTxId = t /\ permit[t].relayKeyId = key
                      /\ t \in confirmed \intersect Authorizing
  <2> SUFFICES ASSUME writes # <<>>
               PROVE  /\ t \in Transactions
                      /\ stage[t] = "queued"
                      /\ permit[t] # NoPermit /\ permit[t] \in Permits
                      /\ permit[t].midnightTxId = t /\ permit[t].relayKeyId = key
                      /\ t \in confirmed \intersect Authorizing
    OBVIOUS
  <2>1. t \in Transactions /\ t = writes[1] /\ 1 \in 1..Len(writes)
    BY <1>1 DEF ProcessTypeOK
  <2>2. stage[t] = "queued"
    BY <2>1 DEF RelayInv, QueueIsSound
  <2> QED
    BY <1>1, <2>1, <2>2 DEF RelayInv, DraftsAreSound, ProcessTypeOK, Records
<1>5. file' = file => Grows
  BY DEF Grows
<1>6. UNCHANGED <<file, confirmed>> => StoredIsAuthorized'
  BY DEF RelayInv, StoredIsAuthorized
<1>7. ASSUME UNCHANGED <<pending, stage, permit, writes, requestVars, confirmed, key, file,
                         failures, restarts>>,
             ProcessTypeOK', QueueIsSound'
      PROVE  RelayInv'
  BY <1>7 DEF RelayInv, TypeOK, RequestTypeOK, requestVars, PendingRuns, WaitersPend,
              DraftsAreSound, ReadsAreCurrent, FoundIsOwn, PromisesAreRead, ServedIsStored,
              StoredIsAuthorized, PromisesAreKept, tx
<1>8. CASE PutIfAbsent
  <2>1. CASE file[t] # NoPermit
    <3>1. writes # <<>> /\ EndWrite(Found(file[t])) /\ UNCHANGED <<file, temporary, failures>>
      BY <1>1, <1>8, <2>1 DEF PutIfAbsent
    <3>2. file[t] \in Permits /\ UNCHANGED confirmed
      BY <1>1, <1>4, <2>1, <3>1 DEF ProcessTypeOK, Records, EndWrite
    <3> QED
      BY <1>1, <1>3, <1>5, <1>6, <3>1, <3>2, EndWriteInd DEF ProcessTypeOK
  <2>2. CASE file[t] = NoPermit
    <3>1. writes # <<>> /\ writer = "idle" /\ BeginWrite(t)
      BY <1>1, <1>8, <2>2 DEF PutIfAbsent
    <3>2. ProcessTypeOK'
      BY <1>1, <1>4, <3>1 DEF BeginWrite, ProcessTypeOK, Records
    <3>3. QueueIsSound'
      BY <2>2, <3>1 DEF RelayInv, QueueIsSound, BeginWrite
    <3> QED
      BY <1>7, <3>1, <3>2, <3>3 DEF BeginWrite
  <2> QED
    BY <2>1, <2>2
<1>9. CASE WriteTemporary
  <2>1. ProcessTypeOK'
    BY <1>1, <1>9 DEF WriteTemporary, ProcessTypeOK
  <2>2. QueueIsSound'
    BY <1>9 DEF RelayInv, QueueIsSound, WriteTemporary
  <2> QED
    BY <1>7, <1>9, <2>1, <2>2 DEF WriteTemporary
<1>10. CASE Rename
  <2>1. /\ writes # <<>> /\ file[t] = NoPermit
        /\ file' = [file EXCEPT ![t] = permit[t]]
    BY <1>10 DEF Rename, RelayInv, QueueIsSound
  <2>2. EndWrite(Found(permit[t])) /\ UNCHANGED <<temporary, failures, confirmed>>
    BY <1>10 DEF Rename, EndWrite
  <2>3. file' \in Records /\ file'[t] = permit[t]
    BY <1>1, <1>4, <2>1 DEF ProcessTypeOK, Records
  <2>4. Grows
    BY <1>1, <1>4, <2>1 DEF Grows, ProcessTypeOK, Records
  <2>5. StoredIsAuthorized'
    BY <1>1, <1>4, <2>1, <2>2 DEF RelayInv, StoredIsAuthorized, ProcessTypeOK, Records
  <2> QED
    BY <1>1, <1>3, <1>4, <2>1, <2>2, <2>3, <2>4, <2>5, EndWriteInd DEF ProcessTypeOK
<1>11. CASE WriteFails
  <2>1. writes # <<>> /\ EndWrite(Error("500")) /\ UNCHANGED <<file, temporary, confirmed>>
        /\ failures' \in 0..MaxFailures
    BY <1>1, <1>11, ConstantsAssumption DEF WriteFails, EndWrite, Fail, ProcessTypeOK
  <2> QED
    BY <1>1, <1>2, <1>5, <1>6, <2>1, EndWriteInd DEF ProcessTypeOK
<1> QED
  BY <1>8, <1>9, <1>10, <1>11 DEF WriteStep

\* The process is killed: what is left is the file, and it is sound.
LEMMA RestartInd ==
  ASSUME RelayInv, NEW k \in RelayKeys, Restart(k)
  PROVE  RelayInv'
<1> DEFINE who == {r \in Requests : pc[r] # "idle"}
<1>1. /\ Answer(who, Error("dropped")) /\ file' = file /\ confirmed' = confirmed
      /\ who \in SUBSET Requests
      /\ Error("dropped") \in Answers /\ Error("dropped").permit = NoPermit
      /\ Error("dropped").status = "dropped"
  BY DEF Restart, Error, Answers
<1>2. Grows
  BY <1>1 DEF Grows
<1>3. /\ RequestInv'
      /\ \A r \in Requests : pc'[r] = IF r \in who THEN "idle" ELSE pc[r]
  BY <1>1, <1>2, AnswerInd
<1>4. \A r \in Requests : pc'[r] = "idle"
  BY <1>3
<1>5. SharedInv'
  BY <1>4 DEF SharedInv, WaitersPend, ReadsAreCurrent
<1>6. ProcessTypeOK'
  BY ConstantsAssumption DEF RelayInv, TypeOK, ProcessTypeOK, Restart, Records
<1>7. PendingRuns' /\ DraftsAreSound' /\ QueueIsSound' /\ FoundIsOwn'
  BY DEF Restart, PendingRuns, DraftsAreSound, QueueIsSound, FoundIsOwn
<1>8. StoredIsAuthorized'
  BY <1>1 DEF RelayInv, StoredIsAuthorized
<1> QED
  BY <1>3, <1>5, <1>6, <1>7, <1>8 DEF RelayInv, TypeOK, RequestInv, SharedInv

\* What the indexer comes to know does not disturb the relay.
LEMMA ConfirmInd ==
  ASSUME RelayInv, NEW t \in Transactions, Confirm(t)
  PROVE  RelayInv'
<1>1. ProcessTypeOK' /\ RequestTypeOK'
  BY DEF RelayInv, TypeOK, ProcessTypeOK, RequestTypeOK, Confirm, memory, requestVars
<1>2. PendingRuns' /\ WaitersPend' /\ DraftsAreSound' /\ QueueIsSound'
  BY DEF RelayInv, Confirm, memory, requestVars, PendingRuns, WaitersPend, DraftsAreSound,
         QueueIsSound, tx
<1>3. ReadsAreCurrent' /\ FoundIsOwn' /\ PromisesAreRead'
  BY DEF RelayInv, Confirm, memory, requestVars, ReadsAreCurrent, FoundIsOwn, PromisesAreRead, tx
<1>4. ServedIsStored' /\ StoredIsAuthorized' /\ PromisesAreKept'
  BY DEF RelayInv, Confirm, memory, requestVars, ServedIsStored, StoredIsAuthorized,
         PromisesAreKept
<1> QED
  BY <1>1, <1>2, <1>3, <1>4 DEF RelayInv, TypeOK

\* Nothing happens.
LEMMA StutterInd ==
  ASSUME RelayInv, UNCHANGED vars
  PROVE  RelayInv'
BY DEF RelayInv, vars, memory, requestVars, TypeOK, ProcessTypeOK, RequestTypeOK, PendingRuns,
       WaitersPend, DraftsAreSound, QueueIsSound, ReadsAreCurrent, FoundIsOwn,
       PromisesAreRead, ServedIsStored, StoredIsAuthorized, PromisesAreKept, tx

\* Every step of the relay keeps RelayInv.
LEMMA StepInd == RelayInv /\ [Next]_vars => RelayInv'
BY ArriveInd, RequestInd, IssueInd, WriteInd, ConfirmInd, RestartInd, StutterInd DEF Next

-----------------------------------------------------------------------------
(* The theorems.                                                            *)

\* RelayInv holds in every reachable state.
THEOREM Inductive == Spec => []RelayInv
<1> QED
  BY InitInd, StepInd, PTL DEF Spec

\* Every variable stays in its domain, and the state file is never torn.
THEOREM TypeCorrect == Spec => []TypeOK
<1>1. RelayInv => TypeOK
  BY DEF RelayInv
<1> QED
  BY <1>1, Inductive, PTL

\* All permits ever given out for a transaction are the one that is stored.
THEOREM AnswersAgree == Spec => []ServedIsStored
<1>1. RelayInv => ServedIsStored
  BY DEF RelayInv
<1> QED
  BY <1>1, Inductive, PTL

\* Only confirmed transactions that satisfy a policy have a permit.
THEOREM PermitsAreAuthorized == Spec => []StoredIsAuthorized
<1>1. RelayInv => StoredIsAuthorized
  BY DEF RelayInv
<1> QED
  BY <1>1, Inductive, PTL

\* A permit once given out stays available to later requests.
THEOREM PromisesHold == Spec => []PromisesAreKept
<1>1. RelayInv => PromisesAreKept
  BY DEF RelayInv
<1> QED
  BY <1>1, Inductive, PTL

\* Only the rename of a finished temporary file changes the state file.
LEMMA FileChanges ==
  ASSUME [Next]_vars, ~Rename
  PROVE  file' = file
BY DEF Next, vars, Arrive, RequestStep, ReadStore, ReadStoreFails, ServeStored, NotFound,
       ShareOrStart, IssueStep, Authorize, AuthorizeTimeout, CurrentSlot, CurrentSlotFails,
       SignAndEnqueue, WriteStep, PutIfAbsent, BeginWrite, WriteTemporary, WriteFails,
       Confirm, Restart

\* The rename adds the permit of the operation at the head of the queue.
LEMMA RenameEffect ==
  ASSUME RelayInv, Rename
  PROVE  /\ Head(writes) \in Transactions
         /\ permit[Head(writes)] \in Permits
         /\ permit[Head(writes)].relayKeyId = key
         /\ file[Head(writes)] = NoPermit
         /\ file' = [file EXCEPT ![Head(writes)] = permit[Head(writes)]]
<1>1. ProcessTypeOK /\ writes # <<>>
  BY DEF RelayInv, TypeOK, Rename, QueueIsSound
<1>2. Head(writes) \in Transactions /\ Head(writes) = writes[1] /\ 1 \in 1..Len(writes)
  BY <1>1 DEF ProcessTypeOK
<1>3. stage[Head(writes)] = "queued"
  BY <1>2 DEF RelayInv, QueueIsSound
<1>4. permit[Head(writes)] \in Permits /\ permit[Head(writes)].relayKeyId = key
  BY <1>1, <1>2, <1>3 DEF RelayInv, DraftsAreSound, ProcessTypeOK, Records
<1> QED
  BY <1>2, <1>4 DEF Rename, RelayInv, QueueIsSound

\* A stored permit is never replaced and never lost.
THEOREM PermitFinality == Spec => PermitsAreFinal
<1> DEFINE Kept == \A t \in Transactions : file[t] # NoPermit => file'[t] = file[t]
<1>1. ASSUME RelayInv, [Next]_vars PROVE Kept
  <2>1. CASE Rename
    BY <1>1, <2>1, RenameEffect DEF RelayInv, TypeOK, ProcessTypeOK, Records
  <2>2. CASE ~Rename
    BY <1>1, <2>2, FileChanges
  <2> QED
    BY <2>1, <2>2
<1> QED
  BY <1>1, Inductive, PTL DEF Spec, PermitsAreFinal

\* Answering tells each of the requests the result, and the others nothing.
LEMMA AnswerTells ==
  ASSUME NEW who, NEW result, Answer(who, result), NEW r \in Requests, answer'[r] # answer[r]
  PROVE  answer'[r] = result
BY DEF Answer

\* Every permit is given out under the key that signed it.
THEOREM KeyFidelity == Spec => AnswersCarryTheKey
<1> DEFINE Faithful == \A r \in Requests : answer'[r] # answer[r] /\ answer'[r].status = "200"
                                             => answer'[r].permit.relayKeyId = key
<1>1. \A status \in {"dropped", "404", "422", "500", "503", "504"} :
        Error(status).status # "200"
  BY DEF Error
<1>2. \A p : Found(p).permit = p
  BY DEF Found
<1>3. ASSUME NEW who, NEW status \in {"dropped", "404", "422", "500", "503", "504"},
             Answer(who, Error(status))
      PROVE  Faithful
  BY <1>1, <1>3, AnswerTells
<1>4. ASSUME NEW who, NEW p, Answer(who, Found(p)), p.relayKeyId = key
      PROVE  Faithful
  BY <1>2, <1>4, AnswerTells
<1>5. ASSUME RelayInv, [Next]_vars PROVE Faithful
  <2> USE <1>5
  <2>1. ASSUME NEW r \in Requests, NEW m \in {"GET", "POST"}, NEW t \in Transactions,
               Arrive(r, m, t)
        PROVE  Faithful
    <3>1. RequestTypeOK
      BY DEF RelayInv, TypeOK
    <3> QED
      BY <2>1, <3>1 DEF Arrive, Error, RequestTypeOK
  <2>2. ASSUME NEW r \in Requests, RequestStep(r) PROVE Faithful
    <3>1. CASE ServeStored(r) /\ Valid(seen[r], tx(r))
      BY <1>4, <3>1 DEF ServeStored, Valid
    <3>2. CASE ServeStored(r) /\ ~Valid(seen[r], tx(r))
      BY <1>3, <3>2 DEF ServeStored
    <3>3. CASE ReadStoreFails(r) \/ NotFound(r)
      BY <1>3, <3>3 DEF ReadStoreFails, NotFound
    <3>4. CASE ReadStore(r) /\ file = Torn
      BY <1>3, <3>4 DEF ReadStore
    <3>5. CASE (ReadStore(r) /\ file # Torn) \/ ShareOrStart(r)
      BY <3>5 DEF ReadStore, ShareOrStart
    <3> QED
      BY <2>2, <3>1, <3>2, <3>3, <3>4, <3>5 DEF RequestStep
  <2>3. ASSUME NEW t \in Transactions, IssueStep(t) PROVE Faithful
    <3>1. CASE AuthorizeTimeout(t) \/ CurrentSlotFails(t)
      BY <1>3, <3>1 DEF AuthorizeTimeout, CurrentSlotFails, Settle
    <3>2. CASE Authorize(t)
      BY <1>3, <3>2 DEF Authorize, Settle, requestVars
    <3>3. CASE SignAndEnqueue(t) \/ \E slot \in Slots : CurrentSlot(t, slot)
      BY <3>3 DEF SignAndEnqueue, CurrentSlot, requestVars
    <3> QED
      BY <2>3, <3>1, <3>2, <3>3 DEF IssueStep
  <2>4. CASE PutIfAbsent
    <3>1. ASSUME EndWrite(Error("500")) PROVE Faithful
      BY <1>3, <3>1 DEF EndWrite, Settle
    <3>2. ASSUME writes # <<>>, file[Head(writes)] # NoPermit,
                 EndWrite(Found(file[Head(writes)]))
          PROVE  Faithful
      <4>1. Head(writes) \in Transactions /\ Head(writes) = writes[1] /\ 1 \in 1..Len(writes)
        BY <3>2 DEF RelayInv, TypeOK, ProcessTypeOK
      <4>2. file[Head(writes)].relayKeyId = key
        BY <3>2, <4>1 DEF RelayInv, QueueIsSound, FoundIsOwn
      <4> QED
        BY <1>4, <3>2, <4>2 DEF EndWrite, Settle
    <3> QED
      BY <2>4, <3>1, <3>2 DEF PutIfAbsent, BeginWrite, requestVars
  <2>5. CASE Rename
    BY <1>4, <2>5, RenameEffect DEF Rename, EndWrite, Settle
  <2>6. CASE WriteFails
    BY <1>3, <2>6 DEF WriteFails, EndWrite, Settle
  <2>7. CASE WriteTemporary \/ UNCHANGED vars \/ \E t \in Transactions : Confirm(t)
    BY <2>7 DEF WriteTemporary, vars, Confirm, requestVars
  <2>8. ASSUME NEW k \in RelayKeys, Restart(k) PROVE Faithful
    BY <1>3, <2>8 DEF Restart
  <2> QED
    BY <2>1, <2>2, <2>3, <2>4, <2>5, <2>6, <2>7, <2>8 DEF Next, WriteStep
<1> QED
  BY <1>5, Inductive, PTL DEF Spec, AnswersCarryTheKey

-----------------------------------------------------------------------------
(* Refinement of PermitRegister.                                            *)

\* An error serves nothing.
LEMMA ErrorsServeNothing ==
  ASSUME RequestTypeOK, NEW who, NEW status, Answer(who, Error(status))
  PROVE  served' = served
BY DEF Answer, Error, RequestTypeOK

\* A permit answered to requests for t is served for t, or for nobody.
LEMMA AnswersServe ==
  ASSUME RequestTypeOK, NEW who, NEW p, Answer(who, Found(p)),
         NEW t \in Transactions, \A r \in who : tx(r) = t
  PROVE  served' \in {served, [served EXCEPT ![t] = @ \union {p}]}
<1>1. Found(p).permit = p
  BY DEF Found
<1>2. CASE p # NoPermit /\ who # {}
  <2>1. \A u \in Transactions : (\E r \in who : tx(r) = u) <=> u = t
    BY <1>2
  <2>2. served' = [u \in Transactions |-> IF u = t THEN served[u] \union {p} ELSE served[u]]
    BY <1>1, <1>2, <2>1 DEF Answer
  <2> QED
    BY <2>2 DEF RequestTypeOK
<1>3. CASE p = NoPermit \/ who = {}
  BY <1>1, <1>3 DEF Answer, RequestTypeOK
<1> QED
  BY <1>2, <1>3

\* A step that answers with the stored permit of t serves it, or stutters.
LEMMA ServesOrStutters ==
  ASSUME RelayInv, NEW t \in Transactions, file[t] # NoPermit, file' = file,
         NEW who, Answer(who, Found(file[t])), \A r \in who : tx(r) = t
  PROVE  Register!Serve(t) \/ UNCHANGED <<file, served>>
BY AnswersServe DEF RelayInv, TypeOK, Register!Serve

\* The rename issues the permit at the head of the queue.
LEMMA RenameIssues ==
  ASSUME RelayInv, Rename
  PROVE  Register!Issue(Head(writes), permit[Head(writes)])
<1> DEFINE t == Head(writes)
           p == permit[Head(writes)]
<1>1. /\ t \in Transactions /\ p \in Permits /\ file[t] = NoPermit
      /\ file' = [file EXCEPT ![t] = p]
  BY RenameEffect
<1>2. RequestTypeOK
  BY DEF RelayInv, TypeOK
<1>3. served[t] = {}
  BY <1>1, <1>2, ConstantsAssumption DEF RelayInv, ServedIsStored, RequestTypeOK
<1>4. Answer(waitingFor(t), Found(p))
  BY DEF Rename, EndWrite, Settle
<1>5. \A r \in waitingFor(t) : tx(r) = t
  BY DEF waitingFor
<1>6. served' \in {served, [served EXCEPT ![t] = @ \union {p}]}
  BY <1>1, <1>2, <1>4, <1>5, AnswersServe
<1>7. [served EXCEPT ![t] = @ \union {p}] = [served EXCEPT ![t] = {p}]
  BY <1>3
<1> QED
  BY <1>1, <1>6, <1>7 DEF Register!Issue

\* The relay implements the write-once registers.
THEOREM Refinement == Spec => ImplementsRegister
<1>1. Init => Register!Init
  BY DEF Init, Register!Init
<1>2. ASSUME RelayInv, [Next]_vars PROVE [Register!Next]_<<file, served>>
  <2> USE <1>2
  <2> DEFINE Same == UNCHANGED <<file, served>>
  <2>1. RequestTypeOK /\ ProcessTypeOK
    BY DEF RelayInv, TypeOK
  <2>2. ASSUME NEW who, NEW status, Answer(who, Error(status)), ~Rename PROVE Same
    BY <2>1, <2>2, ErrorsServeNothing, FileChanges
  <2>3. CASE Rename
    BY <2>3, RenameIssues, RenameEffect DEF Register!Next
  <2>4. ASSUME NEW r \in Requests, RequestStep(r), ~Rename PROVE Register!Next \/ Same
    <3>1. CASE ServeStored(r) /\ Valid(seen[r], tx(r))
      <4>1. tx(r) \in Transactions /\ file' = file
        BY <2>1, <2>4, FileChanges DEF RequestTypeOK, tx
      <4>2. seen[r] = file[tx(r)] /\ file[tx(r)] # NoPermit
        BY <3>1 DEF ServeStored, RelayInv, ReadsAreCurrent
      <4>3. Answer({r}, Found(file[tx(r)]))
        BY <3>1, <4>2 DEF ServeStored
      <4> QED
        BY <4>1, <4>2, <4>3, ServesOrStutters DEF Register!Next
    <3>2. CASE ServeStored(r) /\ ~Valid(seen[r], tx(r))
      BY <2>2, <2>4, <3>2 DEF ServeStored
    <3>3. CASE ReadStoreFails(r) \/ NotFound(r)
      BY <2>2, <2>4, <3>3 DEF ReadStoreFails, NotFound
    <3>4. CASE ReadStore(r) /\ file = Torn
      BY <2>2, <2>4, <3>4 DEF ReadStore
    <3>5. CASE (ReadStore(r) /\ file # Torn) \/ ShareOrStart(r)
      BY <3>5 DEF ReadStore, ShareOrStart
    <3> QED
      BY <2>4, <3>1, <3>2, <3>3, <3>4, <3>5 DEF RequestStep
  <2>5. ASSUME NEW t \in Transactions, IssueStep(t), ~Rename PROVE Same
    <3>1. CASE AuthorizeTimeout(t) \/ CurrentSlotFails(t)
      BY <2>2, <2>5, <3>1 DEF AuthorizeTimeout, CurrentSlotFails, Settle
    <3>2. CASE Authorize(t)
      BY <2>2, <2>5, <3>2 DEF Authorize, Settle, requestVars
    <3>3. CASE SignAndEnqueue(t) \/ \E slot \in Slots : CurrentSlot(t, slot)
      BY <3>3 DEF SignAndEnqueue, CurrentSlot, requestVars
    <3> QED
      BY <2>5, <3>1, <3>2, <3>3 DEF IssueStep
  <2>6. CASE PutIfAbsent /\ ~Rename
    <3>1. CASE EndWrite(Error("500"))
      BY <2>2, <2>6, <3>1 DEF EndWrite, Settle
    <3>2. CASE file[Head(writes)] # NoPermit /\ EndWrite(Found(file[Head(writes)]))
      <4>1. Head(writes) \in Transactions
        BY <2>1, <2>6 DEF PutIfAbsent, ProcessTypeOK
      <4>2. \A r \in waitingFor(Head(writes)) : tx(r) = Head(writes)
        BY DEF waitingFor
      <4>3. Register!Serve(Head(writes)) \/ Same
        BY <2>6, <3>2, <4>1, <4>2, FileChanges, ServesOrStutters DEF EndWrite, Settle
      <4> QED
        BY <4>1, <4>3 DEF Register!Next
    <3>3. CASE BeginWrite(Head(writes))
      BY <3>3 DEF BeginWrite, requestVars
    <3> QED
      BY <2>6, <3>1, <3>2, <3>3 DEF PutIfAbsent
  <2>7. CASE WriteFails /\ ~Rename
    BY <2>2, <2>7 DEF WriteFails, EndWrite, Settle
  <2>8. ASSUME NEW k \in RelayKeys, Restart(k), ~Rename PROVE Same
    BY <2>2, <2>8 DEF Restart
  <2>9. CASE WriteTemporary \/ UNCHANGED vars \/ \E t \in Transactions : Confirm(t)
    BY <2>9 DEF WriteTemporary, vars, Confirm, requestVars
  <2>10. ASSUME NEW r \in Requests, NEW m \in {"GET", "POST"}, NEW t \in Transactions,
                Arrive(r, m, t)
         PROVE  Same
    BY <2>10 DEF Arrive
  <2> QED
    BY <2>3, <2>4, <2>5, <2>6, <2>7, <2>8, <2>9, <2>10 DEF Next, WriteStep
<1> QED
  BY <1>1, <1>2, Inductive, PTL DEF Spec, ImplementsRegister, Register!Spec
=============================================================================
