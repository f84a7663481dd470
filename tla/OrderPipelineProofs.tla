------------------------ MODULE OrderPipelineProofs ------------------------
(* Theorems about OrderPipeline, for any calls, bodies, workers and         *)
(* consumers.  What is proved of the parts is used, not proved again.       *)
EXTENDS OrderPipeline, TLAPS

O == INSTANCE OrderServiceProofs
P == INSTANCE OutboxPublisherProofs WITH Rows <- Requests
C == INSTANCE NotificationConsumerProofs
    WITH Events <- Requests, MaxAttempts <- ConsumerMaxAttempts, pc <- doing

-----------------------------------------------------------------------------
(* The parts within the whole.                                              *)

\* The constants of the whole are constants the parts can have.
LEMMA PartsAssumed ==
    /\ O!ProductAssumption /\ O!BasketAssumption /\ O!LimitAssumption
    /\ P!PublisherAssumption /\ C!ConsumerAssumption
BY PipelineAssumption
   DEF O!ProductAssumption, O!BasketAssumption, O!LimitAssumption, O!IsFiniteSet,
       P!PublisherAssumption, C!ConsumerAssumption, P!IsFiniteSet, IsFiniteSet

\* The invariants of the parts are those of their proofs, before and after a step.
LEMMA SameInvariants ==
    /\ Service!TransactionInv <=> O!TransactionInv
    /\ Service!TransactionInv' <=> O!TransactionInv'
    /\ Publisher!PublisherInv <=> P!PublisherInv
    /\ Publisher!PublisherInv' <=> P!PublisherInv'
    /\ Consumer!ConsumerInv <=> C!ConsumerInv
    /\ Consumer!ConsumerInv' <=> C!ConsumerInv'
<1>1. /\ Publisher!PublisherInv <=> P!PublisherInv
      /\ Publisher!PublisherInv' <=> P!PublisherInv'
  BY DEF Publisher!PublisherInv, Publisher!TypeOK, Publisher!WorkerInv,
         Publisher!ClaimsAreExclusive, Publisher!LockedArePending, Publisher!OnTopic,
         Publisher!PublishedIsOnTopic, Publisher!AttemptsInv, Publisher!FailedIsExhausted,
         Publisher!Statuses, Publisher!SendStates,
         P!PublisherInv, P!TypeOK, P!WorkerInv, P!ClaimsAreExclusive, P!LockedArePending,
         P!OnTopic, P!PublishedIsOnTopic, P!AttemptsInv, P!FailedIsExhausted,
         P!Statuses, P!SendStates
<1>2. /\ Consumer!ConsumerInv <=> C!ConsumerInv
      /\ Consumer!ConsumerInv' <=> C!ConsumerInv'
  BY DEF Consumer!ConsumerInv, Consumer!TypeOK, Consumer!MemberInv, Consumer!MemberOk,
         Consumer!BelowSettled, Consumer!Settled, Consumer!Offsets, Consumer!Records,
         Consumer!Steps, Consumer!Busy,
         C!ConsumerInv, C!TypeOK, C!MemberInv, C!MemberOk, C!BelowSettled, C!Settled,
         C!Offsets, C!Records, C!Steps, C!Busy
<1>3. /\ Service!TransactionInv <=> O!TransactionInv
      /\ Service!TransactionInv' <=> O!TransactionInv'
  BY DEF Service!TransactionInv, Service!TypeOK, Service!KeyInv, Service!LockInv,
         Service!ReadyInv, Service!OrdersInv, Service!RecoverInv, Service!RecoveryFindsOrder,
         Service!Inserted, Service!Existing, Service!Wanted, Service!Ordered, Service!Bodies,
         Service!Active, Service!InTransaction, Service!Answers,
         O!TransactionInv, O!TypeOK, O!KeyInv, O!LockInv, O!ReadyInv, O!OrdersInv,
         O!RecoverInv, O!RecoveryFindsOrder, O!Inserted, O!Existing, O!Wanted, O!Ordered,
         O!Bodies, O!Active, O!InTransaction, O!Answers
<1> QED
  BY <1>1, <1>2, <1>3

\* So are their steps.
LEMMA SameAmount == \A items : Service!Amount(items) = O!Amount(items)
BY Zenon DEF Service!Amount, Service!SumFunction, Service!SumFunctionOnSet,
       Service!FoldFunctionOnSet, Service!MapThenFoldSet,
       O!Amount, O!SumFunction, O!SumFunctionOnSet, O!FoldFunctionOnSet, O!MapThenFoldSet

LEMMA SameService == Service!Next <=> O!Next
<1> USE DEF Service!End, Service!Goto, Service!Nothing, Service!Existing, Service!Wanted,
            Service!Ordered, Service!tables, O!End, O!Goto, O!Nothing, O!Existing, O!Wanted,
            O!Ordered, O!tables
<1>1. Service!ConnectionFree <=> O!ConnectionFree
  BY DEF Service!ConnectionFree, Service!Cardinality, Service!InTransaction,
         O!ConnectionFree, O!Cardinality, O!InTransaction
<1>2. ASSUME NEW p \in ProductIds PROVE Service!CreateProduct(p) <=> O!CreateProduct(p)
  BY <1>1 DEF Service!CreateProduct, O!CreateProduct
<1>3. ASSUME NEW r \in Requests PROVE Service!Proceed(r) <=> O!Proceed(r)
  <2>1. Service!AnswerFromExisting(r) <=> O!AnswerFromExisting(r)
    BY DEF Service!AnswerFromExisting, Service!SameRequest, O!AnswerFromExisting, O!SameRequest
  <2>2. /\ Service!FindReplay(r) <=> O!FindReplay(r)
        /\ Service!FindNothing(r) <=> O!FindNothing(r)
        /\ Service!Recover(r) <=> O!Recover(r)
    BY <1>1, <2>1 DEF Service!FindReplay, Service!FindNothing, Service!Recover,
                      O!FindReplay, O!FindNothing, O!Recover
  <2>3. Service!InsertOrder(r) <=> O!InsertOrder(r)
    BY DEF Service!InsertOrder, Service!KeyHolders, O!InsertOrder, O!KeyHolders
  <2>4. ASSUME NEW p \in ProductIds PROVE Service!LockProduct(r, p) <=> O!LockProduct(r, p)
    BY DEF Service!LockProduct, Service!LockRow, Service!LockedByOthers,
           O!LockProduct, O!LockRow, O!LockedByOthers
  <2>5. Service!AllLocked(r) <=> O!AllLocked(r)
    BY DEF Service!AllLocked, O!AllLocked
  <2>6. /\ Service!RejectUnknown(r) <=> O!RejectUnknown(r)
        /\ Service!RejectShortage(r) <=> O!RejectShortage(r)
        /\ Service!FlushItems(r) <=> O!FlushItems(r)
    BY <2>5, SameAmount
       DEF Service!RejectUnknown, Service!RejectShortage, Service!FlushItems, Service!Short,
           O!RejectUnknown, O!RejectShortage, O!FlushItems, O!Short
  <2>7. Service!Commit(r) <=> O!Commit(r)
    BY DEF Service!Commit, Service!CommitAs, O!Commit, O!CommitAs
  <2> QED
    BY <2>2, <2>3, <2>4, <2>6, <2>7 DEF Service!Proceed, O!Proceed
<1>4. ASSUME NEW r \in Requests
      PROVE  /\ Service!CommitUnacknowledged(r) <=> O!CommitUnacknowledged(r)
             /\ Service!Fail(r) <=> O!Fail(r)
  BY DEF Service!CommitUnacknowledged, Service!CommitAs, Service!Fail, Service!Active,
         Service!InTransaction, O!CommitUnacknowledged, O!CommitAs, O!Fail, O!Active,
         O!InTransaction
<1> QED
  BY <1>2, <1>3, <1>4 DEF Service!Next, O!Next

LEMMA SamePublishing == Publisher!Publishing <=> P!Publishing
BY DEF Publisher!Publishing, Publisher!WorkerNext, Publisher!Claim, Publisher!Append,
       Publisher!Acknowledge, Publisher!SendFails, Publisher!TimeOut, Publisher!Settle,
       Publisher!LoseConnection, Publisher!CycleFails, Publisher!Crash, Publisher!Restart,
       Publisher!StrayArrives, Publisher!Tick, Publisher!Cardinality, Publisher!First,
       Publisher!Claimable, Publisher!Locked, Publisher!GiveUpOn, Publisher!Flying,
       Publisher!Resolved, Publisher!Release, Publisher!Acked, Publisher!Refused,
       Publisher!Exhausted, Publisher!TimeLeft, Publisher!Ceiling, Publisher!Delays,
       Publisher!Retried, Publisher!NoSends,
       Publisher!rowVars, Publisher!workerVars, Publisher!topicVars,
       P!Publishing, P!WorkerNext, P!Claim, P!Append, P!Acknowledge, P!SendFails, P!TimeOut,
       P!Settle, P!LoseConnection, P!CycleFails, P!Crash, P!Restart, P!StrayArrives, P!Tick,
       P!Cardinality, P!First, P!Claimable, P!Locked, P!GiveUpOn, P!Flying, P!Resolved,
       P!Release, P!Acked, P!Refused, P!Exhausted, P!TimeLeft, P!Ceiling, P!Delays,
       P!Retried, P!NoSends,
       P!rowVars, P!workerVars, P!topicVars

LEMMA SameMemberNext ==
    ASSUME NEW c \in Consumers PROVE Consumer!MemberNext(c) <=> C!MemberNext(c)
BY DEF Consumer!MemberNext, Consumer!Assign, Consumer!Poll, Consumer!Leave, Consumer!Attempt,
       Consumer!Handle, Consumer!Store, Consumer!Skip, Consumer!DeadLetter,
       Consumer!FailTransiently, Consumer!FailUnexpectedly, Consumer!Pause,
       Consumer!PauseOverflows, Consumer!GiveUpFails, Consumer!Commit, Consumer!CommitFails,
       Consumer!Crash, Consumer!Terminate, Consumer!Restart, Consumer!Record, Consumer!Fault,
       Consumer!At, Consumer!Goto, Consumer!ResetCounters, Consumer!Done, Consumer!Forget,
       Consumer!Exit, Consumer!AddUnlessSeen, Consumer!Halfway, Consumer!results,
       Consumer!groupVars, Consumer!batchVars, Consumer!attemptVars,
       C!MemberNext, C!Assign, C!Poll, C!Leave, C!Attempt, C!Handle, C!Store, C!Skip,
       C!DeadLetter, C!FailTransiently, C!FailUnexpectedly, C!Pause, C!PauseOverflows,
       C!GiveUpFails, C!Commit, C!CommitFails, C!Crash, C!Terminate, C!Restart, C!Record,
       C!Fault, C!At, C!Goto, C!ResetCounters, C!Done, C!Forget, C!Exit, C!AddUnlessSeen,
       C!Halfway, C!results, C!groupVars, C!batchVars, C!attemptVars

\* A step of the whole is a step of the transactions or leaves them alone.
LEMMA ServiceStep ==
    ASSUME Service!TransactionInv, [Next]_vars
    PROVE  Service!TransactionInv'
<1>1. O!TransactionInv
  BY SameInvariants
<1>2. [O!Next]_(O!vars)
  <2>1. ASSUME NEW r \in Requests, Commit(r) PROVE O!Next
    <3>1. Service!Next
      BY <2>1 DEF Commit, Service!Next, Service!Proceed
    <3> QED
      BY <3>1, SameService
  <2>2. CASE Serve
    BY <2>2, SameService DEF Serve
  <2>3. CASE UNCHANGED serviceVars
    BY <2>3 DEF serviceVars, O!vars
  <2> QED
    BY <2>1, <2>2, <2>3 DEF Next, Arrive, Publish, Consume, vars
<1>3. O!TransactionInv'
  BY <1>1, <1>2, PartsAssumed, O!StepInv
<1> QED
  BY <1>3, SameInvariants

\* A step of the whole is a step of the workers or leaves them alone.
LEMMA PublisherStep ==
    ASSUME Publisher!PublisherInv, [Next]_vars
    PROVE  Publisher!PublisherInv'
<1>1. P!PublisherInv
  BY SameInvariants
<1>2. [P!Next]_(P!vars)
  <2>1. ASSUME NEW r \in Requests, Commit(r) PROVE P!Next
    BY <2>1 DEF Commit, Publisher!Insert, P!Next, P!Insert, Publisher!workerVars, P!workerVars,
                Publisher!topicVars, P!topicVars
  <2>2. ASSUME NEW m \in Requests, Arrive(m) PROVE P!Next
    <3>1. Publisher!Publishing
      BY <2>2 DEF Arrive, Publisher!Publishing, Publisher!WorkerNext
    <3> QED
      BY <3>1, SamePublishing DEF P!Next
  <2>3. CASE Publish
    BY <2>3, SamePublishing DEF Publish, P!Next
  <2>4. CASE UNCHANGED publisherVars
    BY <2>4 DEF publisherVars, P!vars
  <2> QED
    BY <2>1, <2>2, <2>3, <2>4 DEF Next, Serve, Consume, vars
<1>3. P!PublisherInv'
  BY <1>1, <1>2, PartsAssumed, P!StepInv
<1> QED
  BY <1>3, SameInvariants

\* A step of the whole is a step of the group or leaves it alone.
LEMMA ConsumerStep ==
    ASSUME Consumer!ConsumerInv, [Next]_vars
    PROVE  Consumer!ConsumerInv'
<1>1. C!ConsumerInv
  BY SameInvariants
<1>2. [C!Next]_(C!vars)
  <2>1. ASSUME NEW m \in Requests, Arrive(m) PROVE C!Next
    <3>1. OrderRecord(m) \in C!Records
      BY DEF OrderRecord, C!Records
    <3>2. C!Produce(OrderRecord(m))
      BY <2>1 DEF Arrive, Consumer!Produce, C!Produce, Consumer!results, C!results,
                  Consumer!batchVars, C!batchVars, Consumer!attemptVars, C!attemptVars
    <3> QED
      BY <3>1, <3>2 DEF C!Next
  <2>2. ASSUME NEW c \in Consumers, Consume(c) PROVE C!Next
    BY <2>2, SameMemberNext DEF Consume, C!Next
  <2>3. CASE UNCHANGED consumerVars
    BY <2>3 DEF consumerVars, C!vars
  <2> QED
    BY <2>1, <2>2, <2>3 DEF Next, Commit, Serve, Publish, vars
<1>3. C!ConsumerInv'
  BY <1>1, <1>2, PartsAssumed, C!StepInv
<1> QED
  BY <1>3, SameInvariants

\* The parts start as they start alone.
LEMMA PartsInit ==
    Init => Service!TransactionInv /\ Publisher!PublisherInv /\ Consumer!ConsumerInv
<1> SUFFICES ASSUME Init
             PROVE  Service!TransactionInv /\ Publisher!PublisherInv /\ Consumer!ConsumerInv
  OBVIOUS
<1>1. O!Init /\ P!Init /\ C!Init
  BY DEF Init, Service!Init, O!Init, Service!Bodies, O!Bodies, Service!Nothing, O!Nothing,
         Publisher!Init, P!Init, Publisher!NoSends, P!NoSends, Consumer!Init, C!Init
<1> QED
  BY <1>1, PartsAssumed, O!InitInv, P!InitInv, C!InitInv, SameInvariants

-----------------------------------------------------------------------------
(* What the steps of the parts do to what the parts share.                  *)

\* Whatever the workers, the clock and the broker do, a row that is not there,
\* with no send and no stray, stays that way.
LEMMA AbsentStays ==
    ASSUME Publisher!PublisherInv, Publisher!Publishing, NEW k \in Requests,
           status[k] = "absent", stray[k] = 0, \A w \in Workers : sent[w][k] = "none"
    PROVE  status'[k] = "absent" /\ stray'[k] = 0 /\ \A w \in Workers : sent'[w][k] = "none"
<1> DEFINE Still == /\ status'[k] = "absent" /\ stray'[k] = 0
                    /\ \A v \in Workers : sent'[v][k] = "none"
<1>0. /\ Publisher!TypeOK /\ \A w \in Workers : k \notin batch[w]
      /\ \A w \in Workers : sent[w] \in [Requests -> Publisher!SendStates]
  BY DEF Publisher!PublisherInv, Publisher!WorkerInv, Publisher!TypeOK
<1>1. ASSUME NEW w \in Workers, Publisher!Claim(w)
      PROVE  Still
  <2>1. k \notin Publisher!First(Publisher!Claimable)
    BY DEF Publisher!First, Publisher!Claimable
  <2>2. \A v \in Workers : sent'[v][k] = "none"
    BY <1>0, <1>1, <2>1 DEF Publisher!Claim, Publisher!TypeOK
  <2> QED
    BY <1>1, <2>2 DEF Publisher!Claim, Publisher!rowVars, Publisher!topicVars
<1>2. ASSUME NEW w \in Workers, NEW m \in Requests,
             Publisher!Append(w, m) \/ Publisher!Acknowledge(w, m) \/ Publisher!SendFails(w, m)
      PROVE  Still
  <2>1. m # k
    BY <1>2 DEF Publisher!Append, Publisher!Acknowledge, Publisher!SendFails
  <2>2. \A v \in Workers : sent'[v][k] = "none"
    BY <1>0, <1>2, <2>1
       DEF Publisher!Append, Publisher!Acknowledge, Publisher!SendFails, Publisher!TypeOK
  <2>3. status'[k] = "absent" /\ stray'[k] = 0
    BY <1>2, <2>1
       DEF Publisher!Append, Publisher!Acknowledge, Publisher!SendFails, Publisher!GiveUpOn,
           Publisher!rowVars, Publisher!topicVars
  <2> QED
    BY <2>2, <2>3
<1>3. ASSUME NEW w \in Workers, Publisher!TimeOut(w)
      PROVE  Still
  <2>1. \A v \in Workers : sent'[v][k] = "none"
    BY <1>0, <1>3 DEF Publisher!TimeOut, Publisher!TypeOK
  <2>2. status'[k] = "absent" /\ stray'[k] = 0
    BY <1>0, <1>3 DEF Publisher!TimeOut, Publisher!GiveUpOn, Publisher!Flying, Publisher!rowVars
  <2> QED
    BY <2>1, <2>2
<1>4. ASSUME NEW w \in Workers, NEW next \in {"idle", "down"}, Publisher!Release(w, next)
      PROVE  \A v \in Workers : sent'[v][k] = "none"
  BY <1>0, <1>4 DEF Publisher!Release, Publisher!NoSends, Publisher!TypeOK
<1>5. ASSUME NEW w \in Workers, Publisher!Settle(w)
      PROVE  Still
  <2>1. k \notin Publisher!Acked(w) /\ k \notin Publisher!Exhausted(w)
    BY <1>0 DEF Publisher!Acked, Publisher!Exhausted, Publisher!Refused
  <2>2. status'[k] = "absent" /\ stray'[k] = 0
    BY <1>5, <2>1 DEF Publisher!Settle, Publisher!topicVars
  <2>3. \A v \in Workers : sent'[v][k] = "none"
    BY <1>4, <1>5 DEF Publisher!Settle
  <2> QED
    BY <2>2, <2>3
<1>6. ASSUME NEW w \in Workers, Publisher!CycleFails(w) \/ Publisher!Crash(w)
      PROVE  Still
  <2>1. \A v \in Workers : sent'[v][k] = "none"
    BY <1>4, <1>6 DEF Publisher!CycleFails, Publisher!Crash
  <2>2. status'[k] = "absent" /\ stray'[k] = 0
    BY <1>0, <1>6 DEF Publisher!CycleFails, Publisher!Crash, Publisher!GiveUpOn,
                      Publisher!Flying, Publisher!rowVars, Publisher!topicVars
  <2> QED
    BY <2>1, <2>2
<1>7. ASSUME NEW w \in Workers, Publisher!LoseConnection(w) \/ Publisher!Restart(w)
      PROVE  Still
  BY <1>7 DEF Publisher!LoseConnection, Publisher!Restart, Publisher!rowVars, Publisher!topicVars
<1>8. ASSUME NEW m \in Requests, Publisher!StrayArrives(m)
      PROVE  Still
  <2>1. m # k
    BY <1>8 DEF Publisher!StrayArrives
  <2> QED
    BY <1>8, <2>1 DEF Publisher!StrayArrives, Publisher!rowVars, Publisher!workerVars
<1>9. CASE Publisher!Tick
  BY <1>9 DEF Publisher!Tick, Publisher!topicVars
<1> QED
  BY <1>1, <1>2, <1>3, <1>5, <1>6, <1>7, <1>8, <1>9 DEF Publisher!Publishing, Publisher!WorkerNext

\* Whatever they do, a row that is there stays.
LEMMA PresentStays ==
    ASSUME Publisher!PublisherInv, Publisher!Publishing, NEW k \in Requests,
           status[k] # "absent"
    PROVE  status'[k] # "absent"
<1>1. status \in [Requests -> Publisher!Statuses]
  BY DEF Publisher!PublisherInv, Publisher!TypeOK
<1>2. ASSUME NEW w \in Workers, Publisher!Settle(w) PROVE status'[k] # "absent"
  BY <1>1, <1>2 DEF Publisher!Settle
<1> QED
  BY <1>2
     DEF Publisher!Publishing, Publisher!WorkerNext, Publisher!Claim, Publisher!Append,
         Publisher!Acknowledge, Publisher!SendFails, Publisher!TimeOut,
         Publisher!LoseConnection, Publisher!CycleFails, Publisher!Crash, Publisher!Restart,
         Publisher!StrayArrives, Publisher!Tick, Publisher!rowVars

\* A member adds at most one row, for an order record of the log, and leaves
\* the log alone.
LEMMA MemberEffects ==
    ASSUME Consumer!ConsumerInv, NEW c \in Consumers, Consumer!MemberNext(c)
    PROVE  /\ log' = log
           /\ \/ stored' = stored
              \/ \E i \in 1..Len(log) :
                    log[i].kind = "order" /\ Consumer!AddUnlessSeen(log[i].event)
<1>1. ASSUME Consumer!At(c, "handle")
      PROVE  position[c] \in 1..Len(log) /\ Consumer!Record(c) = log[position[c]]
  <2>1. position[c] \in Consumer!Offsets
    BY <1>1 DEF Consumer!ConsumerInv, Consumer!MemberInv, Consumer!MemberOk, Consumer!At,
                Consumer!Busy
  <2>2. Consumer!Offsets = 1..Len(log)
    BY DEF Consumer!ConsumerInv, Consumer!TypeOK, Consumer!Offsets
  <2> QED
    BY <2>1, <2>2 DEF Consumer!Record
<1>2. CASE Consumer!Store(c)
  BY <1>1, <1>2 DEF Consumer!Store, Consumer!groupVars
<1>3. CASE Consumer!FailTransiently(c) \/ Consumer!FailUnexpectedly(c)
  BY <1>1, <1>3 DEF Consumer!FailTransiently, Consumer!FailUnexpectedly, Consumer!Halfway,
                    Consumer!groupVars, Consumer!results
<1>4. CASE Consumer!Skip(c) \/ Consumer!DeadLetter(c)
  BY <1>4 DEF Consumer!Skip, Consumer!DeadLetter, Consumer!groupVars, Consumer!results
<1>5. CASE \/ Consumer!Leave(c) \/ Consumer!PauseOverflows(c) \/ Consumer!GiveUpFails(c)
           \/ Consumer!CommitFails(c) \/ Consumer!Crash(c)
  BY <1>5 DEF Consumer!Leave, Consumer!PauseOverflows, Consumer!GiveUpFails,
              Consumer!CommitFails, Consumer!Crash, Consumer!Exit, Consumer!results
<1> QED
  BY <1>2, <1>3, <1>4, <1>5
     DEF Consumer!MemberNext, Consumer!Handle, Consumer!Assign, Consumer!Poll,
         Consumer!Attempt, Consumer!Pause, Consumer!Commit, Consumer!Terminate,
         Consumer!Restart, Consumer!groupVars, Consumer!results

\* A commit records its order; no other step of a call records one.
LEMMA ServiceEffects ==
    ASSUME Service!TransactionInv, Service!TransactionInv'
    PROVE  /\ \A r \in Requests : Commit(r) => orders' = orders \union {r}
           /\ Serve => orders' = orders
<1>1. outbox = orders /\ outbox' = orders'
  BY DEF Service!TransactionInv, Service!OrdersInv
<1> QED
  BY <1>1 DEF Commit, Serve, Service!Commit, Service!CommitUnacknowledged, Service!CommitAs

-----------------------------------------------------------------------------
(* The inductive invariant.                                                 *)

LEMMA PipelineInitInv == Init => PipelineInv
<1> SUFFICES ASSUME Init PROVE PipelineInv
  OBVIOUS
<1>1. Service!TransactionInv /\ Publisher!PublisherInv /\ Consumer!ConsumerInv
  BY PartsInit
<1>2. Consumer!NotifiedOnce /\ TopicInv
  BY DEF Init, Consumer!Init, Publisher!Init, Consumer!NotifiedOnce, TopicInv
<1>3. EventInv
  BY DEF Init, Service!Init, Consumer!Init, Publisher!Init, Publisher!NoSends, EventInv
<1> QED
  BY <1>1, <1>2, <1>3 DEF PipelineInv

\* A row that was absent comes with its order.
LEMMA CommitStep ==
    ASSUME PipelineInv, Service!TransactionInv', NEW r \in Requests, Commit(r)
    PROVE  Consumer!NotifiedOnce' /\ TopicInv' /\ EventInv'
<1>1. UNCHANGED <<log, stored, copies, stray, sent>> /\ status' = [status EXCEPT ![r] = "pending"]
  BY DEF Commit, Publisher!Insert, Publisher!workerVars, Publisher!topicVars, consumerVars
<1>2. orders' = orders \union {r}
  BY ServiceEffects DEF PipelineInv
<1>3. Consumer!NotifiedOnce' /\ TopicInv'
  BY <1>1 DEF PipelineInv, Consumer!NotifiedOnce, TopicInv, OrderRecord
<1>4. EventInv'
  <2>1. \A m \in Requests : status'[m] = IF m = r THEN "pending" ELSE status[m]
    BY <1>1 DEF PipelineInv, Publisher!PublisherInv, Publisher!TypeOK
  <2>2. orders \subseteq Requests
    BY DEF PipelineInv, Service!TransactionInv, Service!TypeOK
  <2> QED
    BY <1>1, <1>2, <2>1, <2>2 DEF PipelineInv, EventInv, OrderRecord
<1> QED
  BY <1>3, <1>4

\* What arrives was sent for an order that is recorded.
LEMMA ArriveStep ==
    ASSUME PipelineInv, NEW r \in Requests, Arrive(r)
    PROVE  Consumer!NotifiedOnce' /\ TopicInv' /\ EventInv'
<1>1. UNCHANGED <<body, orders, returned, stored>> /\ log' = Append(log, OrderRecord(r))
  BY DEF Arrive, Consumer!Produce, Consumer!results, serviceVars
<1>2. log \in Seq(Consumer!Records) /\ Len(log) \in Nat
  BY DEF PipelineInv, Consumer!ConsumerInv, Consumer!TypeOK
<1>3. /\ Len(log') = Len(log) + 1 /\ log'[Len(log) + 1] = OrderRecord(r)
      /\ \A i \in 1..Len(log) : log'[i] = log[i]
  BY <1>1, <1>2
<1>4. r \in orders
  <2>1. stray[r] > 0 \/ \E w \in Workers : sent[w][r] = "flying"
    BY DEF Arrive, Publisher!StrayArrives, Publisher!Append
  <2>2. r \notin orders => stray[r] = 0 /\ \A w \in Workers : sent[w][r] = "none"
    BY DEF PipelineInv, EventInv
  <2> QED
    BY <2>1, <2>2
<1>5. \A m \in Requests : m # r => copies'[m] = copies[m]
  <2>1. copies \in [Requests -> Nat]
    BY DEF PipelineInv, Publisher!PublisherInv, Publisher!TypeOK
  <2>2. copies' = copies \/ copies' = [copies EXCEPT ![r] = @ + 1]
    BY DEF Arrive, Publisher!StrayArrives, Publisher!Append
  <2> QED
    BY <2>1, <2>2
<1>6. Publisher!Publishing
  BY DEF Arrive, Publisher!Publishing, Publisher!WorkerNext
<1>7. Consumer!NotifiedOnce'
  BY <1>1 DEF PipelineInv, Consumer!NotifiedOnce
<1>8. TopicInv'
  <2> SUFFICES ASSUME NEW m \in Requests, copies'[m] > 0
               PROVE  \E i \in 1..Len(log') : log'[i] = OrderRecord(m)
    BY DEF TopicInv, OrderRecord
  <2>1. CASE m = r
    BY <1>2, <1>3, <2>1
  <2>2. CASE m # r
    BY <1>2, <1>3, <1>5, <2>2 DEF PipelineInv, TopicInv
  <2> QED
    BY <2>1, <2>2
<1>9. EventInv'
  <2>1. \A m \in Requests : m \notin orders =>
          status'[m] = "absent" /\ stray'[m] = 0 /\ \A w \in Workers : sent'[w][m] = "none"
    BY <1>6, AbsentStays DEF PipelineInv, EventInv
  <2>2. \A i \in 1..Len(log') : \E m \in orders : log'[i] = OrderRecord(m)
    BY <1>2, <1>3, <1>4 DEF PipelineInv, EventInv
  <2>3. \A m \in orders : status'[m] # "absent"
    BY <1>6, PresentStays DEF PipelineInv, EventInv, Service!TransactionInv, Service!TypeOK
  <2> QED
    BY <1>1, <2>1, <2>2, <2>3 DEF PipelineInv, EventInv, OrderRecord
<1> QED
  BY <1>7, <1>8, <1>9

\* The group notifies of what it has read, once.
LEMMA ConsumeStep ==
    ASSUME PipelineInv, NEW c \in Consumers, Consume(c)
    PROVE  Consumer!NotifiedOnce' /\ TopicInv' /\ EventInv'
<1>1. /\ UNCHANGED <<body, orders, returned, status, stray, sent, copies>>
      /\ stored \in [Requests -> Nat]
  BY DEF Consume, serviceVars, publisherVars, PipelineInv, Consumer!ConsumerInv, Consumer!TypeOK
<1>2. log' = log
  BY MemberEffects DEF Consume, PipelineInv
<1>3. TopicInv'
  BY <1>1, <1>2 DEF PipelineInv, TopicInv, OrderRecord
<1>4. \/ stored' = stored
      \/ \E m \in orders : stored' = [stored EXCEPT ![m] = IF stored[m] = 0 THEN 1 ELSE stored[m]]
  <2>1. ASSUME NEW i \in 1..Len(log), Consumer!AddUnlessSeen(log[i].event)
        PROVE  \E m \in orders :
                 stored' = [stored EXCEPT ![m] = IF stored[m] = 0 THEN 1 ELSE stored[m]]
    <3>1. PICK m \in orders : log[i] = OrderRecord(m)
      BY DEF PipelineInv, EventInv
    <3>2. log[i].event = m
      BY <3>1 DEF OrderRecord
    <3>3. stored' = [stored EXCEPT ![m] = IF stored[m] = 0 THEN 1 ELSE stored[m]]
      BY <2>1, <3>2 DEF Consumer!AddUnlessSeen
    <3> QED
      BY <3>3
  <2> QED
    BY <2>1, MemberEffects DEF Consume, PipelineInv
<1>5. Consumer!NotifiedOnce'
  BY <1>1, <1>4 DEF PipelineInv, Consumer!NotifiedOnce
<1>6. \A m \in Requests : m \notin orders => stored'[m] = stored[m]
  BY <1>1, <1>4
<1>7. EventInv'
  BY <1>1, <1>2, <1>6 DEF PipelineInv, EventInv, OrderRecord
<1> QED
  BY <1>3, <1>5, <1>7

LEMMA PipelineStepInv == PipelineInv /\ [Next]_vars => PipelineInv'
<1> SUFFICES ASSUME PipelineInv, [Next]_vars PROVE PipelineInv'
  OBVIOUS
<1>1. Service!TransactionInv' /\ Publisher!PublisherInv' /\ Consumer!ConsumerInv'
  BY ServiceStep, PublisherStep, ConsumerStep DEF PipelineInv
<1>2. CASE Serve
  <2>1. orders' = orders
    BY <1>1, <1>2, ServiceEffects DEF PipelineInv
  <2>2. UNCHANGED <<publisherVars, consumerVars>>
    BY <1>2 DEF Serve
  <2>3. Consumer!NotifiedOnce' /\ TopicInv' /\ EventInv'
    BY <2>1, <2>2 DEF PipelineInv, Consumer!NotifiedOnce, TopicInv, EventInv, OrderRecord,
                      publisherVars, consumerVars
  <2> QED
    BY <1>1, <2>1, <2>3 DEF PipelineInv
<1>3. CASE Publish
  <2>1. UNCHANGED <<body, orders, returned, log, stored, copies>>
    BY <1>3 DEF Publish, serviceVars, consumerVars
  <2>2. \A m \in Requests : m \notin orders =>
          status'[m] = "absent" /\ stray'[m] = 0 /\ \A w \in Workers : sent'[w][m] = "none"
    BY <1>3, AbsentStays DEF Publish, PipelineInv, EventInv
  <2>3. \A m \in orders : status'[m] # "absent"
    BY <1>3, PresentStays
       DEF Publish, PipelineInv, EventInv, Service!TransactionInv, Service!TypeOK
  <2>4. EventInv'
    BY <2>1, <2>2, <2>3 DEF PipelineInv, EventInv, OrderRecord
  <2>5. Consumer!NotifiedOnce' /\ TopicInv'
    BY <2>1 DEF PipelineInv, Consumer!NotifiedOnce, TopicInv, OrderRecord
  <2> QED
    BY <1>1, <2>4, <2>5 DEF PipelineInv
<1>4. CASE UNCHANGED vars
  <2>1. Consumer!NotifiedOnce' /\ TopicInv' /\ EventInv'
    BY <1>4 DEF PipelineInv, Consumer!NotifiedOnce, TopicInv, EventInv, OrderRecord,
                vars, serviceVars, publisherVars, consumerVars
  <2> QED
    BY <1>1, <2>1 DEF PipelineInv
<1> QED
  BY <1>1, <1>2, <1>3, <1>4, CommitStep, ArriveStep, ConsumeStep DEF Next, PipelineInv

-----------------------------------------------------------------------------
(* The theorems.                                                            *)

\* The parts keep their invariants within the whole, and the whole ties rows,
\* records and notifications to the orders recorded.
THEOREM PipelineInvariant == Spec => []PipelineInv
BY PipelineInitInv, PipelineStepInv, PTL DEF Spec

\* Put together, the parts behave as they do alone: what is proved of the
\* transactions, the workers or the group alone holds of the whole service.
THEOREM PartsAreKept == Spec => Service!Spec /\ Publisher!Spec /\ Consumer!Spec
<1>1. Init => Service!Init /\ Publisher!Init /\ Consumer!Init
  BY DEF Init
<1>2. [Next]_vars => [Service!Next]_(Service!vars)
  <2> SUFFICES ASSUME [Next]_vars PROVE Service!Next \/ UNCHANGED serviceVars
    BY DEF serviceVars, Service!vars
  <2>1. ASSUME NEW r \in Requests, Commit(r) PROVE Service!Next
    BY <2>1 DEF Commit, Service!Next, Service!Proceed
  <2> QED
    BY <2>1 DEF Next, Arrive, Serve, Publish, Consume, vars
<1>3. [Next]_vars => [Publisher!Next]_(Publisher!vars)
  <2> SUFFICES ASSUME [Next]_vars PROVE Publisher!Next \/ UNCHANGED publisherVars
    BY DEF publisherVars, Publisher!vars
  <2>1. ASSUME NEW m \in Requests, Commit(m) PROVE Publisher!Next
    BY <2>1 DEF Commit, Publisher!Next
  <2>2. ASSUME NEW m \in Requests, Arrive(m) PROVE Publisher!Next
    BY <2>2 DEF Arrive, Publisher!Next, Publisher!Publishing, Publisher!WorkerNext
  <2> QED
    BY <2>1, <2>2 DEF Next, Serve, Publish, Consume, Publisher!Next, vars
<1>4. [Next]_vars => [Consumer!Next]_(Consumer!vars)
  <2> SUFFICES ASSUME [Next]_vars PROVE Consumer!Next \/ UNCHANGED consumerVars
    BY DEF consumerVars, Consumer!vars
  <2>1. ASSUME NEW m \in Requests, Arrive(m) PROVE Consumer!Next
    <3>1. OrderRecord(m) \in Consumer!Records
      BY DEF OrderRecord, Consumer!Records
    <3> QED
      BY <2>1, <3>1 DEF Arrive, Consumer!Next
  <2>2. ASSUME NEW c \in Consumers, Consume(c) PROVE Consumer!Next
    BY <2>2 DEF Consume, Consumer!Next
  <2> QED
    BY <2>1, <2>2 DEF Next, Commit, Serve, Publish, vars
<1> QED
  BY <1>1, <1>2, <1>3, <1>4, PTL DEF Spec, Service!Spec, Publisher!Spec, Consumer!Spec

\* Whatever fails between the commit of an order and its notification, an event
\* marked published is notified, dead-lettered or still to be read.
THEOREM NoEventLost == Spec => []PublishedIsNotLost
<1>1. PipelineInv => PublishedIsNotLost
  <2> SUFFICES ASSUME PipelineInv, NEW o \in Requests, status[o] = "published"
               PROVE  \/ Notified(o) \/ DeadLettered(o)
                      \/ \E i \in committed..Len(log) : log[i] = OrderRecord(o)
    BY DEF PublishedIsNotLost
  <2>1. copies[o] > 0
    BY DEF PipelineInv, Publisher!PublisherInv, Publisher!OnTopic, Publisher!PublishedIsOnTopic
  <2>2. PICK i \in 1..Len(log) : log[i] = OrderRecord(o)
    BY <2>1 DEF PipelineInv, TopicInv
  <2>3. /\ Consumer!Offsets = 1..Len(log) /\ Len(log) \in Nat
        /\ committed \in Nat
    BY DEF PipelineInv, Consumer!ConsumerInv, Consumer!TypeOK, Consumer!Offsets
  <2>4. CASE i < committed
    <3>1. Consumer!Settled(i)
      BY <2>2, <2>3, <2>4 DEF PipelineInv, Consumer!ConsumerInv, Consumer!BelowSettled
    <3> QED
      BY <2>2, <3>1 DEF Consumer!Settled, OrderRecord, Notified, DeadLettered
  <2>5. CASE ~ (i < committed)
    BY <2>2, <2>3, <2>5
  <2> QED
    BY <2>4, <2>5
<1> QED
  BY <1>1, PipelineInvariant, PTL

\* A repeated call and a repeated event together still make one notification,
\* of the order the answers show.
THEOREM OneNotificationPerKey == Spec => []NotifiedOncePerKey
<1>1. PipelineInv => NotifiedOncePerKey
  <2> SUFFICES ASSUME PipelineInv, NEW o \in Requests, Notified(o)
               PROVE  /\ stored[o] = 1
                      /\ \A r \in Requests : body[o].key = body[r].key =>
                            (r # o => ~ Notified(r)) /\ returned[r] \subseteq {o}
    BY DEF NotifiedOncePerKey
  <2>1. stored[o] \in Nat /\ stored[o] <= 1
    BY DEF PipelineInv, Consumer!NotifiedOnce, Consumer!ConsumerInv, Consumer!TypeOK
  <2>2. \A r \in Requests : Notified(r) => r \in orders
    BY DEF PipelineInv, EventInv, Notified
  <2>3. \A q \in orders : body[o].key = body[q].key => q = o
    BY <2>2 DEF PipelineInv, Service!TransactionInv, Service!OrdersInv
  <2>4. \A r \in Requests : \A q \in returned[r] : q \in orders /\ body[q] = body[r]
    BY DEF PipelineInv, Service!TransactionInv, Service!OrdersInv
  <2> QED
    BY <2>1, <2>2, <2>3, <2>4 DEF Notified
<1> QED
  BY <1>1, PipelineInvariant, PTL

-----------------------------------------------------------------------------
(* The pipeline keeps what OrderDelivery says may happen.                   *)

\* A failed row stays failed.
LEMMA PublishingParks ==
    ASSUME PipelineInv, Publisher!Publishing, NEW o \in Requests, status[o] = "failed"
    PROVE  status'[o] = "failed"
<1>1. Publisher!TypeOK /\ Publisher!LockedArePending
  BY DEF PipelineInv, Publisher!PublisherInv
<1>2. ASSUME NEW w \in Workers, Publisher!Settle(w) PROVE status'[o] = "failed"
  <2>1. o \notin batch[w]
    BY <1>1, <1>2 DEF Publisher!Settle, Publisher!LockedArePending
  <2>2. o \notin Publisher!Acked(w)
    BY <2>1 DEF Publisher!Acked
  <2> QED
    BY <1>2, <2>2 DEF Publisher!Settle
<1> QED
  BY <1>2 DEF Publisher!Publishing, Publisher!WorkerNext, Publisher!Claim, Publisher!Append,
       Publisher!Acknowledge, Publisher!SendFails, Publisher!TimeOut, Publisher!LoseConnection,
       Publisher!CycleFails, Publisher!Crash, Publisher!Restart, Publisher!StrayArrives,
       Publisher!Tick, Publisher!rowVars

\* What is in the dead letter queue stays there, and no step of a member
\* stores a notification and parks a record at once.
LEMMA NotifyOrPark ==
    ASSUME NEW c \in Consumers, Consumer!MemberNext(c)
    PROVE  dlq \subseteq dlq' /\ (UNCHANGED stored \/ UNCHANGED dlq)
BY DEF Consumer!MemberNext, Consumer!Assign, Consumer!Poll, Consumer!Leave, Consumer!Attempt,
       Consumer!Handle, Consumer!Store, Consumer!Skip, Consumer!DeadLetter,
       Consumer!FailTransiently, Consumer!FailUnexpectedly, Consumer!Pause,
       Consumer!PauseOverflows, Consumer!GiveUpFails, Consumer!Commit, Consumer!CommitFails,
       Consumer!Crash, Consumer!Terminate, Consumer!Restart, Consumer!Exit, Consumer!Halfway,
       Consumer!results, Consumer!groupVars

\* Only orders are parked.
LEMMA ParkedArePlaced == PipelineInv => Parked \subseteq orders
<1> SUFFICES ASSUME PipelineInv, NEW o \in Parked PROVE o \in orders
  OBVIOUS
<1>1. CASE status[o] = "failed"
  BY <1>1 DEF Parked, PipelineInv, EventInv
<1>2. ASSUME NEW i \in dlq, log[i] = OrderRecord(o) PROVE o \in orders
  <2>1. i \in 1..Len(log)
    BY <1>2 DEF PipelineInv, Consumer!ConsumerInv, Consumer!TypeOK, Consumer!Offsets
  <2>2. PICK m \in orders : log[i] = OrderRecord(m)
    BY <2>1 DEF PipelineInv, EventInv
  <2> QED
    BY <1>2, <2>2 DEF OrderRecord
<1> QED
  BY <1>1, <1>2 DEF Parked, DeadLettered

\* A step that keeps log, queue and rows parks nothing.
LEMMA ParkedKept ==
    ASSUME UNCHANGED <<log, dlq>>,
           \A o \in Requests : status'[o] = "failed" <=> status[o] = "failed"
    PROVE  Parked' = Parked
BY DEF Parked, DeadLettered, OrderRecord

\* More is parked, nothing else happens.
LEMMA ParkStep ==
    ASSUME (Parked \subseteq orders)', Parked \subseteq Parked', UNCHANGED <<orders, stored>>
    PROVE  Delivery!DeliveryNext
<1>1. \E S \in SUBSET Requests : S \subseteq orders /\ Parked' = Parked \union S
  <2> DEFINE S == Parked' \ Parked
  <2>1. S \in SUBSET Requests /\ S \subseteq orders /\ Parked' = Parked \union S
    BY DEF Parked
  <2> QED
    BY <2>1
<1>2. PICK S \in SUBSET Requests : S \subseteq orders /\ Parked' = Parked \union S
  BY <1>1
<1>3. Delivery!Park(S)
  BY <1>2 DEF Delivery!Park, Parked
<1> QED
  BY <1>3 DEF Delivery!DeliveryNext

\* Every step is one that OrderDelivery allows, or none.
LEMMA DeliveryStep ==
    ASSUME PipelineInv, Service!TransactionInv', (Parked \subseteq orders)', [Next]_vars
    PROVE  [Delivery!DeliveryNext]_(Delivery!deliveryVars)
<1>1. status \in [Requests -> Publisher!Statuses]
  BY DEF PipelineInv, Publisher!PublisherInv, Publisher!TypeOK
<1>2. ASSUME UNCHANGED <<orders, stored>>, Parked' = Parked
      PROVE  UNCHANGED Delivery!deliveryVars
  BY <1>2 DEF Delivery!deliveryVars, Parked
<1>3. ASSUME NEW r \in Requests, orders' = orders \union {r}, UNCHANGED stored, Parked' = Parked
      PROVE  Delivery!DeliveryNext
  <2>1. Delivery!PlaceOrder(r)
    BY <1>3 DEF Delivery!PlaceOrder, Parked
  <2> QED
    BY <2>1 DEF Delivery!DeliveryNext
<1>4. ASSUME NEW r \in Requests, Commit(r) PROVE Delivery!DeliveryNext
  <2>1. orders' = orders \union {r} /\ UNCHANGED <<stored, log, dlq>>
    BY <1>4, ServiceEffects DEF Commit, PipelineInv, consumerVars
  <2>2. \A o \in Requests : status'[o] = "failed" <=> status[o] = "failed"
    BY <1>1, <1>4 DEF Commit, Publisher!Insert
  <2> QED
    BY <1>3, <2>1, <2>2, ParkedKept
<1>5. ASSUME NEW r \in Requests, Arrive(r) PROVE UNCHANGED Delivery!deliveryVars
  <2>1. UNCHANGED <<orders, stored, dlq>> /\ log' = Append(log, OrderRecord(r)) /\ status' = status
    BY <1>5 DEF Arrive, Consumer!Produce, Consumer!results, serviceVars, Publisher!StrayArrives,
                Publisher!Append, Publisher!rowVars
  <2>2. log \in Seq(Consumer!Records) /\ dlq \subseteq 1..Len(log)
    BY DEF PipelineInv, Consumer!ConsumerInv, Consumer!TypeOK, Consumer!Offsets
  <2>3. \A i \in dlq : log'[i] = log[i]
    BY <2>1, <2>2
  <2>4. Parked' = Parked
    BY <2>1, <2>3 DEF Parked, DeadLettered, OrderRecord
  <2> QED
    BY <1>2, <2>1, <2>4
<1>6. CASE Serve
  <2>1. UNCHANGED <<orders, stored, log, dlq, status>>
    BY <1>6, ServiceEffects DEF Serve, PipelineInv, publisherVars, consumerVars
  <2>2. Parked' = Parked
    BY <2>1, ParkedKept
  <2> QED
    BY <1>2, <2>1, <2>2
<1>7. CASE Publish
  <2>1. UNCHANGED <<orders, stored, log, dlq>>
    BY <1>7 DEF Publish, serviceVars, consumerVars
  <2>2. \A o \in Requests : status[o] = "failed" => status'[o] = "failed"
    BY <1>7, PublishingParks DEF Publish
  <2>3. Parked \subseteq Parked'
    BY <2>1, <2>2 DEF Parked, DeadLettered, OrderRecord
  <2> QED
    BY <2>1, <2>3, ParkStep
<1>8. ASSUME NEW c \in Consumers, Consume(c)
      PROVE  [Delivery!DeliveryNext]_(Delivery!deliveryVars)
  <2>1. UNCHANGED <<orders, status>> /\ Consumer!MemberNext(c)
    BY <1>8 DEF Consume, serviceVars, publisherVars
  <2>2. log' = log /\ dlq \subseteq dlq'
    BY <2>1, MemberEffects, NotifyOrPark DEF PipelineInv
  <2>3. CASE UNCHANGED stored
    <3>1. Parked \subseteq Parked'
      BY <2>1, <2>2 DEF Parked, DeadLettered, OrderRecord
    <3> QED
      BY <2>1, <2>3, <3>1, ParkStep
  <2>4. CASE stored' # stored
    <3>1. Parked' = Parked
      BY <2>1, <2>2, <2>4, NotifyOrPark, ParkedKept
    <3>2. PICK i \in 1..Len(log) : Consumer!AddUnlessSeen(log[i].event)
      BY <2>1, <2>4, MemberEffects DEF PipelineInv
    <3>3. PICK m \in orders : log[i] = OrderRecord(m)
      BY DEF PipelineInv, EventInv
    <3>4. log[i].event = m
      BY <3>3 DEF OrderRecord
    <3>5. stored' = [stored EXCEPT ![m] = IF stored[m] = 0 THEN 1 ELSE stored[m]]
      BY <3>2, <3>4 DEF Consumer!AddUnlessSeen
    <3>6. stored \in [Requests -> Nat] /\ m \in Requests
      BY DEF PipelineInv, Consumer!ConsumerInv, Consumer!TypeOK, Service!TransactionInv,
             Service!TypeOK
    <3>7. stored[m] = 0 /\ stored' = [stored EXCEPT ![m] = 1]
      BY <2>4, <3>5, <3>6
    <3>8. Delivery!Notify(m)
      BY <2>1, <3>1, <3>7 DEF Delivery!Notify, Parked
    <3> QED
      BY <3>6, <3>8 DEF Delivery!DeliveryNext
  <2> QED
    BY <2>3, <2>4
<1>9. CASE UNCHANGED vars
  <2>1. UNCHANGED <<orders, stored, log, dlq, status>>
    BY <1>9 DEF vars, serviceVars, publisherVars, consumerVars
  <2>2. Parked' = Parked
    BY <2>1, ParkedKept
  <2> QED
    BY <1>2, <2>1, <2>2
<1> QED
  BY <1>4, <1>5, <1>6, <1>7, <1>8, <1>9 DEF Next

\* The pipeline implements the safety part of OrderDelivery: what it does to
\* an order is placing, notifying once and parking, in an order that is allowed.
THEOREM DeliveryIsSafe == Spec => Delivery!DeliverySafety
<1>1. Init => Delivery!DeliveryInit
  <2> SUFFICES ASSUME Init PROVE Delivery!DeliveryInit
    OBVIOUS
  <2>1. /\ orders = {} /\ dlq = {} /\ stored = [o \in Requests |-> 0]
        /\ \A o \in Requests : status[o] # "failed"
    BY DEF Init, Service!Init, Publisher!Init, Consumer!Init
  <2> QED
    BY <2>1 DEF Delivery!DeliveryInit, Parked, DeadLettered
<1>2. PipelineInv /\ PipelineInv' /\ (Parked \subseteq orders)' /\ [Next]_vars
        => [Delivery!DeliveryNext]_(Delivery!deliveryVars)
  BY DeliveryStep DEF PipelineInv
<1> QED
  BY <1>1, <1>2, ParkedArePlaced, PipelineInvariant, PTL DEF Spec, Delivery!DeliverySafety

=============================================================================
