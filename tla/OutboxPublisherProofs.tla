----------------------- MODULE OutboxPublisherProofs -----------------------
(* Theorems about OutboxPublisher, for any rows, workers and settings.      *)
EXTENDS OutboxPublisher, FiniteSetTheorems, TLAPS

-----------------------------------------------------------------------------
(* What the actions share.                                                  *)

\* A claimed batch is made of pending rows no live transaction holds.
LEMMA ClaimFacts ==
    /\ First(Claimable) \subseteq Rows
    /\ \A m \in First(Claimable) : status[m] = "pending" /\ m \notin Locked
BY DEF First, Claimable

\* A pending row has attempts left.
LEMMA PendingHasAttempts ==
    ASSUME TypeOK, AttemptsInv, NEW m \in Rows, status[m] # "failed"
    PROVE  attempts[m] \in Nat /\ attempts[m] + 1 \in 0..MaxAttempts
<1>1. attempts[m] \in 0..MaxAttempts /\ MaxAttempts \in Nat
  BY PublisherAssumption DEF TypeOK
<1>2. attempts[m] # MaxAttempts
  BY DEF AttemptsInv, FailedIsExhausted
<1> QED
  BY <1>1, <1>2

\* Releasing a worker leaves well-typed worker variables, and a worker that
\* holds nothing.
LEMMA ReleaseFacts ==
    ASSUME TypeOK, WorkerInv, NEW w \in Workers, NEW next \in {"idle", "down"},
           Release(w, next)
    PROVE  /\ pc' \in [Workers -> {"idle", "sending", "down"}]
           /\ batch' \in [Workers -> SUBSET Rows]
           /\ connected' \in [Workers -> BOOLEAN]
           /\ elapsed' \in [Workers -> 0..BackoffCap]
           /\ sent' \in [Workers -> [Rows -> SendStates]]
           /\ WorkerInv'
           /\ batch'[w] = {} /\ connected'[w] = FALSE
           /\ \A m \in Rows : sent'[w][m] = "none"
           /\ \A v \in Workers \ {w} : /\ batch'[v] = batch[v] /\ sent'[v] = sent[v]
                                       /\ connected'[v] = connected[v]
<1>1. NoSends \in [Rows -> SendStates]
  BY DEF NoSends, SendStates
<1>2. /\ pc' \in [Workers -> {"idle", "sending", "down"}]
      /\ batch' \in [Workers -> SUBSET Rows]
      /\ elapsed' \in [Workers -> 0..BackoffCap]
      /\ sent' \in [Workers -> [Rows -> SendStates]]
  BY <1>1, PublisherAssumption DEF Release, TypeOK
<1>3. connected' \in [Workers -> BOOLEAN] /\ connected'[w] = FALSE
  BY DEF Release, TypeOK
<1>4. batch'[w] = {} /\ sent'[w] = NoSends /\ pc'[w] = next
  BY DEF Release, TypeOK
<1>5. \A v \in Workers \ {w} : /\ batch'[v] = batch[v] /\ sent'[v] = sent[v] /\ pc'[v] = pc[v]
                               /\ connected'[v] = connected[v]
  BY DEF Release, TypeOK
<1>6. \A m \in Rows : sent'[w][m] = "none"
  BY <1>4 DEF NoSends
<1>7. WorkerInv'
  BY <1>3, <1>4, <1>5, <1>6 DEF WorkerInv
<1> QED
  BY <1>2, <1>3, <1>4, <1>5, <1>6, <1>7

\* Strays change, copies do not.
LEMMA GiveUpFacts ==
    ASSUME TypeOK, NEW S, GiveUpOn(S)
    PROVE  stray' \in [Rows -> Nat] /\ copies' = copies
BY DEF GiveUpOn, TypeOK

-----------------------------------------------------------------------------
(* The inductive invariant.                                                 *)

\* Nothing is claimed, sent or published at the start.
LEMMA InitInv == Init => PublisherInv
<1> SUFFICES ASSUME Init PROVE PublisherInv
  OBVIOUS
<1>1. TypeOK
  BY PublisherAssumption DEF Init, TypeOK, NoSends, SendStates, Statuses
<1>2. WorkerInv /\ ClaimsAreExclusive /\ LockedArePending
  BY DEF Init, WorkerInv, ClaimsAreExclusive, LockedArePending, NoSends
<1>3. OnTopic /\ AttemptsInv
  BY PublisherAssumption
     DEF Init, OnTopic, PublishedIsOnTopic, AttemptsInv, FailedIsExhausted, NoSends
<1> QED
  BY <1>1, <1>2, <1>3 DEF PublisherInv

\* Rows untouched, one worker back to idle or down: the rest stands.
LEMMA DropInv ==
    ASSUME PublisherInv, NEW w \in Workers, NEW next \in {"idle", "down"},
           Release(w, next), UNCHANGED rowVars, copies' = copies,
           stray' \in [Rows -> Nat], losses' \in 0..MaxLosses
    PROVE  PublisherInv'
<1> USE DEF PublisherInv
<1>1. TypeOK'
  BY ReleaseFacts DEF TypeOK, rowVars
<1>2. /\ WorkerInv' /\ connected'[w] = FALSE /\ \A m \in Rows : sent'[w][m] = "none"
      /\ \A v \in Workers \ {w} : /\ batch'[v] = batch[v] /\ sent'[v] = sent[v]
                                  /\ connected'[v] = connected[v]
  BY ReleaseFacts
<1>3. ClaimsAreExclusive'
  BY <1>2 DEF ClaimsAreExclusive
<1>4. LockedArePending'
  BY <1>2 DEF LockedArePending, rowVars
<1>5. OnTopic'
  BY <1>2 DEF OnTopic, PublishedIsOnTopic, rowVars
<1>6. AttemptsInv'
  BY DEF AttemptsInv, FailedIsExhausted, rowVars
<1> QED
  BY <1>1, <1>2, <1>3, <1>4, <1>5, <1>6

\* A claim takes rows that are pending and free.
LEMMA ClaimInv ==
    ASSUME PublisherInv, NEW w \in Workers, Claim(w)
    PROVE  PublisherInv'
<1> USE DEF PublisherInv
<1>1. TypeOK'
  BY ClaimFacts, PublisherAssumption DEF TypeOK, Claim, rowVars, topicVars, SendStates
<1>2. /\ pc'[w] = "sending" /\ batch'[w] = First(Claimable) /\ connected'[w]
      /\ \A m \in Rows : sent'[w][m] = IF m \in First(Claimable) THEN "flying" ELSE "none"
  BY DEF Claim, TypeOK
<1>3. \A v \in Workers \ {w} : /\ pc'[v] = pc[v] /\ batch'[v] = batch[v] /\ sent'[v] = sent[v]
                               /\ connected'[v] = connected[v]
  BY DEF Claim, TypeOK
<1>4. WorkerInv'
  BY <1>2, <1>3 DEF WorkerInv
<1>5. ClaimsAreExclusive'
  <2>1. \A v \in Workers \ {w} : connected[v] => batch[v] \intersect First(Claimable) = {}
    BY ClaimFacts DEF Locked
  <2> QED
    BY <1>2, <1>3, <2>1 DEF ClaimsAreExclusive
<1>6. LockedArePending'
  BY <1>2, <1>3, ClaimFacts DEF LockedArePending, Claim, rowVars
<1>7. OnTopic' /\ AttemptsInv'
  BY <1>2, <1>3 DEF OnTopic, PublishedIsOnTopic, AttemptsInv, FailedIsExhausted, Claim,
                    rowVars, topicVars
<1> QED
  BY <1>1, <1>4, <1>5, <1>6, <1>7

\* A send that changes state stays a send of its batch, and "acked" comes
\* only after "appended".
LEMMA SendInv ==
    ASSUME PublisherInv, NEW w \in Workers,
           NEW S \in [Rows -> SendStates],
           sent' = [sent EXCEPT ![w] = S],
           \A m \in Rows : S[m] = "none" <=> sent[w][m] = "none",
           \A m \in Rows : S[m] \in {"appended", "acked"} => copies'[m] > 0,
           \A m \in Rows : copies'[m] >= copies[m],
           copies' \in [Rows -> Nat], stray' \in [Rows -> Nat],
           UNCHANGED <<pc, batch, connected, elapsed, losses>>, UNCHANGED rowVars
    PROVE  PublisherInv'
<1> USE DEF PublisherInv
<1>1. TypeOK'
  BY DEF TypeOK, rowVars
<1>2. sent'[w] = S /\ \A v \in Workers \ {w} : sent'[v] = sent[v]
  BY DEF TypeOK
<1>3. WorkerInv'
  BY <1>2 DEF WorkerInv
<1>4. ClaimsAreExclusive' /\ LockedArePending' /\ AttemptsInv'
  BY DEF ClaimsAreExclusive, LockedArePending, AttemptsInv, FailedIsExhausted, rowVars
<1>5. OnTopic'
  <2>1. \A m \in Rows : copies[m] > 0 => copies'[m] > 0
    BY DEF TypeOK
  <2> QED
    BY <1>2, <2>1 DEF OnTopic, PublishedIsOnTopic, rowVars
<1> QED
  BY <1>1, <1>3, <1>4, <1>5

\* No delay is longer than the cap.
LEMMA DelayIsCapped ==
    ASSUME NEW attempt \in Nat, attempt - 1 \in Nat, NEW delay \in Delays(attempt)
    PROVE  delay \in 1..BackoffCap
BY PublisherAssumption DEF Delays, Ceiling

\* What a commit does to the rows: it settles its own batch and no other row.
LEMMA SettleFacts ==
    ASSUME PublisherInv, NEW w \in Workers, Settle(w)
    PROVE  /\ \A m \in Rows \ batch[w] : /\ status'[m] = status[m] /\ attempts'[m] = attempts[m]
                                         /\ due'[m] = due[m]
           /\ \A m \in batch[w] :
                /\ status[m] = "pending" /\ attempts[m] + 1 \in 0..MaxAttempts
                /\ \/ /\ sent[w][m] = "acked"
                      /\ status'[m] = "published" /\ attempts'[m] = attempts[m]
                   \/ /\ sent[w][m] = "failed" /\ attempts[m] + 1 >= MaxAttempts
                      /\ status'[m] = "failed" /\ attempts'[m] = attempts[m] + 1
                   \/ /\ sent[w][m] = "failed" /\ ~ (attempts[m] + 1 >= MaxAttempts)
                      /\ status'[m] = "pending" /\ attempts'[m] = attempts[m] + 1
           /\ status' \in [Rows -> Statuses]
           /\ attempts' \in [Rows -> 0..MaxAttempts]
           /\ due' \in [Rows -> 0..BackoffCap]
<1> USE DEF PublisherInv
<1>1. batch[w] \subseteq Rows /\ Acked(w) \subseteq batch[w] /\ Refused(w) \subseteq batch[w]
      /\ Exhausted(w) \subseteq Refused(w)
  BY DEF TypeOK, Acked, Refused, Exhausted
<1>2. \A m \in batch[w] : status[m] = "pending" /\ attempts[m] + 1 \in 0..MaxAttempts
  BY <1>1, PendingHasAttempts DEF Settle, LockedArePending
<1>3. \A m \in Rows : status'[m] = IF m \in Acked(w) THEN "published"
                                   ELSE IF m \in Exhausted(w) THEN "failed" ELSE status[m]
  BY DEF Settle
<1>4. \A m \in Rows :
        attempts'[m] = IF m \in Refused(w) THEN attempts[m] + 1 ELSE attempts[m]
  BY DEF Settle
<1>5. PICK delay :
        /\ \A m \in Retried(w) : delay[m] \in Delays(attempts'[m])
        /\ due' = [m \in Rows |-> IF m \in Retried(w) THEN TimeLeft(w, delay[m]) ELSE due[m]]
  BY DEF Settle
<1>6. \A m \in Rows \ batch[w] : /\ status'[m] = status[m] /\ attempts'[m] = attempts[m]
                                 /\ due'[m] = due[m]
  BY <1>1, <1>3, <1>4, <1>5 DEF Retried
<1>7. ASSUME NEW m \in batch[w]
      PROVE  \/ /\ sent[w][m] = "acked"
                /\ status'[m] = "published" /\ attempts'[m] = attempts[m]
             \/ /\ sent[w][m] = "failed" /\ attempts[m] + 1 >= MaxAttempts
                /\ status'[m] = "failed" /\ attempts'[m] = attempts[m] + 1
             \/ /\ sent[w][m] = "failed" /\ ~ (attempts[m] + 1 >= MaxAttempts)
                /\ status'[m] = "pending" /\ attempts'[m] = attempts[m] + 1
  <2>1. CASE sent[w][m] = "acked"
    BY <1>1, <1>3, <1>4, <2>1 DEF Acked, Refused
  <2>2. CASE sent[w][m] = "failed"
    BY <1>1, <1>2, <1>3, <1>4, <2>2 DEF Acked, Refused, Exhausted
  <2> QED
    BY <2>1, <2>2 DEF Settle, Resolved
<1>8. status' \in [Rows -> Statuses]
  BY <1>3 DEF Settle, TypeOK, Statuses
<1>9. attempts' \in [Rows -> 0..MaxAttempts]
  <2>1. \A m \in Rows : attempts'[m] \in 0..MaxAttempts
    BY <1>1, <1>2, <1>4 DEF TypeOK
  <2> QED
    BY <2>1 DEF Settle
<1>10. due' \in [Rows -> 0..BackoffCap]
  <2>1. \A d \in 1..BackoffCap : TimeLeft(w, d) \in 0..BackoffCap
    BY PublisherAssumption DEF TimeLeft, TypeOK
  <2>2. \A m \in Retried(w) : attempts'[m] \in Nat /\ attempts'[m] - 1 \in Nat
    BY <1>1, <1>4 DEF Retried, TypeOK
  <2>3. \A m \in Retried(w) : delay[m] \in 1..BackoffCap
    BY <1>5, <2>2, DelayIsCapped
  <2> QED
    BY <1>5, <2>1, <2>3 DEF TypeOK
<1> QED
  BY <1>2, <1>6, <1>7, <1>8, <1>9, <1>10

\* A commit settles rows nobody else holds.
LEMMA SettleInv ==
    ASSUME PublisherInv, NEW w \in Workers, Settle(w)
    PROVE  PublisherInv'
<1> USE DEF PublisherInv
<1>1. Release(w, "idle") /\ connected[w]
  BY DEF Settle
<1>2. TypeOK'
  BY <1>1, ReleaseFacts, SettleFacts DEF TypeOK, Settle, topicVars
<1>3. WorkerInv' /\ ClaimsAreExclusive'
  BY <1>1, ReleaseFacts DEF ClaimsAreExclusive
<1>4. LockedArePending'
  <2> SUFFICES ASSUME NEW v \in Workers, connected'[v], NEW m \in batch'[v]
               PROVE  status'[m] = "pending"
    BY DEF LockedArePending
  <2>1. v # w /\ connected[v] /\ m \in batch[v]
    BY <1>1, ReleaseFacts
  <2>2. m \in Rows \ batch[w]
    BY <1>1, <2>1 DEF ClaimsAreExclusive, TypeOK
  <2> QED
    BY <2>1, <2>2, SettleFacts DEF LockedArePending
<1>5. OnTopic'
  <2>1. \A m \in Rows : status'[m] = "published" => copies[m] > 0
    BY SettleFacts DEF OnTopic, PublishedIsOnTopic
  <2> QED
    BY <1>1, <2>1, ReleaseFacts DEF OnTopic, PublishedIsOnTopic, Settle, topicVars
<1>6. AttemptsInv'
  <2> SUFFICES ASSUME NEW m \in Rows
               PROVE  /\ status'[m] = "failed" <=> attempts'[m] = MaxAttempts
                      /\ status'[m] = "absent" => attempts'[m] = 0
    BY DEF AttemptsInv, FailedIsExhausted
  <2>1. CASE m \in batch[w]
    <3>1. attempts[m] \in Nat /\ attempts[m] # MaxAttempts /\ MaxAttempts \in Nat
      BY <2>1, SettleFacts, PublisherAssumption DEF AttemptsInv, FailedIsExhausted, TypeOK
    <3> QED
      BY <2>1, <3>1, SettleFacts
  <2>2. CASE m \notin batch[w]
    BY <2>2, SettleFacts DEF AttemptsInv, FailedIsExhausted
  <2> QED
    BY <2>1, <2>2
<1> QED
  BY <1>2, <1>3, <1>4, <1>5, <1>6

\* Steps that leave rows, claims and sends alone keep the invariant.
LEMMA QuietInv ==
    ASSUME PublisherInv, TypeOK',
           UNCHANGED <<status, attempts, pc, batch, sent>>,
           \A w \in Workers : connected'[w] => connected[w],
           \A m \in Rows : copies[m] > 0 => copies'[m] > 0
    PROVE  PublisherInv'
<1> USE DEF PublisherInv
<1>1. WorkerInv' /\ ClaimsAreExclusive' /\ LockedArePending'
  BY DEF WorkerInv, ClaimsAreExclusive, LockedArePending
<1>2. OnTopic' /\ AttemptsInv'
  BY DEF OnTopic, PublishedIsOnTopic, AttemptsInv, FailedIsExhausted
<1> QED
  BY <1>1, <1>2

\* The order's row appears.
LEMMA InsertInv ==
    ASSUME PublisherInv, NEW m \in Rows, Insert(m)
    PROVE  PublisherInv'
<1> USE DEF PublisherInv
<1>1. TypeOK' /\ WorkerInv' /\ ClaimsAreExclusive'
  BY DEF Insert, TypeOK, WorkerInv, ClaimsAreExclusive, Statuses, workerVars, topicVars
<1>2. LockedArePending' /\ OnTopic'
  BY DEF Insert, TypeOK, LockedArePending, OnTopic, PublishedIsOnTopic, workerVars, topicVars
<1>3. AttemptsInv'
  <2>1. attempts[m] = 0 /\ 0 # MaxAttempts
    BY PublisherAssumption DEF Insert, AttemptsInv
  <2> QED
    BY <2>1 DEF Insert, TypeOK, AttemptsInv, FailedIsExhausted
<1> QED
  BY <1>1, <1>2, <1>3

\* The steps of one send.
LEMMA SendStepInv ==
    ASSUME PublisherInv, NEW w \in Workers, NEW m \in Rows,
           Append(w, m) \/ Acknowledge(w, m) \/ SendFails(w, m)
    PROVE  PublisherInv'
<1>1. TypeOK /\ OnTopic /\ WorkerInv
  BY DEF PublisherInv
<1>2. CASE Append(w, m)
  <2> DEFINE S == [sent[w] EXCEPT ![m] = "appended"]
  <2>1. S \in [Rows -> SendStates] /\ sent' = [sent EXCEPT ![w] = S]
    BY <1>1, <1>2 DEF Append, TypeOK, SendStates
  <2>2. copies' \in [Rows -> Nat] /\ copies'[m] = copies[m] + 1
        /\ \A k \in Rows \ {m} : copies'[k] = copies[k]
    BY <1>1, <1>2 DEF Append, TypeOK
  <2>3. \A k \in Rows : copies[k] \in Nat
    BY <1>1 DEF TypeOK
  <2>4. \A k \in Rows : copies'[k] >= copies[k]
    BY <2>2, <2>3
  <2>5. \A k \in Rows : S[k] = "none" <=> sent[w][k] = "none"
    BY <1>1, <1>2 DEF Append, TypeOK
  <2>6. \A k \in Rows : S[k] \in {"appended", "acked"} => copies'[k] > 0
    BY <1>1, <2>2, <2>3 DEF OnTopic, TypeOK
  <2>7. stray' \in [Rows -> Nat] /\ UNCHANGED <<pc, batch, connected, elapsed, losses>>
        /\ UNCHANGED rowVars
    BY <1>1, <1>2 DEF Append, TypeOK
  <2> HIDE DEF S
  <2> QED
    BY <2>1, <2>2, <2>4, <2>5, <2>6, <2>7, SendInv
<1>3. CASE Acknowledge(w, m)
  <2> DEFINE S == [sent[w] EXCEPT ![m] = "acked"]
  <2>1. S \in [Rows -> SendStates] /\ sent' = [sent EXCEPT ![w] = S]
    BY <1>1, <1>3 DEF Acknowledge, TypeOK, SendStates
  <2>2. copies' = copies /\ stray' = stray
        /\ UNCHANGED <<pc, batch, connected, elapsed, losses>> /\ UNCHANGED rowVars
    BY <1>3 DEF Acknowledge, topicVars
  <2>3. copies' \in [Rows -> Nat] /\ stray' \in [Rows -> Nat]
        /\ \A k \in Rows : copies'[k] >= copies[k]
    BY <1>1, <2>2 DEF TypeOK
  <2>4. \A k \in Rows : S[k] = "none" <=> sent[w][k] = "none"
    BY <1>1, <1>3 DEF Acknowledge, TypeOK
  <2>5. \A k \in Rows : S[k] \in {"appended", "acked"} => copies'[k] > 0
    BY <1>1, <1>3, <2>2 DEF Acknowledge, OnTopic, TypeOK
  <2> HIDE DEF S
  <2> QED
    BY <2>1, <2>2, <2>3, <2>4, <2>5, SendInv
<1>4. CASE SendFails(w, m)
  <2> DEFINE S == [sent[w] EXCEPT ![m] = "failed"]
  <2>1. S \in [Rows -> SendStates] /\ sent' = [sent EXCEPT ![w] = S]
    BY <1>1, <1>4 DEF SendFails, TypeOK, SendStates
  <2>2. copies' = copies /\ stray' \in [Rows -> Nat]
        /\ UNCHANGED <<pc, batch, connected, elapsed, losses>> /\ UNCHANGED rowVars
    BY <1>1, <1>4, GiveUpFacts DEF SendFails
  <2>3. copies' \in [Rows -> Nat] /\ \A k \in Rows : copies'[k] >= copies[k]
    BY <1>1, <2>2 DEF TypeOK
  <2>4. \A k \in Rows : S[k] = "none" <=> sent[w][k] = "none"
    BY <1>1, <1>4 DEF SendFails, TypeOK
  <2>5. \A k \in Rows : S[k] \in {"appended", "acked"} => copies'[k] > 0
    BY <1>1, <2>2 DEF OnTopic, TypeOK
  <2> HIDE DEF S
  <2> QED
    BY <2>1, <2>2, <2>3, <2>4, <2>5, SendInv
<1> QED
  BY <1>2, <1>3, <1>4

\* A timeout fails every send of the batch and forgets none.
LEMMA TimeOutInv ==
    ASSUME PublisherInv, NEW w \in Workers, TimeOut(w)
    PROVE  PublisherInv'
<1>1. TypeOK /\ WorkerInv
  BY DEF PublisherInv
<1> DEFINE S == [m \in Rows |-> IF m \in batch[w] THEN "failed" ELSE "none"]
<1>2. S \in [Rows -> SendStates] /\ sent' = [sent EXCEPT ![w] = S]
  BY DEF TimeOut, SendStates
<1>3. copies' = copies /\ stray' \in [Rows -> Nat]
      /\ UNCHANGED <<pc, batch, connected, elapsed, losses>> /\ UNCHANGED rowVars
  BY <1>1, GiveUpFacts DEF TimeOut
<1>4. copies' \in [Rows -> Nat] /\ \A k \in Rows : copies'[k] >= copies[k]
  BY <1>1, <1>3 DEF TypeOK
<1>5. \A k \in Rows : S[k] = "none" <=> sent[w][k] = "none"
  BY <1>1 DEF WorkerInv
<1>6. \A k \in Rows : S[k] \in {"appended", "acked"} => copies'[k] > 0
  OBVIOUS
<1> HIDE DEF S
<1> QED
  BY <1>2, <1>3, <1>4, <1>5, <1>6, SendInv

\* Every step keeps the invariant.
LEMMA StepInv == PublisherInv /\ [Next]_vars => PublisherInv'
<1> SUFFICES ASSUME PublisherInv, [Next]_vars PROVE PublisherInv'
  OBVIOUS
<1>0. TypeOK /\ WorkerInv
  BY DEF PublisherInv
<1>1. ASSUME NEW m \in Rows, Insert(m) PROVE PublisherInv'
  BY <1>1, InsertInv
<1>2. ASSUME NEW m \in Rows, StrayArrives(m) PROVE PublisherInv'
  <2>0. copies' = copies \/ copies' = [copies EXCEPT ![m] = @ + 1]
    BY <1>2 DEF StrayArrives
  <2>1. copies' \in [Rows -> Nat] /\ \A k \in Rows : copies[k] > 0 => copies'[k] > 0
    <3>1. \A k \in Rows : copies[k] \in Nat
      BY <1>0 DEF TypeOK
    <3>2. copies \in [Rows -> Nat]
      BY <1>0 DEF TypeOK
    <3>3. CASE copies' = copies
      BY <3>2, <3>3
    <3>4. CASE copies' = [copies EXCEPT ![m] = @ + 1]
      <4>1. copies' \in [Rows -> Nat]
        BY <3>2, <3>4
      <4>2. \A k \in Rows : copies'[k] = copies[k] \/ copies'[k] = copies[k] + 1
        BY <3>2, <3>4
      <4> QED
        BY <3>1, <4>1, <4>2
    <3> QED
      BY <2>0, <3>3, <3>4
  <2>2. stray' \in [Rows -> Nat]
    BY <1>0, <1>2 DEF StrayArrives, TypeOK
  <2>3. UNCHANGED <<status, attempts, due, pc, batch, connected, elapsed, sent, losses>>
    BY <1>2 DEF StrayArrives, rowVars, workerVars
  <2>4. TypeOK'
    BY <1>0, <2>1, <2>2, <2>3 DEF TypeOK
  <2> QED
    BY <2>1, <2>3, <2>4, QuietInv
<1>3. ASSUME NEW w \in Workers, Claim(w) PROVE PublisherInv'
  BY <1>3, ClaimInv
<1>4. ASSUME NEW w \in Workers, NEW m \in Rows,
             Append(w, m) \/ Acknowledge(w, m) \/ SendFails(w, m)
      PROVE  PublisherInv'
  BY <1>4, SendStepInv
<1>5. ASSUME NEW w \in Workers, TimeOut(w) PROVE PublisherInv'
  BY <1>5, TimeOutInv
<1>6. ASSUME NEW w \in Workers, Settle(w) PROVE PublisherInv'
  BY <1>6, SettleInv
<1>7. ASSUME NEW w \in Workers, LoseConnection(w) PROVE PublisherInv'
  <2>1. UNCHANGED <<status, attempts, due, pc, batch, elapsed, sent, copies, stray>>
    BY <1>7 DEF LoseConnection, rowVars, topicVars
  <2>2. connected' \in [Workers -> BOOLEAN] /\ \A v \in Workers : connected'[v] => connected[v]
    BY <1>0, <1>7 DEF LoseConnection, TypeOK
  <2>3. losses' \in 0..MaxLosses
    BY <1>0, <1>7, PublisherAssumption DEF LoseConnection, TypeOK
  <2>4. TypeOK'
    BY <1>0, <2>1, <2>2, <2>3 DEF TypeOK
  <2> QED
    BY <2>1, <2>2, <2>4, QuietInv
<1>8. ASSUME NEW w \in Workers, CycleFails(w) PROVE PublisherInv'
  <2>1. losses' \in 0..MaxLosses
    BY <1>0, <1>8, PublisherAssumption DEF CycleFails, TypeOK
  <2>2. copies' = copies /\ stray' \in [Rows -> Nat]
    BY <1>0, <1>8 DEF CycleFails, topicVars, TypeOK
  <2> QED
    BY <1>8, <2>1, <2>2, DropInv DEF CycleFails
<1>9. ASSUME NEW w \in Workers, Crash(w) PROVE PublisherInv'
  <2>1. losses' \in 0..MaxLosses
    BY <1>0, <1>9, PublisherAssumption DEF Crash, TypeOK
  <2>2. copies' = copies /\ stray' \in [Rows -> Nat]
    BY <1>0, <1>9, GiveUpFacts DEF Crash
  <2> QED
    BY <1>9, <2>1, <2>2, DropInv DEF Crash
<1>10. ASSUME NEW w \in Workers, Restart(w) PROVE PublisherInv'
  <2>1. TypeOK'
    BY <1>0, <1>10 DEF Restart, TypeOK, rowVars, topicVars
  <2>2. WorkerInv'
    BY <1>0, <1>10 DEF Restart, TypeOK, WorkerInv
  <2>3. ClaimsAreExclusive' /\ LockedArePending' /\ OnTopic' /\ AttemptsInv'
    BY <1>10 DEF Restart, PublisherInv, ClaimsAreExclusive, LockedArePending, OnTopic,
                 PublishedIsOnTopic, AttemptsInv, FailedIsExhausted, rowVars, topicVars
  <2> QED
    BY <2>1, <2>2, <2>3 DEF PublisherInv
<1>11. CASE Tick
  <2>1. UNCHANGED <<status, attempts, pc, batch, connected, sent, losses, copies, stray>>
    BY <1>11 DEF Tick, topicVars
  <2>2. due' \in [Rows -> 0..BackoffCap] /\ elapsed' \in [Workers -> 0..BackoffCap]
    BY <1>0, <1>11, PublisherAssumption DEF Tick, TypeOK
  <2>3. TypeOK'
    BY <1>0, <2>1, <2>2 DEF TypeOK
  <2> QED
    BY <2>1, <2>3, QuietInv
<1>12. CASE UNCHANGED vars
  <2>1. TypeOK'
    BY <1>0, <1>12 DEF vars, TypeOK
  <2> QED
    BY <1>12, <2>1, QuietInv DEF vars
<1> QED
  BY <1>1, <1>2, <1>3, <1>4, <1>5, <1>6, <1>7, <1>8, <1>9, <1>10, <1>11, <1>12
     DEF Next, Publishing, WorkerNext

-----------------------------------------------------------------------------
(* The account of a row's copies.                                           *)

\* Only worker w touches its sends: the number of sends of m on their way
\* moves with w's.
LEMMA InFlightFacts ==
    ASSUME NEW m \in Rows, NEW w \in Workers,
           \A v \in Workers \ {w} : sent'[v][m] = sent[v][m]
    PROVE  /\ InFlight(m) \in Nat /\ InFlight(m)' \in Nat
           /\ (sent'[w][m] = "flying") = (sent[w][m] = "flying") => InFlight(m)' = InFlight(m)
           /\ sent[w][m] = "flying" /\ sent'[w][m] # "flying" => InFlight(m)' = InFlight(m) - 1
           /\ sent[w][m] # "flying" /\ sent'[w][m] = "flying" => InFlight(m)' = InFlight(m) + 1
<1> DEFINE F == {v \in Workers : sent[v][m] = "flying"}
           G == {v \in Workers : sent'[v][m] = "flying"}
<1>1. IsFiniteSet(F) /\ IsFiniteSet(G)
  BY PublisherAssumption, FS_Subset
<1>2. Cardinality(F) \in Nat /\ Cardinality(G) \in Nat
  BY <1>1, FS_CardinalityType
<1>3. (sent'[w][m] = "flying") = (sent[w][m] = "flying") => G = F
  OBVIOUS
<1>4. ASSUME sent[w][m] = "flying", sent'[w][m] # "flying" PROVE Cardinality(G) = Cardinality(F) - 1
  <2>1. G = F \ {w} /\ w \in F
    BY <1>4
  <2> HIDE DEF F, G
  <2> QED
    BY <1>1, <2>1, FS_RemoveElement
<1>5. ASSUME sent[w][m] # "flying", sent'[w][m] = "flying" PROVE Cardinality(G) = Cardinality(F) + 1
  <2>1. G = F \cup {w} /\ w \notin F
    BY <1>5
  <2> HIDE DEF F, G
  <2> QED
    BY <1>1, <2>1, FS_AddElement
<1>6. InFlight(m) = Cardinality(F) /\ InFlight(m)' = Cardinality(G)
  BY DEF InFlight
<1> HIDE DEF F, G
<1> QED
  BY <1>2, <1>3, <1>4, <1>5, <1>6

\* A step that leaves sends, claims and counts of m alone leaves its account.
LEMMA QuietAccount ==
    ASSUME NEW m \in Rows, Paid(m), UNCHANGED <<sent, losses, batch, connected>>,
           attempts'[m] = attempts[m], copies'[m] + stray'[m] <= copies[m] + stray[m],
           (status'[m] = "published") = (status[m] = "published"), TypeOK, TypeOK'
    PROVE  Paid(m)'
<1>1. InFlight(m)' = InFlight(m) /\ Held(m)' = Held(m)
  BY DEF InFlight, Held, Locked
<1>2. InFlight(m) \in Nat
  BY PublisherAssumption, FS_Subset, FS_CardinalityType DEF InFlight
<1>3. Allowance(m)' = Allowance(m) /\ Allowance(m) \in Nat
  BY <1>1, PublisherAssumption DEF Allowance, TypeOK
<1>4. /\ copies[m] \in Nat /\ stray[m] \in Nat
      /\ copies'[m] \in Nat /\ stray'[m] \in Nat
  BY DEF TypeOK
<1> QED
  BY <1>1, <1>2, <1>3, <1>4 DEF Paid

\* Who holds m when only worker w's claim changes.
LEMMA HeldFacts ==
    ASSUME PublisherInv, NEW m \in Rows, NEW w \in Workers,
           \A v \in Workers \ {w} : connected'[v] = connected[v] /\ batch'[v] = batch[v],
           (status'[m] = "published") = (status[m] = "published")
    PROVE  /\ (connected[w] /\ m \in batch[w]) = (connected'[w] /\ m \in batch'[w])
                 => Held(m)' = Held(m)
           /\ connected[w] /\ m \in batch[w] => Held(m)
           /\ connected'[w] /\ m \in batch'[w] => Held(m)'
BY DEF Held, Locked

\* A worker whose cycle ends with nothing of m in flight is paid for by the
\* loss, by the attempt recorded or by the row it has published.
LEMMA ReleaseAccount ==
    ASSUME PublisherInv, PublisherInv', NEW m \in Rows, Paid(m), NEW w \in Workers,
           NEW next \in {"idle", "down"}, Release(w, next),
           \/ sent[w][m] # "flying" /\ stray'[m] = stray[m]
           \/ sent[w][m] = "flying" /\ stray'[m] <= stray[m] + 1,
           copies' = copies,
           \/ losses' = losses + 1 /\ attempts'[m] = attempts[m]
                                  /\ (status'[m] = "published") = (status[m] = "published")
           \/ /\ losses' = losses /\ (m \notin batch[w] \/ ~ connected[w])
              /\ attempts'[m] = attempts[m]
              /\ (status'[m] = "published") = (status[m] = "published")
           \/ losses' = losses /\ attempts'[m] = attempts[m] + 1
           \/ losses' = losses /\ status'[m] = "published" /\ attempts'[m] = attempts[m]
    PROVE  Paid(m)'
<1>1. TypeOK /\ TypeOK' /\ WorkerInv
  BY DEF PublisherInv
<1>2. /\ batch'[w] = {} /\ connected'[w] = FALSE /\ sent'[w][m] = "none"
      /\ \A v \in Workers \ {w} : /\ batch'[v] = batch[v] /\ sent'[v] = sent[v]
                                  /\ connected'[v] = connected[v]
  BY <1>1, ReleaseFacts
<1>3. /\ InFlight(m) \in Nat /\ InFlight(m)' \in Nat
      /\ sent[w][m] # "flying" => InFlight(m)' = InFlight(m)
      /\ sent[w][m] = "flying" => InFlight(m)' = InFlight(m) - 1
  BY <1>2, InFlightFacts
<1>4. /\ copies[m] \in Nat /\ stray[m] \in Nat /\ stray'[m] \in Nat /\ losses \in Nat
      /\ attempts[m] \in Nat /\ losses' \in Nat /\ attempts'[m] \in Nat
  BY <1>1, PublisherAssumption DEF TypeOK
<1>5. Allowance(m) <= Allowance(m)'
  <2>1. CASE losses' = losses + 1 /\ attempts'[m] = attempts[m]
    BY <1>4, <2>1 DEF Allowance
  <2>2. CASE losses' = losses /\ (m \notin batch[w] \/ ~ connected[w])
             /\ attempts'[m] = attempts[m] /\ (status'[m] = "published") = (status[m] = "published")
    <3>1. Held(m)' = Held(m)
      BY <1>2, <2>2, HeldFacts
    <3> QED
      BY <1>4, <2>2, <3>1 DEF Allowance
  <2>3. CASE losses' = losses /\ attempts'[m] = attempts[m] + 1
    BY <1>4, <2>3 DEF Allowance
  <2>4. CASE losses' = losses /\ status'[m] = "published" /\ attempts'[m] = attempts[m]
    BY <1>4, <2>4 DEF Allowance, Held
  <2> QED
    BY <2>1, <2>2, <2>3, <2>4
<1>6. Allowance(m) \in Nat /\ Allowance(m)' \in Nat
  BY <1>4 DEF Allowance
<1>7. copies'[m] + stray'[m] + InFlight(m)' <= copies[m] + stray[m] + InFlight(m)
  BY <1>3, <1>4
<1> QED
  BY <1>3, <1>4, <1>5, <1>6, <1>7 DEF Paid

\* A send that settles or fails does not change what is owed: a copy that
\* arrives, or may still arrive, was in flight.
LEMMA SendAccount ==
    ASSUME TypeOK, TypeOK', NEW m \in Rows, Paid(m), NEW w \in Workers,
           \A v \in Workers \ {w} : sent'[v][m] = sent[v][m],
           sent'[w][m] = "flying" => sent[w][m] = "flying",
           UNCHANGED <<status, attempts, batch, connected, losses>>,
           IF sent[w][m] = "flying" /\ sent'[w][m] # "flying"
           THEN copies'[m] + stray'[m] <= copies[m] + stray[m] + 1
           ELSE copies'[m] + stray'[m] <= copies[m] + stray[m]
    PROVE  Paid(m)'
<1>1. /\ InFlight(m) \in Nat /\ InFlight(m)' \in Nat
      /\ IF sent[w][m] = "flying" /\ sent'[w][m] # "flying"
         THEN InFlight(m)' = InFlight(m) - 1 ELSE InFlight(m)' = InFlight(m)
  BY InFlightFacts
<1>2. Held(m)' = Held(m)
  BY DEF Held, Locked
<1>3. Allowance(m)' = Allowance(m) /\ Allowance(m) \in Nat
  BY <1>2, PublisherAssumption DEF Allowance, TypeOK
<1>4. /\ copies[m] \in Nat /\ stray[m] \in Nat
      /\ copies'[m] \in Nat /\ stray'[m] \in Nat
  BY DEF TypeOK
<1>5. copies'[m] + stray'[m] + InFlight(m)' <= copies[m] + stray[m] + InFlight(m)
  BY <1>1, <1>4
<1> QED
  BY <1>1, <1>3, <1>4, <1>5 DEF Paid

\* A claim takes a row nobody holds, and its hold pays for its send.
LEMMA ClaimAccount ==
    ASSUME PublisherInv, PublisherInv', NEW m \in Rows, Paid(m), NEW w \in Workers, Claim(w)
    PROVE  Paid(m)'
<1>1. TypeOK /\ TypeOK' /\ WorkerInv
  BY DEF PublisherInv
<1>2. /\ batch[w] = {} /\ sent[w][m] = "none" /\ ~ connected[w]
      /\ batch'[w] = First(Claimable) /\ connected'[w]
      /\ sent'[w][m] = IF m \in First(Claimable) THEN "flying" ELSE "none"
  <2>1. batch[w] = {} /\ sent[w][m] = "none" /\ ~ connected[w]
    BY <1>1 DEF Claim, WorkerInv
  <2>2. batch'[w] = First(Claimable) /\ connected'[w]
    BY <1>1 DEF Claim, TypeOK
  <2>3. sent'[w][m] = IF m \in First(Claimable) THEN "flying" ELSE "none"
    BY <1>1 DEF Claim, TypeOK
  <2> QED
    BY <2>1, <2>2, <2>3
<1>3. \A v \in Workers \ {w} : /\ batch'[v] = batch[v] /\ sent'[v] = sent[v]
                              /\ connected'[v] = connected[v]
  BY <1>1 DEF Claim, TypeOK
<1>4. UNCHANGED <<status, attempts, copies, stray, losses>>
  BY DEF Claim, rowVars, topicVars
<1>5. /\ InFlight(m) \in Nat /\ InFlight(m)' \in Nat
      /\ m \in First(Claimable) => InFlight(m)' = InFlight(m) + 1
      /\ m \notin First(Claimable) => InFlight(m)' = InFlight(m)
  BY <1>2, <1>3, InFlightFacts
<1>6. /\ copies[m] \in Nat /\ stray[m] \in Nat /\ losses \in Nat /\ attempts[m] \in Nat
  BY <1>1, PublisherAssumption DEF TypeOK
<1>7. CASE m \in First(Claimable)
  <2>1. ~ Held(m)
    BY <1>7, ClaimFacts DEF Held
  <2>2. Held(m)'
    BY <1>2, <1>3, <1>4, <1>7, HeldFacts
  <2> QED
    BY <1>4, <1>5, <1>6, <1>7, <2>1, <2>2 DEF Paid, Allowance
<1>8. CASE m \notin First(Claimable)
  <2>1. Held(m)' = Held(m)
    BY <1>2, <1>3, <1>4, <1>8, HeldFacts
  <2> QED
    BY <1>4, <1>5, <1>6, <1>8, <2>1 DEF Paid, Allowance
<1> QED
  BY <1>7, <1>8

\* A request given up on becomes one stray at most.
LEMMA GiveUpBounds ==
    ASSUME TypeOK, NEW m \in Rows, NEW S, GiveUpOn(S)
    PROVE  /\ copies' = copies
           /\ stray'[m] \in {stray[m], stray[m] + 1}
           /\ m \notin S => stray'[m] = stray[m]
BY DEF GiveUpOn, TypeOK

\* Every step keeps the account of m.
LEMMA StepAccount ==
    ASSUME PublisherInv, [Next]_vars, NEW m \in Rows, Paid(m)
    PROVE  Paid(m)'
<1>0. PublisherInv'
  BY StepInv
<1>a. TypeOK /\ TypeOK' /\ WorkerInv
  BY <1>0 DEF PublisherInv
<1>b. copies[m] \in Nat /\ stray[m] \in Nat
  BY <1>a DEF TypeOK
<1>1. ASSUME NEW k \in Rows, Insert(k) PROVE Paid(m)'
  <2>1. (status'[m] = "published") = (status[m] = "published")
    BY <1>1, <1>a DEF Insert, TypeOK
  <2> QED
    BY <1>1, <1>a, <1>b, <2>1, QuietAccount DEF Insert, workerVars, topicVars
<1>2. ASSUME NEW w \in Workers, Claim(w) PROVE Paid(m)'
  BY <1>0, <1>2, ClaimAccount
<1>3. ASSUME NEW w \in Workers, NEW k \in Rows, Append(w, k) PROVE Paid(m)'
  <2>1. /\ \A v \in Workers \ {w} : sent'[v][m] = sent[v][m]
        /\ IF k = m THEN /\ sent[w][m] = "flying" /\ sent'[w][m] = "appended"
                         /\ copies'[m] = copies[m] + 1
                    ELSE sent'[w][m] = sent[w][m] /\ copies'[m] = copies[m]
        /\ stray'[m] = stray[m]
    BY <1>3, <1>a DEF Append, TypeOK
  <2> QED
    BY <1>3, <1>a, <1>b, <2>1, SendAccount DEF Append, rowVars
<1>4. ASSUME NEW w \in Workers, NEW k \in Rows, Acknowledge(w, k) PROVE Paid(m)'
  <2>1. /\ \A v \in Workers \ {w} : sent'[v][m] = sent[v][m]
        /\ IF k = m THEN sent[w][m] = "appended" /\ sent'[w][m] = "acked"
                    ELSE sent'[w][m] = sent[w][m]
        /\ copies' = copies /\ stray' = stray
    BY <1>4, <1>a DEF Acknowledge, TypeOK, topicVars
  <2> QED
    BY <1>4, <1>a, <1>b, <2>1, SendAccount DEF Acknowledge, rowVars
<1>5. ASSUME NEW w \in Workers, NEW k \in Rows, SendFails(w, k) PROVE Paid(m)'
  <2>1. /\ \A v \in Workers \ {w} : sent'[v][m] = sent[v][m]
        /\ IF k = m THEN sent'[w][m] = "failed" ELSE sent'[w][m] = sent[w][m]
    BY <1>5, <1>a DEF SendFails, TypeOK
  <2>2. /\ copies' = copies /\ stray'[m] \in {stray[m], stray[m] + 1}
        /\ m \notin {k} \intersect Flying(w) => stray'[m] = stray[m]
    BY <1>5, <1>a, GiveUpBounds DEF SendFails
  <2>3. m \in {k} \intersect Flying(w) => k = m /\ sent[w][m] = "flying"
    BY DEF Flying
  <2> QED
    BY <1>5, <1>a, <1>b, <2>1, <2>2, <2>3, SendAccount DEF SendFails, rowVars
<1>6. ASSUME NEW w \in Workers, TimeOut(w) PROVE Paid(m)'
  <2>1. /\ \A v \in Workers \ {w} : sent'[v][m] = sent[v][m]
        /\ sent'[w][m] = IF m \in batch[w] THEN "failed" ELSE "none"
    BY <1>6, <1>a DEF TimeOut, TypeOK
  <2>2. /\ copies' = copies /\ stray'[m] \in {stray[m], stray[m] + 1}
        /\ m \notin Flying(w) => stray'[m] = stray[m]
    BY <1>6, <1>a, GiveUpBounds DEF TimeOut
  <2>3. m \in Flying(w) => sent[w][m] = "flying"
    BY DEF Flying
  <2> QED
    BY <1>6, <1>a, <1>b, <2>1, <2>2, <2>3, SendAccount DEF TimeOut, rowVars
<1>7. ASSUME NEW w \in Workers, Settle(w) PROVE Paid(m)'
  <2>1. sent[w][m] # "flying" /\ copies' = copies /\ stray' = stray /\ losses' = losses
    BY <1>7, <1>a DEF Settle, Resolved, WorkerInv, topicVars
  <2>2. Release(w, "idle")
    BY <1>7 DEF Settle
  <2>3. \/ m \notin batch[w] /\ attempts'[m] = attempts[m] /\ status'[m] = status[m]
        \/ attempts'[m] = attempts[m] + 1
        \/ status'[m] = "published" /\ attempts'[m] = attempts[m]
    BY <1>7, SettleFacts
  <2> QED
    BY <1>0, <2>1, <2>2, <2>3, ReleaseAccount
<1>8. ASSUME NEW w \in Workers, LoseConnection(w) PROVE Paid(m)'
  <2>1. /\ InFlight(m)' = InFlight(m) /\ UNCHANGED <<attempts, copies, stray>>
        /\ losses' = losses + 1
    BY <1>8 DEF LoseConnection, InFlight, rowVars, topicVars
  <2>2. losses \in Nat /\ attempts[m] \in Nat
    BY <1>a, PublisherAssumption DEF TypeOK
  <2>3. InFlight(m) \in Nat
    BY PublisherAssumption, FS_Subset, FS_CardinalityType DEF InFlight
  <2> QED
    BY <1>b, <2>1, <2>2, <2>3 DEF Paid, Allowance
<1>9. ASSUME NEW w \in Workers, CycleFails(w) PROVE Paid(m)'
  <2>1. sent[w][m] # "flying" /\ copies' = copies /\ stray' = stray /\ Release(w, "idle")
    BY <1>9, <1>a DEF CycleFails, Resolved, WorkerInv, topicVars
  <2>2. /\ attempts' = attempts /\ status' = status
        /\ losses' = losses + 1 \/ (losses' = losses /\ ~ connected[w])
    BY <1>9 DEF CycleFails, rowVars
  <2> QED
    BY <1>0, <2>1, <2>2, ReleaseAccount
<1>10. ASSUME NEW w \in Workers, Crash(w) PROVE Paid(m)'
  <2>1. Release(w, "down") /\ attempts' = attempts /\ status' = status /\ losses' = losses + 1
    BY <1>10 DEF Crash, rowVars
  <2>2. /\ copies' = copies /\ stray'[m] \in {stray[m], stray[m] + 1}
        /\ m \notin Flying(w) => stray'[m] = stray[m]
    BY <1>10, <1>a, GiveUpBounds DEF Crash
  <2>3. m \in Flying(w) <=> sent[w][m] = "flying"
    BY <1>a DEF Flying, WorkerInv
  <2> QED
    BY <1>0, <1>b, <2>1, <2>2, <2>3, ReleaseAccount
<1>11. ASSUME NEW w \in Workers, Restart(w) PROVE Paid(m)'
  BY <1>11, <1>a, <1>b, QuietAccount DEF Restart, rowVars, topicVars
<1>12. ASSUME NEW k \in Rows, StrayArrives(k) PROVE Paid(m)'
  <2>1. copies'[m] + stray'[m] <= copies[m] + stray[m]
    BY <1>12, <1>a, <1>b DEF StrayArrives, TypeOK
  <2> QED
    BY <1>12, <1>a, <2>1, QuietAccount DEF StrayArrives, rowVars, workerVars
<1>13. CASE Tick
  BY <1>13, <1>a, <1>b, QuietAccount DEF Tick, topicVars
<1>14. CASE UNCHANGED vars
  BY <1>14, <1>a, <1>b, QuietAccount DEF vars
<1> QED
  BY <1>1, <1>2, <1>3, <1>4, <1>5, <1>6, <1>7, <1>8, <1>9, <1>10, <1>11, <1>12, <1>13, <1>14
     DEF Next, Publishing, WorkerNext

-----------------------------------------------------------------------------
(* The theorems.                                                            *)

\* Every reachable state satisfies the inductive invariant.
THEOREM PublisherInvariant == Spec => []PublisherInv
<1>1. PublisherInv /\ [Next]_vars => PublisherInv'
  BY StepInv
<1> QED
  BY InitInv, <1>1, PTL DEF Spec

\* No row is marked published that is not on the topic, with any number of
\* workers, crashes and lost connections.
THEOREM NothingLost == Spec => []PublishedIsOnTopic
<1>1. PublisherInv => PublishedIsOnTopic
  BY DEF PublisherInv, OnTopic
<1> QED
  BY <1>1, PublisherInvariant, PTL

\* No two live transactions hold the same row.
THEOREM ExclusiveClaims == Spec => []ClaimsAreExclusive
<1>1. PublisherInv => ClaimsAreExclusive
  BY DEF PublisherInv
<1> QED
  BY <1>1, PublisherInvariant, PTL

\* A row has failed exactly when its attempts are used up.
THEOREM FailureIsExhaustion == Spec => []FailedIsExhausted
<1>1. PublisherInv => FailedIsExhausted
  BY DEF PublisherInv, AttemptsInv
<1> QED
  BY <1>1, PublisherInvariant, PTL

\* A published or failed row never changes again, a row leaves "pending" only
\* to one of those, and attempts count one at a time.
THEOREM FatesAreFinal == Spec => FateIsFinal
<1> DEFINE Kept(m) ==
      /\ status[m] \in {"published", "failed"} => UNCHANGED <<status[m], attempts[m]>>
      /\ attempts'[m] \in {attempts[m], attempts[m] + 1}
      /\ status'[m] # status[m] /\ status[m] # "absent" => status[m] = "pending"
<1>1. PublisherInv /\ [Next]_vars => \A m \in Rows : Kept(m)
  <2> SUFFICES ASSUME PublisherInv, [Next]_vars, NEW m \in Rows PROVE Kept(m)
    OBVIOUS
  <2>0. TypeOK
    BY DEF PublisherInv
  <2>1. CASE UNCHANGED rowVars
    BY <2>1 DEF rowVars
  <2>2. ASSUME NEW k \in Rows, Insert(k) PROVE Kept(m)
    BY <2>0, <2>2 DEF Insert, TypeOK
  <2>3. ASSUME NEW w \in Workers, Settle(w) PROVE Kept(m)
    <3>1. CASE m \in batch[w]
      BY <2>3, <3>1, SettleFacts
    <3>2. CASE m \notin batch[w]
      BY <2>3, <3>2, SettleFacts
    <3> QED
      BY <3>1, <3>2
  <2>4. CASE Tick
    BY <2>4 DEF Tick
  <2> QED
    BY <2>1, <2>2, <2>3, <2>4
       DEF Next, Publishing, WorkerNext, Claim, Append, Acknowledge, SendFails, TimeOut,
           LoseConnection, CycleFails, Crash, Restart, StrayArrives, vars, rowVars
<1>2. (PublisherInv /\ [Next]_vars => \A m \in Rows : Kept(m))
        => (PublisherInv /\ [Next]_vars => [\A m \in Rows : Kept(m)]_vars)
  OBVIOUS
<1> QED
  BY <1>1, PublisherInvariant, PTL DEF Spec, FateIsFinal

\* However workers fail, copies of a row are paid for by its attempts, the
\* cycles cut short and the claim or success that holds it.
THEOREM DuplicatesArePaidFor == Spec => []DuplicatesAccounted
<1>1. Init => AccountInv
  <2> SUFFICES ASSUME Init, NEW m \in Rows PROVE Paid(m)
    BY DEF AccountInv
  <2>1. copies[m] = 0 /\ stray[m] = 0 /\ attempts[m] = 0 /\ losses = 0
    BY DEF Init
  <2>2. {w \in Workers : sent[w][m] = "flying"} = {}
    BY DEF Init, NoSends
  <2>3. InFlight(m) = 0
    BY <2>2, FS_EmptySet DEF InFlight
  <2> QED
    BY <2>1, <2>3 DEF Paid, Allowance
<1>2. AccountInv /\ PublisherInv /\ [Next]_vars => AccountInv'
  BY StepAccount DEF AccountInv
<1>3. PublisherInv /\ AccountInv => DuplicatesAccounted
  <2> SUFFICES ASSUME PublisherInv, AccountInv, NEW m \in Rows PROVE copies[m] <= Allowance(m)
    BY DEF DuplicatesAccounted
  <2>1. copies[m] \in Nat /\ stray[m] \in Nat /\ losses \in Nat /\ attempts[m] \in Nat
    BY PublisherAssumption DEF PublisherInv, TypeOK
  <2>2. InFlight(m) \in Nat
    BY PublisherAssumption, FS_Subset, FS_CardinalityType DEF InFlight
  <2> QED
    BY <2>1, <2>2 DEF AccountInv, Paid, Allowance
<1> QED
  BY <1>1, <1>2, <1>3, PublisherInvariant, PTL DEF Spec

\* Every variable keeps its type; in particular nothing overruns its bound.
THEOREM PublisherTypes == Spec => []TypeOK
<1>1. PublisherInv => TypeOK
  BY DEF PublisherInv
<1> QED
  BY <1>1, PublisherInvariant, PTL

=============================================================================
