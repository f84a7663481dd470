--------------------------- MODULE OutboxPublisher ---------------------------
(***************************************************************************)
(* The outbox workers (src/app/services/outbox_publisher.py, the loop of   *)
(* src/app/workers/outbox_publisher.py and the outbox_messages table).  A  *)
(* worker claims a batch of due rows with FOR UPDATE SKIP LOCKED, sends    *)
(* them to Kafka inside the transaction, and records the results in it.    *)
(*                                                                         *)
(* Time is relative.  due[m] is how long row m still has to wait           *)
(* (available_at - clock, 0 once it has passed); elapsed[w] is how long    *)
(* ago worker w read `now`.  No delay exceeds BackoffCap, so ages need not *)
(* be counted beyond it and the model needs no bound on the clock.         *)
(*                                                                         *)
(* Kafka is what the code sees of it: a send is on its way, appended to    *)
(* the topic, acknowledged or failed, and a request whose sender has given *)
(* up (timeout, crash) may still be appended later.                        *)
(***************************************************************************)
EXTENDS Integers, FiniteSets

CONSTANTS
    Rows,          \* ids of outbox_messages
    Workers,       \* worker processes (docker compose up --scale outbox-worker=2)
    BatchSize,     \* OUTBOX_BATCH_SIZE
    MaxAttempts,   \* OUTBOX_MAX_ATTEMPTS
    BackoffBase,   \* OUTBOX_BACKOFF_BASE_SECONDS, in ticks
    BackoffCap,    \* OUTBOX_BACKOFF_CAP_SECONDS, in ticks
    MaxLosses      \* bound on crashes, lost connections and failed commits

ASSUME PublisherAssumption ==
    /\ Rows \subseteq Nat /\ IsFiniteSet(Workers)
    /\ BatchSize \in Nat \ {0} /\ MaxAttempts \in Nat \ {0}
    /\ BackoffBase \in Nat \ {0} /\ BackoffCap \in Nat \ {0}
    /\ MaxLosses \in Nat

VARIABLES
    status,      \* outbox_messages.status; "absent" before the order commits
    attempts,    \* outbox_messages.attempts
    due,         \* available_at, as the time left until then
    pc,          \* pc[w]: "idle", "sending" or "down"
    batch,       \* batch[w]: the rows claim_batch returned
    connected,   \* connected[w]: w's transaction, and with it its row locks, is alive
    elapsed,     \* elapsed[w]: the age of `now` in publish_pending
    sent,        \* sent[w][m]: what w knows of its send of m, and Kafka of it
    copies,      \* copies[m]: records of m appended to the topic
    stray,       \* stray[m]: requests no one waits for that may still be appended
    losses       \* cycles cut short so far

vars == <<status, attempts, due, pc, batch, connected, elapsed, sent, copies, stray, losses>>
rowVars == <<status, attempts, due>>
workerVars == <<pc, batch, connected, elapsed, sent>>
topicVars == <<copies, stray>>

Statuses == {"absent", "pending", "published", "failed"}
SendStates == {"none", "flying", "appended", "acked", "failed"}

NoSends == [m \in Rows |-> "none"]

-----------------------------------------------------------------------------

\* Mistake: the cap is forgotten.
CeilingUncapped(attempt) == BackoffBase * 2 ^ (attempt - 1)

\* retry_ceiling.
Ceiling(attempt) ==
    LET grown == BackoffBase * 2 ^ (attempt - 1)
    IN  IF grown < BackoffCap THEN grown ELSE BackoffCap

\* retry_delay, in whole ticks.
Delays(attempt) == 1..Ceiling(attempt)

\* Rows some open transaction holds FOR UPDATE.
Locked == UNION {batch[w] : w \in {v \in Workers : connected[v]}}

\* Mistake: no FOR UPDATE SKIP LOCKED.
ClaimableLockedToo == {m \in Rows : status[m] = "pending" /\ due[m] = 0}

\* Mistake: the status is not in the WHERE clause.
ClaimableAnyStatus == {m \in Rows : status[m] # "absent" /\ due[m] = 0} \ Locked

\* What the WHERE clause and SKIP LOCKED leave.
Claimable == {m \in Rows : status[m] = "pending" /\ due[m] = 0} \ Locked

\* ORDER BY id LIMIT batch_size.
First(S) == {m \in S : Cardinality({k \in S : k < m}) < BatchSize}

Flying(w) == {m \in batch[w] : sent[w][m] = "flying"}

Resolved(w) == \A m \in batch[w] : sent[w][m] \in {"acked", "failed"}

-----------------------------------------------------------------------------

Init ==
    /\ status = [m \in Rows |-> "absent"]
    /\ attempts = [m \in Rows |-> 0]
    /\ due = [m \in Rows |-> 0]
    /\ pc = [w \in Workers |-> "idle"]
    /\ batch = [w \in Workers |-> {}]
    /\ connected = [w \in Workers |-> FALSE]
    /\ elapsed = [w \in Workers |-> 0]
    /\ sent = [w \in Workers |-> NoSends]
    /\ copies = [m \in Rows |-> 0]
    /\ stray = [m \in Rows |-> 0]
    /\ losses = 0

\* An order commits with its row: pending, no attempts, due at once.
Insert(m) ==
    /\ status[m] = "absent"
    /\ status' = [status EXCEPT ![m] = "pending"]
    /\ UNCHANGED <<attempts, due, losses>>
    /\ UNCHANGED workerVars
    /\ UNCHANGED topicVars

\* now = datetime.now(); claim_batch(); the sends are started.  With nothing
\* to claim the cycle ends and leaves no trace.
Claim(w) ==
    /\ pc[w] = "idle"
    /\ Claimable # {}
    /\ pc' = [pc EXCEPT ![w] = "sending"]
    /\ batch' = [batch EXCEPT ![w] = First(Claimable)]
    /\ connected' = [connected EXCEPT ![w] = TRUE]
    /\ elapsed' = [elapsed EXCEPT ![w] = 0]
    /\ sent' = [sent EXCEPT ![w] =
                    [m \in Rows |-> IF m \in First(Claimable) THEN "flying" ELSE "none"]]
    /\ UNCHANGED losses
    /\ UNCHANGED rowVars
    /\ UNCHANGED topicVars

\* The broker appends the record.
Append(w, m) ==
    /\ sent[w][m] = "flying"
    /\ sent' = [sent EXCEPT ![w][m] = "appended"]
    /\ copies' = [copies EXCEPT ![m] = @ + 1]
    /\ UNCHANGED <<pc, batch, connected, elapsed, stray, losses>>
    /\ UNCHANGED rowVars

\* Mistake: acks = 0.
AcknowledgeUnappended(w, m) ==
    /\ sent[w][m] = "flying"
    /\ sent' = [sent EXCEPT ![w][m] = "acked"]
    /\ UNCHANGED <<pc, batch, connected, elapsed, losses>>
    /\ UNCHANGED rowVars
    /\ UNCHANGED topicVars

\* send_and_wait returns.
Acknowledge(w, m) ==
    /\ sent[w][m] = "appended"
    /\ sent' = [sent EXCEPT ![w][m] = "acked"]
    /\ UNCHANGED <<pc, batch, connected, elapsed, losses>>
    /\ UNCHANGED rowVars
    /\ UNCHANGED topicVars

\* Requests nobody waits for any more: each is dropped or becomes a stray.
GiveUpOn(S) ==
    \E late \in SUBSET S :
        /\ stray' = [m \in Rows |-> IF m \in late THEN stray[m] + 1 ELSE stray[m]]
        /\ UNCHANGED copies

\* send_and_wait raises: before the record is appended, or with the
\* acknowledgement lost after it was.
SendFails(w, m) ==
    /\ sent[w][m] \in {"flying", "appended"}
    /\ GiveUpOn({m} \intersect Flying(w))
    /\ sent' = [sent EXCEPT ![w][m] = "failed"]
    /\ UNCHANGED <<pc, batch, connected, elapsed, losses>>
    /\ UNCHANGED rowVars

\* wait_for times out on a send that is still open: [timeout] * len(messages),
\* acknowledged sends included.
TimeOut(w) ==
    /\ pc[w] = "sending"
    /\ ~ Resolved(w)
    /\ GiveUpOn(Flying(w))
    /\ sent' = [sent EXCEPT ![w] = [m \in Rows |-> IF m \in batch[w] THEN "failed" ELSE "none"]]
    /\ UNCHANGED <<pc, batch, connected, elapsed, losses>>
    /\ UNCHANGED rowVars

\* Mistake: the transaction is left open.
ReleaseLocked(w, next) ==
    /\ pc' = [pc EXCEPT ![w] = next]
    /\ UNCHANGED <<batch, connected, elapsed, sent>>

\* The cycle is over for w, which goes on as next.
Release(w, next) ==
    /\ pc' = [pc EXCEPT ![w] = next]
    /\ batch' = [batch EXCEPT ![w] = {}]
    /\ connected' = [connected EXCEPT ![w] = FALSE]
    /\ elapsed' = [elapsed EXCEPT ![w] = 0]
    /\ sent' = [sent EXCEPT ![w] = NoSends]

\* Mistake: the results of gather are not looked at.
AckedWhatever(w) == batch[w]

Acked(w) == {m \in batch[w] : sent[w][m] = "acked"}

\* Mistake: failed sends are not counted.
RefusedIgnored(w) == {}

Refused(w) == {m \in batch[w] : sent[w][m] = "failed"}

\* Mistake: one attempt too many.
ExhaustedLate(w) == {m \in Refused(w) : attempts[m] >= MaxAttempts}

\* Among the refused rows, those whose attempts are used up.
Exhausted(w) == {m \in Refused(w) : attempts[m] + 1 >= MaxAttempts}

\* The others are due again after a while.
Retried(w) == Refused(w) \ Exhausted(w)

\* next_attempt_at(now, ...) seen from the time of the commit: `now` is elapsed[w] old.
TimeLeft(w, delay) == IF delay > elapsed[w] THEN delay - elapsed[w] ELSE 0

\* _settle and COMMIT.
Settle(w) ==
    /\ pc[w] = "sending" /\ connected[w]
    /\ Resolved(w)
    /\ status' = [m \in Rows |-> IF m \in Acked(w) THEN "published"
                                  ELSE IF m \in Exhausted(w) THEN "failed" ELSE status[m]]
    /\ attempts' = [m \in Rows |-> IF m \in Refused(w) THEN attempts[m] + 1 ELSE attempts[m]]
    /\ \E delay \in [Retried(w) -> UNION {Delays(attempts'[m]) : m \in Retried(w)}] :
        /\ \A m \in Retried(w) : delay[m] \in Delays(attempts'[m])
        /\ due' = [m \in Rows |-> IF m \in Retried(w) THEN TimeLeft(w, delay[m])
                                                     ELSE due[m]]
    /\ Release(w, "idle")
    /\ UNCHANGED losses
    /\ UNCHANGED topicVars

\* Postgres ends w's transaction while w is still sending: the rows are free,
\* w finds out when it settles.
LoseConnection(w) ==
    /\ pc[w] = "sending" /\ connected[w]
    /\ losses < MaxLosses
    /\ connected' = [connected EXCEPT ![w] = FALSE]
    /\ losses' = losses + 1
    /\ UNCHANGED <<pc, batch, elapsed, sent>>
    /\ UNCHANGED rowVars
    /\ UNCHANGED topicVars

\* The commit fails: "cycle failed", nothing is recorded.
CycleFails(w) ==
    /\ pc[w] = "sending" /\ Resolved(w)
    /\ IF connected[w] THEN losses < MaxLosses /\ losses' = losses + 1
                       ELSE UNCHANGED losses
    /\ Release(w, "idle")
    /\ UNCHANGED rowVars
    /\ UNCHANGED topicVars

\* The process dies, or SIGTERM ends it between two cycles.
Crash(w) ==
    /\ pc[w] # "down"
    /\ losses < MaxLosses
    /\ losses' = losses + 1
    /\ GiveUpOn(Flying(w))
    /\ Release(w, "down")
    /\ UNCHANGED rowVars

\* restart: unless-stopped.
Restart(w) ==
    /\ pc[w] = "down"
    /\ pc' = [pc EXCEPT ![w] = "idle"]
    /\ UNCHANGED <<batch, connected, elapsed, sent, losses>>
    /\ UNCHANGED rowVars
    /\ UNCHANGED topicVars

\* The fate of a stray request.
StrayArrives(m) ==
    /\ stray[m] > 0
    /\ stray' = [stray EXCEPT ![m] = @ - 1]
    /\ \/ copies' = [copies EXCEPT ![m] = @ + 1]
       \/ UNCHANGED copies
    /\ UNCHANGED losses
    /\ UNCHANGED rowVars
    /\ UNCHANGED workerVars

\* Time passes for the rows that wait and the workers that send.
Tick ==
    /\ \/ \E m \in Rows : due[m] > 0
       \/ \E w \in Workers : pc[w] = "sending" /\ elapsed[w] < BackoffCap
    /\ due' = [m \in Rows |-> IF due[m] > 0 THEN due[m] - 1 ELSE 0]
    /\ elapsed' = [w \in Workers |->
                      IF pc[w] = "sending" /\ elapsed[w] < BackoffCap THEN elapsed[w] + 1
                                                                      ELSE elapsed[w]]
    /\ UNCHANGED <<status, attempts, pc, batch, connected, sent, losses>>
    /\ UNCHANGED topicVars

WorkerNext(w) ==
    \/ Claim(w)
    \/ \E m \in Rows : Append(w, m) \/ Acknowledge(w, m) \/ SendFails(w, m)
    \/ TimeOut(w) \/ Settle(w)
    \/ LoseConnection(w) \/ CycleFails(w) \/ Crash(w) \/ Restart(w)

\* What happens to the rows that are there.
Publishing ==
    \/ \E w \in Workers : WorkerNext(w)
    \/ \E m \in Rows : StrayArrives(m)
    \/ Tick

Next ==
    \/ \E m \in Rows : Insert(m)
    \/ Publishing

Spec == Init /\ [][Next]_vars

\* The loop polls, wait_for gives up on a silent broker, docker restarts a
\* dead worker, time passes.  The broker owes nothing.
Fairness ==
    /\ WF_vars(Tick)
    /\ \A w \in Workers :
        /\ WF_vars(Claim(w))
        /\ WF_vars(TimeOut(w))
        /\ WF_vars(Settle(w) \/ CycleFails(w))
        /\ WF_vars(Restart(w))

FairSpec == Spec /\ Fairness

-----------------------------------------------------------------------------
(* Properties.                                                             *)

\* Every variable has its type.
TypeOK ==
    /\ status \in [Rows -> Statuses]
    /\ attempts \in [Rows -> 0..MaxAttempts]
    /\ due \in [Rows -> 0..BackoffCap]
    /\ pc \in [Workers -> {"idle", "sending", "down"}]
    /\ batch \in [Workers -> SUBSET Rows]
    /\ connected \in [Workers -> BOOLEAN]
    /\ elapsed \in [Workers -> 0..BackoffCap]
    /\ sent \in [Workers -> [Rows -> SendStates]]
    /\ copies \in [Rows -> Nat]
    /\ stray \in [Rows -> Nat]
    /\ losses \in 0..MaxLosses

\* A row marked published is on the topic, whatever crashed in between: the
\* mark is made after the acknowledgement.
PublishedIsOnTopic == \A m \in Rows : status[m] = "published" => copies[m] > 0

\* A row has given up exactly when its attempts are used up.
FailedIsExhausted == \A m \in Rows : status[m] = "failed" <=> attempts[m] = MaxAttempts

\* Two live transactions never hold the same row, so no two workers send the
\* same row unless one has lost its transaction.
ClaimsAreExclusive ==
    \A v, w \in Workers : v # w /\ connected[v] /\ connected[w] => batch[v] \intersect batch[w] = {}

\* A row is held by a live claim, or for good once it is published.
Held(m) == m \in Locked \/ status[m] = "published"

Allowance(m) == attempts[m] + losses + (IF Held(m) THEN 1 ELSE 0)

\* Duplicates on the topic are paid for: beyond the copy of the successful
\* send there is at most one for each failed attempt recorded in the row and
\* each cycle cut short.  A worker is never the source of unexplained copies.
DuplicatesAccounted == \A m \in Rows : copies[m] <= Allowance(m)

\* A row's fate is final and its attempts count up one at a time: a published
\* or failed row never changes again, not even when a worker that lost its
\* transaction settles late.
FateIsFinal ==
    [][\A m \in Rows :
          /\ status[m] \in {"published", "failed"} => UNCHANGED <<status[m], attempts[m]>>
          /\ attempts'[m] \in {attempts[m], attempts[m] + 1}
          /\ status'[m] # status[m] /\ status[m] # "absent" => status[m] = "pending"]_vars

-----------------------------------------------------------------------------
(* The inductive invariant behind the safety properties.                   *)

\* A worker has sends exactly for its batch, and locks only while sending.
WorkerInv ==
    \A w \in Workers :
        /\ pc[w] # "sending" => batch[w] = {} /\ ~ connected[w]
        /\ \A m \in Rows : m \in batch[w] <=> sent[w][m] # "none"

\* A row under a live lock is pending: nobody else can have settled it.
LockedArePending ==
    \A w \in Workers : connected[w] => \A m \in batch[w] : status[m] = "pending"

\* What is believed published is.
OnTopic ==
    /\ \A w \in Workers, m \in Rows : sent[w][m] \in {"appended", "acked"} => copies[m] > 0
    /\ PublishedIsOnTopic

\* Attempts count the failures of a row that was inserted.
AttemptsInv ==
    /\ FailedIsExhausted
    /\ \A m \in Rows : status[m] = "absent" => attempts[m] = 0

\* What every reachable state satisfies; the proofs use this strengthening.
PublisherInv ==
    TypeOK /\ WorkerInv /\ ClaimsAreExclusive /\ LockedArePending /\ OnTopic /\ AttemptsInv

\* The copies that may still come are paid for as well: the sends on their way
\* and the strays.
InFlight(m) == Cardinality({w \in Workers : sent[w][m] = "flying"})

Paid(m) == copies[m] + stray[m] + InFlight(m) <= Allowance(m)

AccountInv == \A m \in Rows : Paid(m)

-----------------------------------------------------------------------------

\* Every row is published or given up in the end.
EveryRowSettled ==
    \A m \in Rows : status[m] = "pending" ~> status[m] \in {"published", "failed"}

-----------------------------------------------------------------------------
(* What the documentation says and the code does not do.                   *)

\* README: the row that was not published into kafka just gets marked.
FailedWasNotPublished == \A m \in Rows : status[m] = "failed" => copies[m] = 0

\* README: a failed send does not block a full batch; it, and only it, is
\* charged an attempt.
AckedSendIsNotCharged ==
    [][\A w \in Workers, m \in Rows : sent[w][m] = "acked" => sent'[w][m] # "failed"]_vars

\* README: attempts and time are moved, so that workers do not see the row
\* for some time.
RetryWaits ==
    [][\A m \in Rows :
          attempts'[m] > attempts[m] /\ status'[m] = "pending" => due'[m] > 0]_vars

=============================================================================
