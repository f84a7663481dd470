------------------------ MODULE NotificationConsumer ------------------------
(***************************************************************************)
(* The notification consumer (src/app/services/notification_consumer.py    *)
(* and the loop of src/app/workers/notification_consumer.py): one          *)
(* partition of orders.events, read by the members of a consumer group     *)
(* that handle its records one by one and commit after each.               *)
(*                                                                         *)
(* A member works on the batch getmany returned, whatever happens to the   *)
(* group meanwhile: it may go on with a partition it has lost, or lost and *)
(* been given again.                                                       *)
(***************************************************************************)
EXTENDS Naturals, Sequences

CONSTANTS
    Consumers,     \* members of the group "notifications"
    Events,        \* event ids of order.created records
    LogSize,       \* bound on the records of the partition
    MaxAttempts,   \* CONSUMER_MAX_ATTEMPTS
    MaxWaits,      \* the last attempt whose back-off is a float: 2.0 ** 1023 is, 2.0 ** 1024 is not
    MaxFaults,     \* bound on crashes, stops, rebalances, failed calls to Kafka and long outages
    Nobody         \* the partition has no owner

ASSUME ConsumerAssumption ==
    /\ LogSize \in Nat
    /\ MaxAttempts \in Nat \ {0}
    /\ MaxWaits \in Nat \ {0}
    /\ MaxFaults \in Nat
    /\ Nobody \notin Consumers

VARIABLES
    log,           \* the records appended to the partition so far
    stored,        \* stored[e]: rows of notifications with event_id e
    dlq,           \* offsets copied to orders.events.dlq
    committed,     \* the committed offset: where the next owner starts
    owner,         \* the member the partition is assigned to
    pc,            \* pc[c]: what member c does next
    position,      \* position[c]: the record c is at
    last,          \* last[c]: the last record of c's batch
    fetched,       \* fetched[c]: where c's next getmany starts
    unexpected,    \* unexpected[c]: unexpected_attempt in process()
    waits,         \* waits[c]: transient_attempt in process()
    stop,          \* stop[c]: SIGTERM has been received
    faults         \* failures so far

vars == <<log, stored, dlq, committed, owner, pc, position, last, fetched, unexpected, waits,
          stop, faults>>
results == <<stored, dlq>>
groupVars == <<log, committed, owner>>
batchVars == <<position, last, fetched>>
attemptVars == <<unexpected, waits>>

Offsets == DOMAIN log

\* An order.created record, one of another type, or one that breaks the
\* contract (not the envelope, another version, not the payload).
Records == [kind : {"order"}, event : Events] \union [kind : {"foreign", "unreadable"}]

\* Within process(): at the loop's head, in handle(), in _pause() after a
\* transient error, in the final dead_letter(); then the offset is committed.
Busy == {"check", "handle", "pause", "give_up", "commit"}
Steps == {"down", "poll"} \union Busy

-----------------------------------------------------------------------------

Record(c) == log[position[c]]

Init ==
    /\ log = <<>>
    /\ stored = [e \in Events |-> 0]
    /\ dlq = {}
    /\ committed = 1
    /\ owner = Nobody
    /\ pc = [c \in Consumers |-> "poll"]
    /\ position = [c \in Consumers |-> 1]
    /\ last = [c \in Consumers |-> 0]
    /\ fetched = [c \in Consumers |-> 1]
    /\ unexpected = [c \in Consumers |-> 0]
    /\ waits = [c \in Consumers |-> 0]
    /\ stop = [c \in Consumers |-> FALSE]
    /\ faults = 0

\* One more of the failures the model may inject.
Fault == faults < MaxFaults /\ faults' = faults + 1

At(c, step) == pc[c] = step

Goto(c, step) == pc' = [pc EXCEPT ![c] = step]

\* process() is left, and with it its counters.
ResetCounters(c) ==
    /\ unexpected' = [unexpected EXCEPT ![c] = 0]
    /\ waits' = [waits EXCEPT ![c] = 0]

\* process() returns True: the record is done with.
Done(c) == Goto(c, "commit") /\ ResetCounters(c)

\* The memory of c's process is gone.
Forget(c) ==
    /\ position' = [position EXCEPT ![c] = 1]
    /\ last' = [last EXCEPT ![c] = 0]
    /\ fetched' = [fetched EXCEPT ![c] = 1]
    /\ ResetCounters(c)
    /\ stop' = [stop EXCEPT ![c] = FALSE]

\* Mistake: enable_auto_commit, which commits what getmany has returned.
ExitCommitting(c) ==
    /\ Goto(c, "down")
    /\ owner' = IF owner = c THEN Nobody ELSE owner
    /\ committed' = IF owner = c THEN fetched[c] ELSE committed
    /\ Forget(c)
    /\ UNCHANGED <<log, results>>

\* c's process ends and leaves the group.
Exit(c) ==
    /\ Goto(c, "down")
    /\ owner' = IF owner = c THEN Nobody ELSE owner
    /\ Forget(c)
    /\ UNCHANGED <<log, results, committed>>

\* A producer appends a record.
Produce(record) ==
    /\ Len(log) < LogSize
    /\ log' = Append(log, record)
    /\ UNCHANGED <<results, committed, owner, pc, batchVars, attemptVars, stop, faults>>

\* The group gives the partition to c, which will read from the committed offset.
Assign(c) ==
    /\ ~ At(c, "down")
    /\ owner # c
    /\ IF owner = Nobody THEN UNCHANGED faults ELSE Fault
    /\ owner' = c
    /\ fetched' = [fetched EXCEPT ![c] = committed]
    /\ UNCHANGED <<log, results, committed, pc, position, last, attemptVars, stop>>

\* The head of the worker's loop: getmany returns some records.
Poll(c) ==
    /\ At(c, "poll") /\ ~ stop[c] /\ owner = c
    /\ \E n \in fetched[c]..Len(log) :
        /\ last' = [last EXCEPT ![c] = n]
        /\ fetched' = [fetched EXCEPT ![c] = n + 1]
    /\ position' = [position EXCEPT ![c] = fetched[c]]
    /\ Goto(c, "check")
    /\ UNCHANGED <<groupVars, results, attemptVars, stop, faults>>

\* while not stop.is_set(), in the worker's loop and in process(): a stopped
\* worker returns and leaves its record uncommitted.
Leave(c) ==
    /\ At(c, "poll") \/ At(c, "check")
    /\ stop[c]
    /\ Exit(c)
    /\ UNCHANGED faults

Attempt(c) ==
    /\ At(c, "check") /\ ~ stop[c]
    /\ Goto(c, "handle")
    /\ UNCHANGED <<groupVars, results, batchVars, attemptVars, stop, faults>>

\* Mistake: a plain INSERT, with no unique event_id.
AddAlways(e) == stored' = [stored EXCEPT ![e] = @ + 1]

\* INSERT ... ON CONFLICT (event_id) DO NOTHING.
AddUnlessSeen(e) == stored' = [stored EXCEPT ![e] = IF @ = 0 THEN 1 ELSE @]

\* handle() stores the order's notification, or finds it stored.
Store(c) ==
    /\ At(c, "handle") /\ Record(c).kind = "order"
    /\ AddUnlessSeen(Record(c).event)
    /\ Done(c)
    /\ UNCHANGED <<groupVars, dlq, batchVars, stop, faults>>

Skip(c) ==
    /\ At(c, "handle") /\ Record(c).kind = "foreign"
    /\ Done(c)
    /\ UNCHANGED <<groupVars, results, batchVars, stop, faults>>

\* dead_letter(), from handle() for a record that breaks the contract, from
\* process() for one that has failed too often.
DeadLetter(c) ==
    /\ \/ At(c, "handle") /\ Record(c).kind = "unreadable"
       \/ At(c, "give_up")
    /\ dlq' = dlq \union {position[c]}
    /\ Done(c)
    /\ UNCHANGED <<groupVars, stored, batchVars, stop, faults>>

\* What handle() may have done before it raised: the row of an order may be
\* committed, the copy of an unreadable record appended to the queue.
Halfway(c) ==
    \/ UNCHANGED results
    \/ Record(c).kind = "order" /\ AddUnlessSeen(Record(c).event) /\ UNCHANGED dlq
    \/ Record(c).kind = "unreadable" /\ dlq' = dlq \union {position[c]} /\ UNCHANGED stored

\* The database cannot be reached, or the connection fails after the commit:
\* a transient error, retried however often.  An outage of more than MaxWaits
\* attempts in a row is one of the failures the model may inject.
FailTransiently(c) ==
    /\ At(c, "handle") /\ Record(c).kind = "order"
    /\ Halfway(c)
    /\ IF waits[c] = MaxWaits THEN Fault ELSE UNCHANGED faults
    /\ waits' = [waits EXCEPT ![c] = @ + 1]
    /\ Goto(c, "pause")
    /\ UNCHANGED <<groupVars, batchVars, unexpected, stop>>

\* _pause(), cut short by SIGTERM or not.
Pause(c) ==
    /\ At(c, "pause") /\ waits[c] <= MaxWaits
    /\ Goto(c, "check")
    /\ UNCHANGED <<groupVars, results, batchVars, attemptVars, stop, faults>>

\* 2.0 ** (attempt - 1) raises OverflowError, which nothing in process() catches.
PauseOverflows(c) ==
    /\ At(c, "pause") /\ waits[c] > MaxWaits
    /\ Exit(c)
    /\ UNCHANGED faults

\* Mistake: one attempt too many.
FailUnexpectedlyLate(c) ==
    /\ At(c, "handle") /\ Record(c).kind # "foreign"
    /\ Halfway(c)
    /\ unexpected' = [unexpected EXCEPT ![c] = @ + 1]
    /\ Goto(c, IF unexpected[c] + 1 > MaxAttempts THEN "give_up" ELSE "check")
    /\ UNCHANGED <<groupVars, batchVars, waits, stop, faults>>

\* Mistake: every attempt is the first.
FailUncounted(c) ==
    /\ At(c, "handle") /\ Record(c).kind # "foreign"
    /\ Halfway(c)
    /\ Goto(c, IF 1 >= MaxAttempts THEN "give_up" ELSE "check")
    /\ UNCHANGED <<groupVars, batchVars, attemptVars, stop, faults>>

\* handle() raises something that is not a transient error: the attempt is
\* counted, and the last one allowed leads to the dead letter queue.
FailUnexpectedly(c) ==
    /\ At(c, "handle") /\ Record(c).kind # "foreign"
    /\ Halfway(c)
    /\ unexpected' = [unexpected EXCEPT ![c] = @ + 1]
    /\ Goto(c, IF unexpected[c] + 1 >= MaxAttempts THEN "give_up" ELSE "check")
    /\ UNCHANGED <<groupVars, batchVars, waits, stop, faults>>

\* The final dead_letter() raises, outside the try: the worker dies.
GiveUpFails(c) ==
    /\ At(c, "give_up")
    /\ Fault
    /\ Exit(c)

\* Mistake: consumer.commit() with no offset commits the whole batch.
CommitBatch(c) ==
    /\ At(c, "commit") /\ owner = c
    /\ committed' = last[c] + 1
    /\ position' = [position EXCEPT ![c] = @ + 1]
    /\ Goto(c, IF position[c] < last[c] THEN "check" ELSE "poll")
    /\ UNCHANGED <<log, results, owner, last, fetched, attemptVars, stop, faults>>

\* consumer.commit(offset + 1), accepted from the partition's owner; then the
\* next record of the batch, or the next getmany.
Commit(c) ==
    /\ At(c, "commit") /\ owner = c
    /\ committed' = position[c] + 1
    /\ position' = [position EXCEPT ![c] = @ + 1]
    /\ Goto(c, IF position[c] < last[c] THEN "check" ELSE "poll")
    /\ UNCHANGED <<log, results, owner, last, fetched, attemptVars, stop, faults>>

\* The commit raises, always for a member that has lost the partition.
CommitFails(c) ==
    /\ At(c, "commit")
    /\ IF owner = c THEN Fault ELSE UNCHANGED faults
    /\ Exit(c)

Crash(c) ==
    /\ ~ At(c, "down")
    /\ Fault
    /\ Exit(c)

\* SIGTERM sets the event; it is looked at by Leave and Attempt only.
Terminate(c) ==
    /\ ~ At(c, "down") /\ ~ stop[c]
    /\ Fault
    /\ stop' = [stop EXCEPT ![c] = TRUE]
    /\ UNCHANGED <<groupVars, results, pc, batchVars, attemptVars>>

\* restart: unless-stopped, or the next deployment.
Restart(c) ==
    /\ At(c, "down")
    /\ Goto(c, "poll")
    /\ UNCHANGED <<groupVars, results, batchVars, attemptVars, stop, faults>>

Handle(c) == Store(c) \/ Skip(c) \/ DeadLetter(c)

MemberNext(c) ==
    \/ Assign(c) \/ Poll(c) \/ Leave(c) \/ Attempt(c)
    \/ Handle(c) \/ FailTransiently(c) \/ FailUnexpectedly(c)
    \/ Pause(c) \/ PauseOverflows(c) \/ GiveUpFails(c)
    \/ Commit(c) \/ CommitFails(c)
    \/ Crash(c) \/ Terminate(c) \/ Restart(c)

Next ==
    \/ \E record \in Records : Produce(record)
    \/ \E c \in Consumers : MemberNext(c)

Spec == Init /\ [][Next]_vars

\* The group finds an owner, the worker's loop runs, docker restarts it, and
\* handling a record does not end in a transient error for ever: it succeeds
\* or, if the record is poisonous, fails in another way, every time.
Fairness ==
    \A c \in Consumers :
        /\ WF_vars(owner = Nobody /\ Assign(c))
        /\ WF_vars(Poll(c)) /\ WF_vars(Leave(c)) /\ WF_vars(Attempt(c))
        /\ SF_vars(Handle(c) \/ FailUnexpectedly(c))
        /\ WF_vars(Pause(c) \/ PauseOverflows(c))
        /\ WF_vars(Commit(c) \/ (owner # c /\ CommitFails(c)))
        /\ WF_vars(Restart(c))

FairSpec == Spec /\ Fairness

-----------------------------------------------------------------------------
(* Properties.                                                             *)

\* Every variable has its type.
TypeOK ==
    /\ log \in Seq(Records) /\ Len(log) <= LogSize
    /\ stored \in [Events -> Nat]
    /\ dlq \subseteq Offsets
    /\ committed \in 1..Len(log) + 1
    /\ owner \in Consumers \union {Nobody}
    /\ pc \in [Consumers -> Steps]
    /\ position \in [Consumers -> 1..Len(log) + 1]
    /\ last \in [Consumers -> 0..Len(log)]
    /\ fetched \in [Consumers -> 1..Len(log) + 1]
    /\ unexpected \in [Consumers -> 0..MaxAttempts]
    /\ waits \in [Consumers -> Nat]
    /\ stop \in [Consumers -> BOOLEAN]
    /\ faults \in 0..MaxFaults

\* The record has had its effect: the notification exists, or the record is
\* in the dead letter queue, or there is nothing to do.
Settled(o) ==
    \/ log[o].kind = "order" /\ stored[log[o].event] > 0
    \/ log[o].kind = "foreign"
    \/ o \in dlq

\* Nothing behind the committed offset is lost, whoever committed it: no
\* crash, stop, rebalance or failed call makes the group skip a record.
NothingSkipped == \A o \in 1..committed - 1 : Settled(o)

\* However often an event is delivered or its handling repeated, by one
\* member or by two at a time, it has one notification at most.
NotifiedOnce == \A e \in Events : stored[e] <= 1

\* Every record is settled in the end: no record, poisonous or not, blocks the
\* partition.  (The committed offset may stay behind: a member that lost the
\* partition and got it back commits the older offsets of its batch.)
EveryRecordSettled ==
    \A o \in 1..LogSize : o \in Offsets ~> o \in Offsets /\ Settled(o)

-----------------------------------------------------------------------------
(* The inductive invariant behind NothingSkipped.                          *)

BelowSettled(n) == \A o \in Offsets : o < n => Settled(o)

\* Everything behind the record a member works on is settled, and so is what
\* lies before its next getmany, except for the batch in its hands.
MemberOk(c) ==
    /\ pc[c] \in Busy => /\ position[c] \in Offsets /\ position[c] <= last[c]
                         /\ BelowSettled(position[c])
                         /\ fetched[c] = last[c] + 1 \/ BelowSettled(fetched[c])
    /\ pc[c] \in {"poll", "down"} /\ owner = c => BelowSettled(fetched[c])
    /\ pc[c] = "commit" => Settled(position[c])
    /\ pc[c] # "give_up" => unexpected[c] < MaxAttempts

MemberInv == \A c \in Consumers : MemberOk(c)

\* What every reachable state satisfies; the proofs use this strengthening.
ConsumerInv == TypeOK /\ MemberInv /\ BelowSettled(committed)

-----------------------------------------------------------------------------
(* What the documentation says and the code does not do.                   *)

\* README: for mistakes like a db is down retries with backoff until
\* successful.  Every retry needs a delay that can be computed.
OutageIsWaitedOut == \A c \in Consumers : At(c, "pause") => waits[c] <= MaxWaits

=============================================================================
