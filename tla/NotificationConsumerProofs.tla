-------------------- MODULE NotificationConsumerProofs --------------------
(* Theorems about NotificationConsumer, for any group, log and settings.    *)
EXTENDS NotificationConsumer, TLAPS

-----------------------------------------------------------------------------
(* What is settled stays settled.                                           *)

\* The records of the log have offsets 1, 2, ...; those of orders name their event.
LEMMA LogFacts ==
    ASSUME TypeOK
    PROVE  /\ Len(log) \in 0..LogSize /\ Offsets = 1..Len(log)
           /\ \A o \in Offsets : log[o] \in Records
           /\ \A o \in Offsets : log[o].kind = "order" => log[o].event \in Events
<1>1. log \in Seq(Records) /\ Len(log) <= LogSize
  BY DEF TypeOK
<1>2. Len(log) \in 0..LogSize /\ Offsets = 1..Len(log) /\ \A o \in Offsets : log[o] \in Records
  BY <1>1, ConsumerAssumption DEF Offsets
<1> QED
  BY <1>2 DEF Records

\* A step that keeps the log, the rows and the dead letters keeps what they settle.
LEMMA SettledStays ==
    ASSUME TypeOK, log' = log, dlq \subseteq dlq',
           \A e \in Events : stored[e] > 0 => stored'[e] > 0
    PROVE  /\ Offsets' = Offsets
           /\ \A o \in Offsets : Settled(o) => Settled(o)'
           /\ \A n : BelowSettled(n) => BelowSettled(n)'
<1>1. \A o \in Offsets : log[o].kind = "order" => log[o].event \in Events
  BY LogFacts
<1>2. Offsets' = Offsets /\ \A o \in Offsets : Settled(o) => Settled(o)'
  BY <1>1 DEF Settled, Offsets
<1> QED
  BY <1>2 DEF BelowSettled

\* INSERT ... ON CONFLICT DO NOTHING leaves exactly the event's row behind.
LEMMA AddFacts ==
    ASSUME TypeOK, NEW e \in Events, AddUnlessSeen(e)
    PROVE  /\ stored' \in [Events -> Nat]
           /\ stored'[e] > 0
           /\ \A f \in Events : stored[f] > 0 => stored'[f] > 0
           /\ (\A f \in Events : stored[f] <= 1) => \A f \in Events : stored'[f] <= 1
<1>1. stored \in [Events -> Nat] /\ stored' = [stored EXCEPT ![e] = IF stored[e] = 0 THEN 1 ELSE stored[e]]
  BY DEF TypeOK, AddUnlessSeen
<1>2. \A f \in Events : stored[f] \in Nat
  BY <1>1
<1>3. stored'[e] = IF stored[e] = 0 THEN 1 ELSE stored[e]
  BY <1>1
<1>4. \A f \in Events \ {e} : stored'[f] = stored[f]
  BY <1>1
<1>5. stored' \in [Events -> Nat]
  BY <1>1
<1> QED
  BY <1>2, <1>3, <1>4, <1>5

\* In its hands, a member has a record of the log.
LEMMA RecordFacts ==
    ASSUME ConsumerInv, NEW c \in Consumers, pc[c] \in Busy
    PROVE  /\ position[c] \in Offsets
           /\ Record(c).kind = "order" => Record(c).event \in Events
BY LogFacts DEF ConsumerInv, MemberInv, MemberOk, Record

\* An injected failure stays within the bound.
LEMMA FaultType ==
    ASSUME TypeOK, Fault PROVE faults' \in 0..MaxFaults
BY ConsumerAssumption DEF TypeOK, Fault

-----------------------------------------------------------------------------
(* The inductive invariant.                                                 *)

\* At the start nothing is behind the committed offset.
LEMMA InitInv == Init => ConsumerInv
<1> SUFFICES ASSUME Init PROVE ConsumerInv
  OBVIOUS
<1>1. TypeOK
  BY ConsumerAssumption DEF Init, TypeOK, Steps
<1>2. \A o \in Offsets : ~ (o < 1)
  BY <1>1, LogFacts
<1>3. MemberInv /\ BelowSettled(committed)
  BY <1>2, ConsumerAssumption DEF Init, MemberInv, MemberOk, BelowSettled, Busy
<1> QED
  BY <1>1, <1>3 DEF ConsumerInv

\* A step keeps what is true of a member it does not move.
LEMMA KeptMember ==
    ASSUME TypeOK, NEW d \in Consumers, MemberOk(d), Offsets' = Offsets,
           \A o \in Offsets : Settled(o) => Settled(o)',
           pc'[d] = pc[d], position'[d] = position[d], last'[d] = last[d],
           unexpected'[d] = unexpected[d],
           fetched'[d] = fetched[d] \/ BelowSettled(fetched[d])',
           owner' = d => owner = d \/ BelowSettled(fetched[d])'
    PROVE  MemberOk(d)'
<1>1. pc'[d] = "commit" => Settled(position[d])'
  <2>1. pc[d] = "commit" => Settled(position[d]) /\ position[d] \in Offsets
    BY DEF MemberOk, Busy
  <2> QED
    BY <2>1 DEF Settled
<1>2. BelowSettled(position[d]) => BelowSettled(position[d])'
  BY DEF BelowSettled
<1>3. BelowSettled(fetched[d]) => BelowSettled(fetched[d])'
  BY DEF BelowSettled
<1> QED
  BY <1>1, <1>2, <1>3 DEF MemberOk

\* A member's step that moves it within its record, by itself.
LEMMA StayInv ==
    ASSUME ConsumerInv, NEW c \in Consumers, NEW step,
           pc[c] \in Busy, step \in Busy, Goto(c, step),
           step = "commit" => Settled(position[c])',
           step # "give_up" => unexpected'[c] < MaxAttempts,
           UNCHANGED <<groupVars, batchVars, stop>>,
           faults' \in 0..MaxFaults, waits' \in [Consumers -> Nat],
           unexpected' \in [Consumers -> 0..MaxAttempts],
           \A d \in Consumers \ {c} : unexpected'[d] = unexpected[d],
           stored' \in [Events -> Nat], dlq' \subseteq Offsets,
           dlq \subseteq dlq', \A e \in Events : stored[e] > 0 => stored'[e] > 0
    PROVE  ConsumerInv'
<1>1. TypeOK /\ MemberInv /\ BelowSettled(committed)
  BY DEF ConsumerInv
<1>2. /\ Offsets' = Offsets
      /\ \A o \in Offsets : Settled(o) => Settled(o)'
      /\ \A n : BelowSettled(n) => BelowSettled(n)'
  BY <1>1, SettledStays DEF groupVars
<1>3. TypeOK'
  BY <1>1 DEF TypeOK, Goto, Steps, Offsets, groupVars, batchVars
<1>4. pc'[c] = step /\ \A d \in Consumers \ {c} : pc'[d] = pc[d]
  BY <1>1 DEF Goto, TypeOK
<1>5. ASSUME NEW d \in Consumers \ {c} PROVE MemberOk(d)'
  BY <1>1, <1>2, <1>4, KeptMember DEF MemberInv, groupVars, batchVars
<1>6. MemberOk(c)'
  <2>1. MemberOk(c)
    BY <1>1 DEF MemberInv
  <2>2. BelowSettled(position[c])' /\ (fetched[c] = last[c] + 1 \/ BelowSettled(fetched[c])')
    BY <1>2, <2>1 DEF MemberOk, BelowSettled, batchVars
  <2> QED
    BY <1>4, <2>1, <2>2 DEF MemberOk, Busy, Offsets, groupVars, batchVars
<1>7. MemberInv'
  BY <1>5, <1>6 DEF MemberInv
<1>8. BelowSettled(committed)'
  BY <1>1, <1>2 DEF groupVars
<1> QED
  BY <1>3, <1>7, <1>8 DEF ConsumerInv

\* A step that leaves the log, the rows and the dead letters alone.
LEMMA SameSettled ==
    ASSUME TypeOK, UNCHANGED <<log, results>>
    PROVE  Offsets' = Offsets /\ \A o \in Offsets : Settled(o) => Settled(o)'
BY SettledStays DEF results

\* A member's process ends.
LEMMA ExitInv ==
    ASSUME ConsumerInv, NEW c \in Consumers, Exit(c), faults' \in 0..MaxFaults
    PROVE  ConsumerInv'
<1>1. TypeOK /\ MemberInv /\ BelowSettled(committed)
  BY DEF ConsumerInv
<1>2. Offsets' = Offsets /\ \A o \in Offsets : Settled(o) => Settled(o)'
  BY <1>1, SameSettled DEF Exit
<1>3. TypeOK'
  <2>1. Len(log) \in Nat /\ log' = log
    BY <1>1, LogFacts DEF Exit
  <2>2. /\ position' \in [Consumers -> 1..Len(log) + 1] /\ last' \in [Consumers -> 0..Len(log)]
        /\ fetched' \in [Consumers -> 1..Len(log) + 1]
    <3>1. 1 \in 1..Len(log) + 1 /\ 0 \in 0..Len(log)
      BY <2>1
    <3>2. /\ position \in [Consumers -> 1..Len(log) + 1] /\ last \in [Consumers -> 0..Len(log)]
          /\ fetched \in [Consumers -> 1..Len(log) + 1]
      BY <1>1 DEF TypeOK
    <3> QED
      BY <3>1, <3>2 DEF Exit, Forget
  <2>3. /\ unexpected' \in [Consumers -> 0..MaxAttempts] /\ waits' \in [Consumers -> Nat]
        /\ stop' \in [Consumers -> BOOLEAN]
    BY <1>1, ConsumerAssumption DEF TypeOK, Exit, Forget, ResetCounters
  <2>4. pc' \in [Consumers -> Steps] /\ owner' \in Consumers \union {Nobody}
    BY <1>1 DEF TypeOK, Exit, Goto, Steps
  <2> QED
    BY <2>1, <2>2, <2>3, <2>4, <1>1, <1>2 DEF TypeOK, Exit, results
<1>4. pc'[c] = "down" /\ \A d \in Consumers \ {c} : pc'[d] = pc[d]
  BY <1>1 DEF Exit, Goto, TypeOK
<1>5. \A d \in Consumers : owner' = d => owner = d
  BY ConsumerAssumption DEF Exit
<1>6. /\ committed' = committed
      /\ \A d \in Consumers \ {c} : /\ position'[d] = position[d] /\ last'[d] = last[d]
                                   /\ fetched'[d] = fetched[d] /\ unexpected'[d] = unexpected[d]
  BY <1>1 DEF Exit, Forget, ResetCounters, TypeOK
<1>7. MemberInv'
  <2>1. ASSUME NEW d \in Consumers \ {c} PROVE MemberOk(d)'
    BY <1>1, <1>2, <1>4, <1>5, <1>6, KeptMember DEF MemberInv
  <2>2. owner' # c
    BY ConsumerAssumption DEF Exit
  <2>3. unexpected'[c] < MaxAttempts
    BY <1>1, ConsumerAssumption DEF Exit, Forget, ResetCounters, TypeOK
  <2>4. MemberOk(c)'
    BY <1>4, <2>2, <2>3 DEF MemberOk, Busy
  <2> QED
    BY <2>1, <2>4 DEF MemberInv
<1>8. BelowSettled(committed)'
  BY <1>1, <1>2, <1>6 DEF BelowSettled
<1> QED
  BY <1>3, <1>7, <1>8 DEF ConsumerInv

\* A new owner starts at the committed offset, behind which all is settled,
\* and keeps the batch it may be working on.
LEMMA AssignInv ==
    ASSUME ConsumerInv, NEW c \in Consumers, Assign(c) PROVE ConsumerInv'
<1>1. TypeOK /\ MemberInv /\ BelowSettled(committed)
  BY DEF ConsumerInv
<1>2. Offsets' = Offsets /\ \A o \in Offsets : Settled(o) => Settled(o)'
  BY <1>1, SameSettled DEF Assign
<1>3. TypeOK'
  BY <1>1, FaultType DEF TypeOK, Assign, Offsets, results, attemptVars
<1>4. fetched'[c] = committed /\ \A d \in Consumers \ {c} : fetched'[d] = fetched[d]
  BY <1>1 DEF Assign, TypeOK
<1>5. owner' = c /\ UNCHANGED <<committed, pc, position, last, unexpected>>
  BY DEF Assign, attemptVars
<1>6. BelowSettled(committed)' /\ BelowSettled(fetched[c])'
  BY <1>1, <1>2, <1>4, <1>5 DEF BelowSettled
<1>7. MemberInv'
  BY <1>1, <1>2, <1>4, <1>5, <1>6, KeptMember DEF MemberInv
<1> QED
  BY <1>3, <1>6, <1>7 DEF ConsumerInv

\* A batch starts where everything before is settled.
LEMMA PollInv ==
    ASSUME ConsumerInv, NEW c \in Consumers, Poll(c) PROVE ConsumerInv'
<1>1. TypeOK /\ MemberInv /\ BelowSettled(committed)
  BY DEF ConsumerInv
<1>2. Offsets' = Offsets /\ \A o \in Offsets : Settled(o) => Settled(o)'
  BY <1>1, SameSettled DEF Poll, groupVars
<1>3. PICK n \in fetched[c]..Len(log) :
         /\ last' = [last EXCEPT ![c] = n]
         /\ fetched' = [fetched EXCEPT ![c] = n + 1]
  BY DEF Poll
<1>4. fetched[c] \in 1..Len(log) + 1 /\ fetched[c] \in 1..Len(log) /\ n \in 1..Len(log)
  BY <1>1, <1>3, LogFacts DEF TypeOK
<1>5. TypeOK'
  <2>1. Len(log) \in Nat /\ log' = log
    BY <1>1, LogFacts DEF Poll, groupVars
  <2> QED
    BY <2>1, <1>1, <1>2, <1>3, <1>4, ConsumerAssumption
    DEF TypeOK, Poll, attemptVars, Goto, Steps, Busy, groupVars, results
<1>6. /\ pc'[c] = "check" /\ last'[c] = n /\ fetched'[c] = n + 1
      /\ position'[c] = fetched[c] /\ unexpected' = unexpected
      /\ \A d \in Consumers \ {c} :
            /\ pc'[d] = pc[d] /\ last'[d] = last[d] /\ fetched'[d] = fetched[d]
            /\ position'[d] = position[d]
  BY <1>1, <1>3 DEF Poll, attemptVars, Goto, TypeOK
<1>7. owner' = owner /\ committed' = committed /\ log' = log
  BY DEF Poll, groupVars
<1>8. BelowSettled(fetched[c]) /\ unexpected[c] < MaxAttempts
  BY <1>1 DEF Poll, At, MemberInv, MemberOk
<1>9. MemberInv'
  <2>1. ASSUME NEW d \in Consumers \ {c} PROVE MemberOk(d)'
    BY <1>1, <1>2, <1>6, <1>7, KeptMember DEF MemberInv
  <2>2. BelowSettled(position[c])'
    BY <1>2, <1>6, <1>8 DEF BelowSettled
  <2>3. MemberOk(c)'
    BY <1>1, <1>3, <1>4, <1>6, <1>7, <1>8, <2>2, LogFacts, ConsumerAssumption DEF MemberOk, Busy, Offsets
  <2> QED
    BY <2>1, <2>3 DEF MemberInv
<1>10. BelowSettled(committed)'
  BY <1>1, <1>2, <1>7 DEF BelowSettled
<1> QED
  BY <1>5, <1>9, <1>10 DEF ConsumerInv

\* The offset committed has the settled record just behind it.
LEMMA CommitInv ==
    ASSUME ConsumerInv, NEW c \in Consumers, Commit(c) PROVE ConsumerInv'
<1>1. TypeOK /\ MemberInv /\ BelowSettled(committed)
  BY DEF ConsumerInv
<1>2. Offsets' = Offsets /\ \A o \in Offsets : Settled(o) => Settled(o)'
  BY <1>1, SameSettled DEF Commit
<1>3. /\ pc[c] = "commit" /\ position[c] \in Offsets /\ position[c] <= last[c]
      /\ BelowSettled(position[c]) /\ Settled(position[c])
      /\ fetched[c] = last[c] + 1 \/ BelowSettled(fetched[c])
      /\ unexpected[c] < MaxAttempts
  BY <1>1 DEF Commit, At, MemberInv, MemberOk, Busy
<1>4. BelowSettled(position[c] + 1)
  BY <1>1, <1>3, LogFacts DEF BelowSettled
<1>5. position[c] + 1 \in 1..Len(log) + 1
  BY <1>1, <1>3, LogFacts
<1>6. TypeOK'
  BY <1>1, <1>5, ConsumerAssumption
  DEF TypeOK, Commit, attemptVars, Goto, Steps, Busy, Offsets, results
<1>7. /\ pc'[c] = IF position[c] < last[c] THEN "check" ELSE "poll"
      /\ position'[c] = position[c] + 1 /\ unexpected' = unexpected
      /\ \A d \in Consumers \ {c} :
            pc'[d] = pc[d] /\ position'[d] = position[d]
  BY <1>1 DEF Commit, attemptVars, Goto, TypeOK
<1>8. committed' = position[c] + 1 /\ UNCHANGED <<log, owner, last, fetched>>
  BY DEF Commit
<1>9. last[c] \in 0..Len(log)
  BY <1>1 DEF TypeOK
<1>10. ASSUME position[c] < last[c] PROVE position[c] + 1 \in Offsets /\ position[c] + 1 <= last[c]
  BY <1>1, <1>3, <1>9, <1>10, LogFacts
<1>11. ASSUME ~ (position[c] < last[c]) PROVE BelowSettled(fetched[c])
  <2>1. last[c] + 1 = position[c] + 1
    BY <1>1, <1>3, <1>9, <1>11, LogFacts
  <2> QED
    BY <1>3, <1>4, <2>1
<1>12. MemberInv'
  <2>1. ASSUME NEW d \in Consumers \ {c} PROVE MemberOk(d)'
    BY <1>1, <1>2, <1>7, <1>8, KeptMember DEF MemberInv
  <2>2. BelowSettled(position[c])'
    BY <1>2, <1>4, <1>7 DEF BelowSettled
  <2>3. ASSUME position[c] < last[c] PROVE MemberOk(c)'
    <3>1. fetched'[c] = last'[c] + 1 \/ BelowSettled(fetched[c])'
      BY <1>2, <1>3, <1>8 DEF BelowSettled
    <3> QED
      BY <2>2, <2>3, <3>1, <1>3, <1>7, <1>8, <1>10 DEF MemberOk, Busy, Offsets
  <2>4. ASSUME ~ (position[c] < last[c]) PROVE MemberOk(c)'
    <3>1. BelowSettled(fetched[c])'
      BY <2>4, <1>2, <1>8, <1>11 DEF BelowSettled
    <3> QED
      BY <2>4, <3>1, <1>3, <1>7 DEF MemberOk, Busy
  <2> QED
    BY <2>1, <2>3, <2>4 DEF MemberInv
<1>13. BelowSettled(committed)'
  BY <1>2, <1>4, <1>8 DEF BelowSettled
<1> QED
  BY <1>6, <1>12, <1>13 DEF ConsumerInv

\* The attempts and outcomes of process(), which stay within the record.
LEMMA AttemptInv ==
    ASSUME ConsumerInv, NEW c \in Consumers, Attempt(c) PROVE ConsumerInv'
<1>1. TypeOK /\ MemberOk(c)
  BY DEF ConsumerInv, MemberInv
<1>2. pc[c] = "check" /\ unexpected[c] < MaxAttempts
  BY <1>1 DEF Attempt, At, MemberOk
<1> QED
  BY <1>1, <1>2, StayInv DEF Attempt, TypeOK, Busy, results, attemptVars

LEMMA PauseInv ==
    ASSUME ConsumerInv, NEW c \in Consumers, Pause(c) PROVE ConsumerInv'
<1>1. TypeOK /\ MemberOk(c)
  BY DEF ConsumerInv, MemberInv
<1>2. pc[c] = "pause" /\ unexpected[c] < MaxAttempts
  BY <1>1 DEF Pause, At, MemberOk
<1> QED
  BY <1>1, <1>2, StayInv DEF Pause, TypeOK, Busy, results, attemptVars

\* process() returns with its record settled.
LEMMA DoneInv ==
    ASSUME ConsumerInv, NEW c \in Consumers, pc[c] \in {"handle", "give_up"}, Done(c),
           Settled(position[c])', UNCHANGED <<groupVars, batchVars, stop, faults>>,
           stored' \in [Events -> Nat], dlq' \subseteq Offsets,
           dlq \subseteq dlq', \A e \in Events : stored[e] > 0 => stored'[e] > 0
    PROVE  ConsumerInv'
<1>1. TypeOK
  BY DEF ConsumerInv
<1>2. /\ unexpected' \in [Consumers -> 0..MaxAttempts] /\ unexpected'[c] = 0
      /\ \A d \in Consumers \ {c} : unexpected'[d] = unexpected[d]
      /\ waits' \in [Consumers -> Nat] /\ faults' \in 0..MaxFaults
  BY <1>1, ConsumerAssumption DEF Done, ResetCounters, TypeOK
<1>3. pc[c] \in Busy /\ Goto(c, "commit") /\ "commit" \in Busy /\ 0 < MaxAttempts
  BY ConsumerAssumption DEF Busy, Done
<1> QED
  BY <1>2, <1>3, StayInv

LEMMA StoreInv ==
    ASSUME ConsumerInv, NEW c \in Consumers, Store(c) PROVE ConsumerInv'
<1>1. TypeOK /\ MemberOk(c)
  BY DEF ConsumerInv, MemberInv
<1>2. pc[c] = "handle" /\ Record(c).kind = "order" /\ AddUnlessSeen(Record(c).event)
  BY DEF Store, At
<1>3. position[c] \in Offsets /\ Record(c).event \in Events
  BY <1>2, RecordFacts DEF Busy
<1>4. /\ stored' \in [Events -> Nat]
      /\ stored'[Record(c).event] > 0
      /\ \A f \in Events : stored[f] > 0 => stored'[f] > 0
  BY <1>1, <1>2, <1>3, AddFacts
<1>5. Settled(position[c])'
  BY <1>2, <1>4 DEF Store, Settled, Record, groupVars, batchVars
<1> QED
  BY <1>1, <1>2, <1>4, <1>5, DoneInv DEF Store, TypeOK

LEMMA SkipInv ==
    ASSUME ConsumerInv, NEW c \in Consumers, Skip(c) PROVE ConsumerInv'
<1>1. TypeOK
  BY DEF ConsumerInv
<1>2. Settled(position[c])'
  BY DEF Skip, Record, Settled, groupVars, batchVars
<1> QED
  BY <1>1, <1>2, DoneInv DEF Skip, At, TypeOK, results

LEMMA DeadLetterInv ==
    ASSUME ConsumerInv, NEW c \in Consumers, DeadLetter(c) PROVE ConsumerInv'
<1>1. TypeOK
  BY DEF ConsumerInv
<1>2. pc[c] \in Busy
  BY DEF DeadLetter, At, Busy
<1>3. position[c] \in Offsets
  BY <1>2, RecordFacts
<1>4. Settled(position[c])'
  BY DEF DeadLetter, Settled, batchVars
<1> QED
  BY <1>1, <1>2, <1>3, <1>4, DoneInv DEF DeadLetter, At, TypeOK

\* A failed attempt has stored or dead-lettered its record, or nothing.
LEMMA HalfwayFacts ==
    ASSUME ConsumerInv, NEW c \in Consumers, pc[c] = "handle", Halfway(c)
    PROVE  /\ stored' \in [Events -> Nat]
           /\ \A e \in Events : stored[e] > 0 => stored'[e] > 0
           /\ (\A e \in Events : stored[e] <= 1) => \A e \in Events : stored'[e] <= 1
           /\ dlq \subseteq dlq' /\ dlq' \subseteq Offsets
<1>1. TypeOK
  BY DEF ConsumerInv
<1>2. position[c] \in Offsets /\ (Record(c).kind = "order" => Record(c).event \in Events)
  BY RecordFacts DEF Busy
<1>3. CASE UNCHANGED results
  BY <1>1, <1>3 DEF TypeOK, results
<1>4. CASE Record(c).kind = "order" /\ AddUnlessSeen(Record(c).event) /\ UNCHANGED dlq
  BY <1>1, <1>2, <1>4, AddFacts DEF TypeOK
<1>5. CASE Record(c).kind = "unreadable" /\ dlq' = dlq \union {position[c]} /\ UNCHANGED stored
  BY <1>1, <1>2, <1>5 DEF TypeOK
<1> QED
  BY <1>3, <1>4, <1>5 DEF Halfway

LEMMA FailTransientlyInv ==
    ASSUME ConsumerInv, NEW c \in Consumers, FailTransiently(c) PROVE ConsumerInv'
<1>1. TypeOK /\ MemberOk(c)
  BY DEF ConsumerInv, MemberInv
<1>2. pc[c] = "handle" /\ unexpected[c] < MaxAttempts /\ Halfway(c) /\ Goto(c, "pause")
  BY <1>1 DEF FailTransiently, At, MemberOk
<1>3. faults' \in 0..MaxFaults
  BY <1>1, FaultType DEF FailTransiently, TypeOK
<1>4. waits' \in [Consumers -> Nat]
  BY <1>1 DEF FailTransiently, TypeOK
<1>5. UNCHANGED <<groupVars, batchVars, unexpected, stop>>
  BY DEF FailTransiently
<1> QED
  BY <1>1, <1>2, <1>3, <1>4, <1>5, HalfwayFacts, StayInv DEF TypeOK, Busy

LEMMA FailUnexpectedlyInv ==
    ASSUME ConsumerInv, NEW c \in Consumers, FailUnexpectedly(c) PROVE ConsumerInv'
<1> DEFINE step == IF unexpected[c] + 1 >= MaxAttempts THEN "give_up" ELSE "check"
<1>1. TypeOK /\ MemberOk(c)
  BY DEF ConsumerInv, MemberInv
<1>2. pc[c] = "handle" /\ unexpected[c] < MaxAttempts
  BY <1>1 DEF FailUnexpectedly, At, MemberOk
<1>3. /\ unexpected' = [unexpected EXCEPT ![c] = @ + 1] /\ Goto(c, step) /\ Halfway(c)
      /\ UNCHANGED <<groupVars, batchVars, waits, stop, faults>>
  BY DEF FailUnexpectedly
<1>4. unexpected[c] \in 0..MaxAttempts
  BY <1>1 DEF TypeOK
<1>5. /\ unexpected' \in [Consumers -> 0..MaxAttempts]
      /\ unexpected'[c] = unexpected[c] + 1
      /\ \A d \in Consumers \ {c} : unexpected'[d] = unexpected[d]
  BY <1>1, <1>2, <1>3, <1>4, ConsumerAssumption DEF TypeOK
<1>6. /\ step \in Busy /\ step # "commit"
      /\ step # "give_up" => unexpected'[c] < MaxAttempts
  BY <1>4, <1>5, ConsumerAssumption DEF Busy
<1>7. faults' \in 0..MaxFaults /\ waits' \in [Consumers -> Nat]
  BY <1>1, <1>3 DEF TypeOK
<1>8. pc[c] \in Busy
  BY <1>2 DEF Busy
<1> HIDE DEF step
<1> QED
  BY <1>2, <1>3, <1>5, <1>6, <1>7, <1>8, HalfwayFacts, StayInv

\* SIGTERM and a restart move nothing that counts.
LEMMA TerminateInv ==
    ASSUME ConsumerInv, NEW c \in Consumers, Terminate(c) PROVE ConsumerInv'
<1>1. TypeOK /\ MemberInv /\ BelowSettled(committed)
  BY DEF ConsumerInv
<1>2. Offsets' = Offsets /\ \A o \in Offsets : Settled(o) => Settled(o)'
  BY <1>1, SameSettled DEF Terminate, groupVars
<1>3. TypeOK'
  BY <1>1, FaultType DEF TypeOK, Terminate, Offsets, groupVars, results, batchVars, attemptVars
<1>4. UNCHANGED <<log, committed, owner, pc, position, last, fetched, unexpected>>
  BY DEF Terminate, groupVars, batchVars, attemptVars
<1>5. MemberInv' /\ BelowSettled(committed)'
  BY <1>1, <1>2, <1>4, KeptMember DEF MemberInv, BelowSettled, Offsets
<1> QED
  BY <1>3, <1>5 DEF ConsumerInv

LEMMA RestartInv ==
    ASSUME ConsumerInv, NEW c \in Consumers, Restart(c) PROVE ConsumerInv'
<1>1. TypeOK /\ MemberInv /\ BelowSettled(committed)
  BY DEF ConsumerInv
<1>2. Offsets' = Offsets /\ \A o \in Offsets : Settled(o) => Settled(o)'
  BY <1>1, SameSettled DEF Restart, groupVars
<1>3. TypeOK'
  BY <1>1 DEF TypeOK, Restart, Goto, Steps, Offsets, groupVars, results, batchVars, attemptVars
<1>4. /\ pc[c] = "down" /\ pc'[c] = "poll"
      /\ \A d \in Consumers \ {c} : pc'[d] = pc[d]
      /\ UNCHANGED <<log, committed, owner, position, last, fetched, unexpected>>
  BY <1>1 DEF Restart, At, Goto, TypeOK, groupVars, batchVars, attemptVars
<1>5. ASSUME NEW d \in Consumers \ {c} PROVE MemberOk(d)'
  BY <1>1, <1>2, <1>4, KeptMember DEF MemberInv
<1>6. MemberOk(c)'
  <2>1. owner' = c => BelowSettled(fetched[c])
    BY <1>1, <1>4 DEF MemberInv, MemberOk
  <2>2. owner' = c => BelowSettled(fetched[c])'
    BY <1>2, <1>4, <2>1 DEF BelowSettled, Offsets
  <2>3. unexpected[c] < MaxAttempts
    BY <1>1, <1>4 DEF MemberInv, MemberOk
  <2> QED
    BY <1>4, <2>2, <2>3 DEF MemberOk, Busy
<1>7. BelowSettled(committed)'
  BY <1>1, <1>2, <1>4 DEF BelowSettled, Offsets
<1> QED
  BY <1>3, <1>5, <1>6, <1>7 DEF ConsumerInv, MemberInv

\* A record appended lies beyond every offset the group knows of.
LEMMA ProduceInv ==
    ASSUME ConsumerInv, NEW record \in Records, Produce(record) PROVE ConsumerInv'
<1>1. TypeOK /\ MemberInv /\ BelowSettled(committed)
  BY DEF ConsumerInv
<1>2. log \in Seq(Records) /\ Len(log) < LogSize /\ log' = Append(log, record)
  BY <1>1 DEF Produce, TypeOK
<1>3. /\ log' \in Seq(Records) /\ Len(log') = Len(log) + 1
      /\ \A o \in 1..Len(log) : log'[o] = log[o]
  BY <1>2
<1>4. Len(log) \in 0..LogSize /\ Offsets = 1..Len(log)
  BY <1>1, LogFacts
<1>5. UNCHANGED <<stored, dlq, committed, owner, pc, position, last, fetched, unexpected, waits,
                  stop, faults>>
  BY DEF Produce, results, batchVars, attemptVars
<1>6. TypeOK'
  <2>1. Offsets' = 1..Len(log) + 1
    BY <1>3, <1>4 DEF Offsets
  <2>2. dlq' \subseteq Offsets'
    BY <2>1, <1>1, <1>4, <1>5 DEF TypeOK
  <2>3. log' \in Seq(Records) /\ Len(log') <= LogSize
    BY <1>2, <1>3, <1>4, ConsumerAssumption
  <2>4. 1..Len(log) + 1 \subseteq 1..Len(log') + 1 /\ 0..Len(log) \subseteq 0..Len(log')
    BY <1>3, <1>4
  <2>5. /\ committed \in 1..Len(log') + 1
        /\ position \in [Consumers -> 1..Len(log') + 1]
        /\ last \in [Consumers -> 0..Len(log')]
        /\ fetched \in [Consumers -> 1..Len(log') + 1]
    BY <2>4, <1>1 DEF TypeOK
  <2> QED
    BY <2>2, <2>3, <2>5, <1>1, <1>5 DEF TypeOK
<1>7. Offsets' = 1..Len(log) + 1
  BY <1>3, <1>4 DEF Offsets
<1>8. \A o \in Offsets : Settled(o) => Settled(o)'
  BY <1>3, <1>4, <1>5 DEF Settled
<1>9. \A n \in 1..Len(log) + 1 : BelowSettled(n) => BelowSettled(n)'
  <2> SUFFICES ASSUME NEW n \in 1..Len(log) + 1, BelowSettled(n), NEW o \in Offsets', o < n
               PROVE  Settled(o)'
    BY DEF BelowSettled
  <2>1. o \in Offsets
    BY <1>4, <1>7
  <2> QED
    BY <2>1, <1>8 DEF BelowSettled
<1>10. ASSUME NEW c \in Consumers PROVE MemberOk(c)'
  <2>1. MemberOk(c)
    BY <1>1 DEF MemberInv
  <2>2. position[c] \in 1..Len(log) + 1 /\ fetched[c] \in 1..Len(log) + 1
    BY <1>1 DEF TypeOK
  <2>3. pc[c] = "commit" => Settled(position[c])'
    BY <2>1, <1>5, <1>8 DEF MemberOk, Busy, Settled
  <2> QED
    BY <2>1, <2>2, <2>3, <1>4, <1>5, <1>7, <1>9 DEF MemberOk
<1>11. BelowSettled(committed)'
  <2>1. committed \in 1..Len(log) + 1
    BY <1>1 DEF TypeOK
  <2> QED
    BY <2>1, <1>1, <1>5, <1>9
<1> QED
  BY <1>6, <1>10, <1>11 DEF ConsumerInv, MemberInv

\* Every step keeps the invariant.
LEMMA StepInv == ConsumerInv /\ [Next]_vars => ConsumerInv'
<1> SUFFICES ASSUME ConsumerInv, [Next]_vars PROVE ConsumerInv'
  OBVIOUS
<1>1. TypeOK
  BY DEF ConsumerInv
<1>2. UNCHANGED faults => faults' \in 0..MaxFaults
  BY <1>1 DEF TypeOK
<1>3. ASSUME NEW c \in Consumers, Assign(c) PROVE ConsumerInv'
  BY <1>3, AssignInv
<1>4. ASSUME NEW c \in Consumers, Poll(c) PROVE ConsumerInv'
  BY <1>4, PollInv
<1>5. ASSUME NEW c \in Consumers, Leave(c) PROVE ConsumerInv'
  BY <1>5, <1>2, ExitInv DEF Leave
<1>6. ASSUME NEW c \in Consumers, Attempt(c) PROVE ConsumerInv'
  BY <1>6, AttemptInv
<1>7. ASSUME NEW c \in Consumers, Handle(c) PROVE ConsumerInv'
  BY <1>7, StoreInv, SkipInv, DeadLetterInv DEF Handle
<1>8. ASSUME NEW c \in Consumers, FailTransiently(c) \/ FailUnexpectedly(c) PROVE ConsumerInv'
  BY <1>8, FailTransientlyInv, FailUnexpectedlyInv
<1>9. ASSUME NEW c \in Consumers, GiveUpFails(c) PROVE ConsumerInv'
  BY <1>9, <1>1, FaultType, ExitInv DEF GiveUpFails
<1>10. ASSUME NEW c \in Consumers, Commit(c) PROVE ConsumerInv'
  BY <1>10, CommitInv
<1>11. ASSUME NEW c \in Consumers, CommitFails(c) PROVE ConsumerInv'
  BY <1>11, <1>1, <1>2, FaultType, ExitInv DEF CommitFails
<1>12. ASSUME NEW c \in Consumers, Crash(c) PROVE ConsumerInv'
  BY <1>12, <1>1, FaultType, ExitInv DEF Crash
<1>13. ASSUME NEW c \in Consumers, Terminate(c) PROVE ConsumerInv'
  BY <1>13, TerminateInv
<1>14. ASSUME NEW c \in Consumers, Restart(c) PROVE ConsumerInv'
  BY <1>14, RestartInv
<1>15. ASSUME NEW c \in Consumers, Pause(c) \/ PauseOverflows(c) PROVE ConsumerInv'
  BY <1>15, <1>2, PauseInv, ExitInv DEF PauseOverflows
<1>16. ASSUME NEW record \in Records, Produce(record) PROVE ConsumerInv'
  BY <1>16, ProduceInv
<1>17. CASE UNCHANGED vars
  BY <1>17 DEF vars, ConsumerInv, TypeOK, MemberInv, MemberOk, BelowSettled, Settled, Offsets
<1> QED
  BY <1>3, <1>4, <1>5, <1>6, <1>7, <1>8, <1>9, <1>10, <1>11, <1>12, <1>13, <1>14, <1>15, <1>16, <1>17
  DEF Next, MemberNext

-----------------------------------------------------------------------------
(* The theorems.                                                            *)

\* Every reachable state has the types and the invariant of the members.
THEOREM ConsumerInvariant == Spec => []ConsumerInv
<1> QED
  BY InitInv, StepInv, PTL DEF Spec

\* Every variable keeps its type: no offset beyond the log, no counter beyond its limit.
THEOREM ConsumerTypes == Spec => []TypeOK
<1> QED
  BY ConsumerInvariant, PTL DEF ConsumerInv

\* No record behind the committed offset is lost: for any number of members,
\* crashes, stops, rebalances and failed calls, what the group will never
\* read again has its notification or its dead letter, or needs none.
THEOREM NothingIsSkipped == Spec => []NothingSkipped
<1>1. ConsumerInv => NothingSkipped
  <2> SUFFICES ASSUME ConsumerInv, NEW o \in 1..committed - 1 PROVE Settled(o)
    BY DEF NothingSkipped
  <2>1. committed \in 1..Len(log) + 1 /\ BelowSettled(committed) /\ TypeOK
    BY DEF ConsumerInv, TypeOK
  <2>2. o \in Offsets /\ o < committed
    BY <2>1, LogFacts
  <2> QED
    BY <2>1, <2>2 DEF BelowSettled, Offsets
<1> QED
  BY <1>1, ConsumerInvariant, PTL

\* INSERT ... ON CONFLICT DO NOTHING stores an event's notification once,
\* however often and by however many members the event is handled.
THEOREM NotifiedAtMostOnce == Spec => []NotifiedOnce
<1>1. Init => NotifiedOnce
  BY DEF Init, NotifiedOnce
<1>2. ConsumerInv /\ NotifiedOnce /\ [Next]_vars => NotifiedOnce'
  <2> SUFFICES ASSUME ConsumerInv, NotifiedOnce, [Next]_vars PROVE NotifiedOnce'
    OBVIOUS
  <2>1. TypeOK
    BY DEF ConsumerInv
  <2>2. CASE stored' = stored
    BY <2>2 DEF NotifiedOnce
  <2>3. ASSUME NEW c \in Consumers, Store(c) PROVE NotifiedOnce'
    BY <2>1, <2>3, RecordFacts, AddFacts DEF NotifiedOnce, Store, At, Busy
  <2>4. ASSUME NEW c \in Consumers, FailTransiently(c) \/ FailUnexpectedly(c) PROVE NotifiedOnce'
    BY <2>4, HalfwayFacts DEF NotifiedOnce, FailTransiently, FailUnexpectedly, At
  <2>5. \/ stored' = stored
        \/ \E c \in Consumers : Store(c) \/ FailTransiently(c) \/ FailUnexpectedly(c)
    BY DEF Next, MemberNext, vars, results, Handle, Produce, Assign, Poll, Leave, Attempt, Skip,
           DeadLetter, Pause, PauseOverflows, GiveUpFails, Commit, CommitFails, Crash, Terminate,
           Restart, Exit
  <2> QED
    BY <2>2, <2>3, <2>4, <2>5
<1> QED
  BY <1>1, <1>2, ConsumerInvariant, PTL DEF Spec

=============================================================================
