---------------------- MODULE NotificationOutboxProofs ----------------------
(***************************************************************************)
(* Theorems about NotificationOutbox, for any set of trade events, any     *)
(* bounds, and with or without notification-retry beside the cycle.        *)
(***************************************************************************)
EXTENDS NotificationOutbox, FiniteSetTheorems, TLAPS

-----------------------------------------------------------------------------
(* Types.  Unlike TypeOK, no bound on how often an event is sent.          *)

OutboxType ==
  /\ outbox \in [AllEvents -> {"NONE", "PENDING"} \cup Settled]
  /\ today \in Days /\ day \in Days
  /\ queue \subseteq AllEvents /\ cur \in AllEvents /\ verdict \in Verdicts
  /\ owner \in [pc : {"idle", "send", "mark"}, event : AllEvents, attempt : Nat,
                verdict : Verdicts]

\* There is an event: the summary of the first day.
LEMMA SomeEventIsEvent == SomeEvent \in AllEvents /\ Resting.event \in AllEvents
<1>1. Summary(1) \in AllEvents
  BY OutboxAssumption DEF AllEvents, Days
<1> QED
  BY <1>1 DEF SomeEvent, Resting

LEMMA SummariesAreEvents == \A d \in Days : Summary(d) \in AllEvents
  BY DEF AllEvents

LEMMA EnqueuedType ==
  ASSUME OutboxType, NEW events
  PROVE  /\ Enqueued(events) \in [AllEvents -> {"NONE", "PENDING"} \cup Settled]
         /\ \A e \in AllEvents : outbox[e] # "NONE" => Enqueued(events)[e] = outbox[e]
         /\ \A e \in AllEvents : Enqueued(events)[e] = outbox[e] \/ Enqueued(events)[e] = "PENDING"
  BY DEF OutboxType, Enqueued

LEMMA VerdictType == \A reply \in Replies : Verdict(reply) \in Verdicts
  BY DEF Replies, Verdict, Verdicts

LEMMA InitType == Init => OutboxType
<1> SUFFICES ASSUME Init PROVE OutboxType
  OBVIOUS
<1>1. SomeEvent \in AllEvents
  BY SomeEventIsEvent
<1>2. 1 \in Days
  BY OutboxAssumption DEF Days
<1> QED
  BY <1>1, <1>2 DEF Init, OutboxType, Resting, Verdicts, Settled

LEMMA NextType == OutboxType /\ [Next]_vars => OutboxType'
<1> SUFFICES ASSUME OutboxType, [Next]_vars PROVE OutboxType'
  OBVIOUS
<1> USE DEF OutboxType
<1>1. CASE StartCycle
  BY <1>1, EnqueuedType DEF StartCycle, outside
<1>2. CASE ListPending
  BY <1>2 DEF ListPending, Pending, tables, outside
<1>a. ASSUME NEW e \in AllEvents, NEW n, FlushPosts(e, n) PROVE OutboxType'
  <2>1. PICK reply \in Replies : verdict' = verdict \/ verdict' = Verdict(reply)
    BY <1>a DEF FlushPosts
  <2>2. verdict' \in Verdicts
    BY <2>1, VerdictType
  <2> QED
    BY <1>a, <2>2 DEF FlushPosts, tables
<1>3. CASE SendNext \/ SendAgain
  BY <1>3, <1>a DEF SendNext, SendAgain
<1>4. CASE MarkSent
  BY <1>4, SomeEventIsEvent DEF MarkSent, Released, Status, Settled, Verdicts, outside
<1>5. CASE FlushDone
  BY <1>5 DEF FlushDone, AfterFlush, EndCycle, tables, outside
<1>6. CASE NoSummary
  BY <1>6 DEF NoSummary, EndCycle, tables, outside
<1>7. CASE EnqueueSummary
  BY <1>7, EnqueuedType DEF EnqueueSummary, outside
<1>8. CASE RecordSummary
  BY <1>8 DEF RecordSummary, outside
<1>9. CASE FlushBreaksOff
  BY <1>9, SomeEventIsEvent
     DEF FlushBreaksOff, AfterFlush, EndCycle, Released, Verdicts, tables
<1>10. CASE Crash
  BY <1>10, SomeEventIsEvent DEF Crash, EndCycle, Released, Verdicts, tables
<1>11. CASE RetryStart
  BY <1>11 DEF RetryStart, tables, flush, outside
<1>12. CASE RetrySend
  <2>1. PICK reply \in Replies :
          owner' = IF PostsAgain(reply, owner.attempt + 1)
                   THEN [owner EXCEPT !.attempt = @ + 1]
                   ELSE [owner EXCEPT !.pc = "mark", !.attempt = 0, !.verdict = Verdict(reply)]
    BY <1>12 DEF RetrySend
  <2>2. Verdict(reply) \in Verdicts /\ owner.attempt + 1 \in Nat
    BY VerdictType
  <2> QED
    BY <1>12, <2>1, <2>2 DEF RetrySend, tables, flush
<1>13. CASE RetryMark
  BY <1>13, SomeEventIsEvent DEF RetryMark, Status, Settled, Resting, Verdicts, flush, outside
<1>14. CASE RetryCrash
  BY <1>14, SomeEventIsEvent DEF RetryCrash, Resting, Verdicts, tables, flush, outside
<1>15. CASE NextDay
  BY <1>15, OutboxAssumption DEF NextDay, Days, tables, flush
<1>16. CASE ToggleDisabled
  BY <1>16 DEF ToggleDisabled, tables, flush
<1>17. CASE UNCHANGED vars
  BY <1>17 DEF vars, tables, flush, outside
<1> QED
  BY <1>1, <1>2, <1>3, <1>4, <1>5, <1>6, <1>7, <1>8, <1>9, <1>10, <1>11, <1>12,
     <1>13, <1>14, <1>15, <1>16, <1>17 DEF Next, Cycle

-----------------------------------------------------------------------------
(* SENT is never guessed.                                                  *)

DeliveryInv ==
  /\ OutboxType
  /\ SentIsDelivered
  /\ pc = "mark" /\ verdict = "SENT" => cur \in reached
  /\ owner.pc = "mark" /\ owner.verdict = "SENT" => owner.event \in reached

\* A post never undoes a delivery, and the client says SENT of none that failed.
LEMMA PostDelivers ==
  ASSUME NEW e, NEW reply, Post(e, reply)
  PROVE  reached \subseteq reached' /\ (Verdict(reply) = "SENT" => e \in reached')
  BY DEF Post, Outcomes, Verdict

LEMMA InitDelivery == Init => DeliveryInv
<1> SUFFICES ASSUME Init PROVE DeliveryInv
  OBVIOUS
<1>1. OutboxType
  BY InitType
<1> QED
  BY <1>1 DEF Init, DeliveryInv, SentIsDelivered, Resting

LEMMA NextDelivery == DeliveryInv /\ [Next]_vars => DeliveryInv'
<1> SUFFICES ASSUME DeliveryInv, [Next]_vars PROVE DeliveryInv'
  OBVIOUS
<1>0. OutboxType /\ OutboxType'
  BY NextType DEF DeliveryInv
<1> USE <1>0 DEF DeliveryInv, SentIsDelivered
<1>1. CASE StartCycle
  <2>1. PICK new \in SUBSET {e \in TradeEvents : outbox[e] = "NONE"} : outbox' = Enqueued(new)
    BY <1>1 DEF StartCycle
  <2> QED
    BY <1>1, <2>1, EnqueuedType DEF StartCycle, outside
<1>2. CASE ListPending
  BY <1>2 DEF ListPending, tables, outside
<1>a. ASSUME NEW e, NEW n, FlushPosts(e, n) PROVE DeliveryInv'
  <2>1. PICK reply \in Replies :
          Post(e, reply) /\ (pc' # "mark" \/ verdict' = Verdict(reply))
    BY <1>a DEF FlushPosts
  <2>2. reached \subseteq reached' /\ (Verdict(reply) = "SENT" => e \in reached')
    BY <2>1, PostDelivers
  <2> QED
    BY <1>a, <2>1, <2>2 DEF FlushPosts, tables
<1>3. CASE SendNext \/ SendAgain
  BY <1>3, <1>a DEF SendNext, SendAgain
<1>4. CASE MarkSent
  BY <1>4 DEF MarkSent, Status, OutboxType, outside
<1>5. CASE FlushDone
  BY <1>5 DEF FlushDone, AfterFlush, EndCycle, tables, outside
<1>6. CASE NoSummary
  BY <1>6 DEF NoSummary, EndCycle, tables, outside
<1>7. CASE EnqueueSummary
  BY <1>7, EnqueuedType DEF EnqueueSummary, outside
<1>8. CASE RecordSummary
  BY <1>8 DEF RecordSummary, outside
<1>9. CASE FlushBreaksOff
  BY <1>9 DEF FlushBreaksOff, AfterFlush, EndCycle, tables
<1>10. CASE Crash
  BY <1>10 DEF Crash, EndCycle, tables
<1>11. CASE RetryStart
  BY <1>11 DEF RetryStart, OutboxType, tables, flush, outside
<1>12. CASE RetrySend
  <2>1. PICK reply \in Replies :
          /\ Post(owner.event, reply)
          /\ owner' = IF PostsAgain(reply, owner.attempt + 1)
                      THEN [owner EXCEPT !.attempt = @ + 1]
                      ELSE [owner EXCEPT !.pc = "mark", !.attempt = 0, !.verdict = Verdict(reply)]
    BY <1>12 DEF RetrySend
  <2>2. owner'.event = owner.event /\ (owner'.pc # "mark" \/ owner'.verdict = Verdict(reply))
    BY <1>12, <2>1 DEF OutboxType, RetrySend
  <2>3. reached \subseteq reached' /\ (Verdict(reply) = "SENT" => owner.event \in reached')
    BY <2>1, PostDelivers
  <2> QED
    BY <1>12, <2>2, <2>3 DEF RetrySend, tables, flush
<1>13. CASE RetryMark
  BY <1>13 DEF RetryMark, Status, OutboxType, Resting, flush, outside
<1>14. CASE RetryCrash
  BY <1>14 DEF RetryCrash, Resting, tables, flush, outside
<1>15. CASE NextDay
  BY <1>15 DEF NextDay, tables, flush
<1>16. CASE ToggleDisabled
  BY <1>16 DEF ToggleDisabled, tables, flush
<1>17. CASE UNCHANGED vars
  BY <1>17 DEF vars, tables, flush, outside
<1> QED
  BY <1>1, <1>2, <1>3, <1>4, <1>5, <1>6, <1>7, <1>8, <1>9, <1>10, <1>11, <1>12,
     <1>13, <1>14, <1>15, <1>16, <1>17 DEF Next, Cycle

\* An event the outbox calls SENT has reached the chat, however flush and manual
\* retry interleave, crash or overwrite each other's status.
THEOREM SentMeansDelivered == Spec => []SentIsDelivered
<1>1. DeliveryInv => SentIsDelivered
  BY DEF DeliveryInv
<1> QED
  BY <1>1, InitDelivery, NextDelivery, PTL DEF Spec

-----------------------------------------------------------------------------
(* The daily summary's two commits.                                        *)

SummaryInv ==
  /\ OutboxType
  /\ lastSummary \in {0} \cup Days
  /\ SummaryNotLost
  /\ pc = "date" => outbox[Summary(day)] # "NONE"

\* What a step may do to the outbox: enqueue an event, or record a verdict.
OutboxGrows ==
  \A e \in AllEvents :
    \/ outbox'[e] = outbox[e]
    \/ outbox[e] = "NONE" /\ outbox'[e] = "PENDING"
    \/ outbox'[e] \in Settled

LEMMA StepGrows == OutboxType /\ [Next]_vars => OutboxGrows
<1> SUFFICES ASSUME OutboxType, [Next]_vars PROVE OutboxGrows
  OBVIOUS
<1> USE DEF OutboxGrows
<1>1. ASSUME NEW events, outbox' = Enqueued(events) PROVE OutboxGrows
  BY <1>1 DEF Enqueued
<1>2. CASE StartCycle
  <2>1. PICK new \in SUBSET {e \in TradeEvents : outbox[e] = "NONE"} : outbox' = Enqueued(new)
    BY <1>2 DEF StartCycle
  <2> QED
    BY <2>1, <1>1
<1>3. CASE EnqueueSummary
  BY <1>3, <1>1 DEF EnqueueSummary
<1>4. CASE MarkSent
  BY <1>4 DEF MarkSent, Status, OutboxType, Settled
<1>5. CASE RetryMark
  BY <1>5 DEF RetryMark, Status, OutboxType, Settled
<1>6. CASE UNCHANGED outbox
  BY <1>6
<1> QED
  BY <1>2, <1>3, <1>4, <1>5, <1>6
     DEF Next, Cycle, ListPending, SendNext, SendAgain, FlushPosts, FlushDone, NoSummary, RecordSummary,
         FlushBreaksOff, Crash, RetryStart, RetrySend, RetryCrash, NextDay,
         ToggleDisabled, vars, tables

LEMMA NextSummary == SummaryInv /\ [Next]_vars => SummaryInv'
<1> SUFFICES ASSUME SummaryInv, [Next]_vars PROVE SummaryInv'
  OBVIOUS
<1>0. OutboxType /\ OutboxType' /\ OutboxGrows
  BY NextType, StepGrows DEF SummaryInv
<1>1. \A d \in Days : outbox[Summary(d)] # "NONE" => outbox'[Summary(d)] # "NONE"
  BY <1>0, SummariesAreEvents DEF OutboxGrows, Settled, Verdicts
<1>2. day \in Days /\ today \in Days /\ (lastSummary # 0 => lastSummary \in Days)
  BY <1>0 DEF SummaryInv, OutboxType
<1> USE DEF SummaryInv, SummaryNotLost
<1>3. CASE EnqueueSummary
  <2>1. outbox'[Summary(today)] # "NONE"
    BY <1>3, <1>2, SummariesAreEvents DEF EnqueueSummary, Enqueued
  <2> QED
    BY <1>0, <1>1, <1>2, <1>3, <2>1 DEF EnqueueSummary
<1>4. CASE RecordSummary
  BY <1>0, <1>1, <1>2, <1>4 DEF RecordSummary
<1>5. CASE pc' # "date" /\ UNCHANGED lastSummary
  BY <1>0, <1>1, <1>2, <1>5
<1>6. CASE UNCHANGED <<pc, day, lastSummary>>
  BY <1>0, <1>1, <1>2, <1>6
<1> QED
  BY <1>3, <1>4, <1>5, <1>6
     DEF Next, Cycle, StartCycle, ListPending, SendNext, SendAgain, FlushPosts, MarkSent, FlushDone, NoSummary,
         FlushBreaksOff, AfterFlush, EndCycle, Crash, RetryStart, RetrySend, RetryMark,
         RetryCrash, NextDay, ToggleDisabled, vars, tables, flush

\* No crash between the summary's two commits, and no failing flush, loses the
\* summary of a date that is recorded as done.
THEOREM SummaryIsKept == Spec => []SummaryNotLost
<1>1. Init => SummaryInv
  BY InitType DEF Init, SummaryInv, SummaryNotLost
<1>2. SummaryInv => SummaryNotLost
  BY DEF SummaryInv
<1> QED
  BY <1>1, <1>2, NextSummary, PTL DEF Spec

\* Enqueuing an event once more, as the cycle after a crash does, never makes an
\* attempted event pending again.
THEOREM AttemptedStaysAttempted == Spec => SettledStays
<1> DEFINE Stays == \A e \in AllEvents : outbox[e] \in Settled => outbox'[e] # "PENDING"
<1>1. OutboxType /\ [Next]_vars => [Stays]_outbox
  <2>1. OutboxGrows => Stays
    BY DEF OutboxGrows, Settled, Verdicts
  <2> QED
    BY <2>1, StepGrows
<1>2. SettledStays <=> [][Stays]_outbox
  BY DEF SettledStays
<1> HIDE DEF Stays
<1> QED
  BY <1>1, <1>2, InitType, NextType, PTL DEF Spec

-----------------------------------------------------------------------------
(* Without notification-retry beside it, a flush works on current events.  *)

QueueInv ==
  /\ OutboxType
  /\ sends \in [AllEvents -> Nat]
  /\ owner.pc = "idle"
  /\ pc \in {"send", "backoff", "mark"} => \A e \in queue : outbox[e] = "PENDING"
  /\ pc \in {"backoff", "mark"} => cur \in queue

LEMMA InitQueue == Init => QueueInv
<1> SUFFICES ASSUME Init PROVE QueueInv
  OBVIOUS
<1>1. OutboxType
  BY InitType
<1> QED
  BY <1>1 DEF Init, QueueInv, Resting

LEMMA NextQueue ==
  ASSUME Retries = FALSE
  PROVE  QueueInv /\ [Next]_vars => QueueInv'
<1> SUFFICES ASSUME QueueInv, [Next]_vars PROVE QueueInv'
  OBVIOUS
<1>0. OutboxType /\ OutboxType'
  BY NextType DEF QueueInv
<1> USE <1>0 DEF QueueInv
<1>1. CASE StartCycle
  BY <1>1 DEF StartCycle, outside
<1>2. CASE ListPending
  BY <1>2 DEF ListPending, Pending, tables, outside
<1>3. CASE SendNext \/ SendAgain
  <2>1. PICK e \in queue, n \in {1, attempt + 1} : pc \in {"send", "backoff"} /\ FlushPosts(e, n)
    BY <1>3 DEF SendNext, SendAgain
  <2>2. cur' = e /\ sends' = [sends EXCEPT ![e] = @ + 1]
    BY <2>1 DEF FlushPosts
  <2>3. sends' \in [AllEvents -> Nat]
    <3>1. e \in AllEvents /\ sends[e] + 1 \in Nat
      BY DEF OutboxType
    <3> QED
      BY <2>2, <3>1
  <2> QED
    BY <2>1, <2>2, <2>3 DEF FlushPosts, tables
<1>4. CASE MarkSent
  BY <1>4 DEF MarkSent, Status, OutboxType, outside
<1>5. CASE FlushDone
  BY <1>5 DEF FlushDone, AfterFlush, EndCycle, tables, outside
<1>6. CASE NoSummary
  BY <1>6 DEF NoSummary, EndCycle, tables, outside
<1>7. CASE EnqueueSummary
  BY <1>7 DEF EnqueueSummary, outside
<1>8. CASE RecordSummary
  BY <1>8 DEF RecordSummary, outside
<1>9. CASE FlushBreaksOff
  BY <1>9 DEF FlushBreaksOff, AfterFlush, EndCycle, tables
<1>10. CASE Crash
  BY <1>10 DEF Crash, EndCycle, tables
<1>11. CASE RetryStart \/ RetrySend \/ RetryMark \/ RetryCrash
  BY <1>11 DEF RetryStart, RetrySend, RetryMark, RetryCrash
<1>12. CASE NextDay
  BY <1>12 DEF NextDay, tables, flush
<1>13. CASE ToggleDisabled
  BY <1>13 DEF ToggleDisabled, tables, flush
<1>14. CASE UNCHANGED vars
  BY <1>14 DEF vars, tables, flush, outside
<1> QED
  BY <1>1, <1>2, <1>3, <1>4, <1>5, <1>6, <1>7, <1>8, <1>9, <1>10, <1>11, <1>12,
     <1>13, <1>14 DEF Next, Cycle

\* Without the manual retry, no flush sends an event whose delivery is unknown.
\* The assumption is needed: a retry may take up an event a flush has listed.
THEOREM NoAmbiguousResend == Retries = FALSE => (Spec => AmbiguousNotResent)
<1> SUFFICES ASSUME Retries = FALSE PROVE Spec => AmbiguousNotResent
  OBVIOUS
<1> DEFINE Once == \A e \in AllEvents : outbox[e] = "AMBIGUOUS" => sends'[e] = sends[e]
<1>1. QueueInv /\ [Next]_vars => [Once]_sends
  <2> SUFFICES ASSUME QueueInv, [Next]_vars PROVE [Once]_sends
    OBVIOUS
  <2>1. CASE SendNext \/ SendAgain
    <3>1. PICK e \in queue : sends' = [sends EXCEPT ![e] = @ + 1]
      BY <2>1 DEF SendNext, SendAgain, FlushPosts, QueueInv
    <3>2. outbox[e] = "PENDING"
      BY <2>1 DEF SendNext, SendAgain, QueueInv
    <3> QED
      BY <3>1, <3>2 DEF QueueInv
  <2>2. CASE ~(SendNext \/ SendAgain)
    BY <2>2 DEF Next, Cycle, StartCycle, ListPending, MarkSent, FlushDone, NoSummary,
                EnqueueSummary, RecordSummary, FlushBreaksOff, Crash, RetryStart, RetrySend,
                RetryMark, RetryCrash, NextDay, ToggleDisabled, vars, outside
  <2> QED
    BY <2>1, <2>2
<1>2. AmbiguousNotResent <=> [][Once]_sends
  BY DEF AmbiguousNotResent
<1>3. QueueInv /\ [Next]_vars => QueueInv'
  BY NextQueue
<1> HIDE DEF Once
<1> QED
  BY <1>1, <1>2, <1>3, InitQueue, PTL DEF Spec

-----------------------------------------------------------------------------
(* A repeated message costs a failure, or a connection that failed before  *)
(* the last attempt.  The posts of an event that no recorded status        *)
(* accounts for are wasted: all of them while it is still to be sent, all  *)
(* but one once its status is written or about to be.                      *)

InHand(e)  == pc = "mark" /\ cur = e
OverAndDone(e) == outbox[e] \in Settled /\ e \notin queue
Wasted(e)  == IF OverAndDone(e) \/ InHand(e) THEN sends[e] - 1 ELSE sends[e]
WastedSends == {w \in AllEvents \X (Nat \ {0}) : w[2] <= Wasted(w[1])}

RepeatInv ==
  /\ OutboxType
  /\ sends \in [AllEvents -> Nat] /\ failures \in Nat /\ backoffs \in Nat
  /\ pc \notin {"send", "backoff", "mark"} => queue = {}
  /\ pc \in {"backoff", "mark"} => cur \in queue
  /\ IsFiniteSet(WastedSends) /\ Cardinality(WastedSends) <= failures + backoffs

\* No event is wasted more often than before: nothing to account for.
LEMMA NoMoreWasted ==
  ASSUME RepeatInv, failures' = failures, backoffs' = backoffs, sends' \in [AllEvents -> Nat],
         \A e \in AllEvents : Wasted(e)' <= Wasted(e)
  PROVE  IsFiniteSet(WastedSends') /\ Cardinality(WastedSends') <= failures' + backoffs'
<1>1. \A e \in AllEvents : Wasted(e) \in Int /\ Wasted(e)' \in Int
  BY DEF RepeatInv, Wasted
<1>2. WastedSends' \subseteq WastedSends
  <2> SUFFICES ASSUME NEW w \in WastedSends' PROVE w \in WastedSends
    OBVIOUS
  <2>1. w \in AllEvents \X (Nat \ {0}) /\ w[2] <= Wasted(w[1])'
    BY DEF WastedSends
  <2>2. w[1] \in AllEvents /\ w[2] \in Nat
    BY <2>1
  <2>3. w[2] <= Wasted(w[1])
    BY <1>1, <2>1, <2>2
  <2> QED
    BY <2>1, <2>3 DEF WastedSends
<1>3. IsFiniteSet(WastedSends') /\ Cardinality(WastedSends') <= Cardinality(WastedSends)
  BY <1>2, FS_Subset DEF RepeatInv
<1>4. Cardinality(WastedSends) \in Nat /\ Cardinality(WastedSends') \in Nat
  BY <1>3, FS_CardinalityType DEF RepeatInv
<1> QED
  BY <1>3, <1>4 DEF RepeatInv

\* One more post of one event is wasted, and something is counted for it.
LEMMA OneMoreWasted ==
  ASSUME RepeatInv, NEW c \in AllEvents, sends' \in [AllEvents -> Nat],
         failures' \in Nat, backoffs' \in Nat,
         failures' + backoffs' = failures + backoffs + 1,
         \A e \in AllEvents : Wasted(e)' <= Wasted(e) \/ (e = c /\ Wasted(e)' = Wasted(e) + 1)
  PROVE  IsFiniteSet(WastedSends') /\ Cardinality(WastedSends') <= failures' + backoffs'
<1> DEFINE Last == <<c, Wasted(c) + 1>>
<1>1. \A e \in AllEvents : Wasted(e) \in Int /\ Wasted(e)' \in Int
  BY DEF RepeatInv, Wasted
<1>2. WastedSends' \subseteq WastedSends \cup {Last}
  <2> SUFFICES ASSUME NEW w \in WastedSends', w # Last PROVE w \in WastedSends
    OBVIOUS
  <2>1. w \in AllEvents \X (Nat \ {0}) /\ w[2] <= Wasted(w[1])'
    BY DEF WastedSends
  <2>2. w[1] \in AllEvents /\ w[2] \in Nat /\ w = <<w[1], w[2]>>
    BY <2>1
  <2>3. w[2] <= Wasted(w[1])
    <3>1. CASE Wasted(w[1])' <= Wasted(w[1])
      BY <1>1, <2>1, <2>2, <3>1
    <3>2. CASE w[1] = c /\ Wasted(w[1])' = Wasted(w[1]) + 1
      <4>1. w[2] # Wasted(w[1]) + 1
        BY <2>2, <3>2
      <4> QED
        BY <1>1, <2>1, <2>2, <3>2, <4>1
    <3> QED
      BY <2>2, <3>1, <3>2
  <2> QED
    BY <2>1, <2>3 DEF WastedSends
<1> HIDE DEF Last
<1>3. /\ IsFiniteSet(WastedSends \cup {Last})
      /\ Cardinality(WastedSends \cup {Last}) <= Cardinality(WastedSends) + 1
  <2>1. IsFiniteSet(WastedSends) /\ Cardinality(WastedSends) \in Nat
    BY FS_CardinalityType DEF RepeatInv
  <2>2. /\ IsFiniteSet(WastedSends \cup {Last})
        /\ Cardinality(WastedSends \cup {Last}) =
             IF Last \in WastedSends THEN Cardinality(WastedSends)
             ELSE Cardinality(WastedSends) + 1
    <3> HIDE DEF WastedSends
    <3> QED
      BY <2>1, FS_AddElement, Zenon
  <2> QED
    BY <2>1, <2>2
<1>4. /\ IsFiniteSet(WastedSends')
      /\ Cardinality(WastedSends') <= Cardinality(WastedSends \cup {Last})
  BY <1>2, <1>3, FS_Subset
<1>5. /\ Cardinality(WastedSends) \in Nat /\ Cardinality(WastedSends') \in Nat
      /\ Cardinality(WastedSends \cup {Last}) \in Nat
  BY <1>3, <1>4, FS_CardinalityType DEF RepeatInv
<1>6. Cardinality(WastedSends) <= failures + backoffs /\ failures \in Nat /\ backoffs \in Nat
  BY DEF RepeatInv
<1>7. Cardinality(WastedSends') <= failures' + backoffs'
  <2>1. PICK a, b, x \in Nat : /\ a = Cardinality(WastedSends)
                             /\ b = Cardinality(WastedSends')
                             /\ x = Cardinality(WastedSends \cup {Last})
    BY <1>5
  <2>2. PICK f, g \in Nat : f = failures /\ g = backoffs
    BY <1>6
  <2>3. PICK h, k \in Nat : h = failures' /\ k = backoffs'
    OBVIOUS
  <2>4. a <= f + g /\ x <= a + 1 /\ b <= x /\ h + k = f + g + 1
    BY <1>3, <1>4, <1>6, <2>1, <2>2, <2>3, Zenon
  <2>5. b <= h + k
    BY <2>4
  <2> QED
    BY <2>1, <2>3, <2>5, Zenon
<1> QED
  BY <1>4, <1>7, Zenon

LEMMA InitRepeat == Init => RepeatInv
<1> SUFFICES ASSUME Init PROVE RepeatInv
  OBVIOUS
<1>1. WastedSends = {}
  <2> SUFFICES ASSUME NEW w \in WastedSends PROVE FALSE
    OBVIOUS
  <2>1. w[1] \in AllEvents /\ w[2] \in Nat \ {0} /\ w[2] <= Wasted(w[1])
    BY DEF WastedSends
  <2>2. Wasted(w[1]) = 0
    BY <2>1 DEF Init, Wasted, OverAndDone, InHand, Settled, Verdicts
  <2> QED
    BY <2>1, <2>2
<1>2. OutboxType /\ sends \in [AllEvents -> Nat]
  BY InitType DEF Init
<1> QED
  BY <1>1, <1>2, FS_EmptySet DEF RepeatInv, Init

LEMMA NextRepeat == RepeatInv /\ [Next]_vars => RepeatInv'
<1> SUFFICES ASSUME RepeatInv, [Next]_vars PROVE RepeatInv'
  OBVIOUS
<1>0. OutboxType /\ OutboxType' /\ OutboxGrows
  BY NextType, StepGrows DEF RepeatInv
<1> DEFINE Lists ==
             /\ sends' \in [AllEvents -> Nat] /\ failures' \in Nat /\ backoffs' \in Nat
             /\ pc' \notin {"send", "backoff", "mark"} => queue' = {}
             /\ pc' \in {"backoff", "mark"} => cur' \in queue'
<1>a. ASSUME Lists, failures' = failures, backoffs' = backoffs,
             \A e \in AllEvents : Wasted(e)' <= Wasted(e)
      PROVE  RepeatInv'
  <2>1. IsFiniteSet(WastedSends') /\ Cardinality(WastedSends') <= failures' + backoffs'
    BY <1>a, NoMoreWasted
  <2> QED
    BY <1>0, <1>a, <2>1 DEF RepeatInv
\* A failure wastes at most the post in hand.
<1>b. ASSUME UNCHANGED <<outbox, sends, backoffs>>, queue' = {}, pc' \notin {"backoff", "mark"},
             failures' = failures + 1
      PROVE  RepeatInv'
  <2>1. Lists
    BY <1>b DEF RepeatInv
  <2>2. \A e \in AllEvents :
          Wasted(e)' <= Wasted(e) \/ (e = cur /\ Wasted(e)' = Wasted(e) + 1)
    BY <1>b DEF RepeatInv, Wasted, OverAndDone, InHand
  <2>3. PICK c \in AllEvents : c = cur
    BY <1>0 DEF OutboxType
  <2>4. /\ failures' \in Nat /\ backoffs' \in Nat /\ sends' \in [AllEvents -> Nat]
        /\ failures' + backoffs' = failures + backoffs + 1
    BY <1>b, <2>1 DEF RepeatInv
  <2>5. \A e \in AllEvents :
          Wasted(e)' <= Wasted(e) \/ (e = c /\ Wasted(e)' = Wasted(e) + 1)
    BY <2>2, <2>3
  <2>6. IsFiniteSet(WastedSends') /\ Cardinality(WastedSends') <= failures' + backoffs'
    BY <2>4, <2>5, OneMoreWasted
  <2> QED
    BY <1>0, <2>1, <2>6 DEF RepeatInv
<1>c. \A e \in AllEvents : sends[e] \in Nat
  BY DEF RepeatInv
\* A step that leaves the flush alone may only write statuses.
<1>d. ASSUME UNCHANGED <<pc, queue, cur, sends, backoffs, failures>> PROVE RepeatInv'
  <2>1. Lists
    BY <1>d DEF RepeatInv
  <2>2. \A e \in AllEvents : OverAndDone(e) => OverAndDone(e)'
    BY <1>0, <1>d DEF OverAndDone, OutboxGrows, Settled, Verdicts
  <2>3. \A e \in AllEvents : Wasted(e)' <= Wasted(e)
    BY <1>c, <1>d, <2>2 DEF Wasted, InHand
  <2> QED
    BY <1>a, <1>d, <2>1, <2>3
\* Nor does one that moves on from a place where nothing is listed or in hand.
<1>e. ASSUME UNCHANGED <<sends, backoffs, failures>>, queue = {}, queue' = {},
             pc # "mark", pc' \notin {"backoff", "mark"}
      PROVE  RepeatInv'
  <2>1. Lists
    BY <1>e DEF RepeatInv
  <2>2. \A e \in AllEvents : OverAndDone(e) => OverAndDone(e)'
    BY <1>0, <1>e DEF OverAndDone, OutboxGrows, Settled, Verdicts
  <2>3. \A e \in AllEvents : Wasted(e)' <= Wasted(e)
    BY <1>c, <1>e, <2>2 DEF Wasted, InHand
  <2> QED
    BY <1>a, <1>e, <2>1, <2>3
<1>1. CASE StartCycle
  BY <1>1, <1>e DEF StartCycle, outside, RepeatInv
<1>2. CASE ListPending
  <2>1. /\ queue = {} /\ queue' \subseteq Pending /\ pc' = "send" /\ pc = "flush"
        /\ UNCHANGED <<outbox, cur, sends, backoffs, failures>>
    BY <1>2 DEF ListPending, tables, outside, RepeatInv
  <2>2. Lists
    BY <2>1 DEF RepeatInv
  <2>3. \A e \in AllEvents : Wasted(e)' <= Wasted(e)
    BY <1>c, <2>1 DEF Wasted, OverAndDone, InHand, Pending, Settled, Verdicts
  <2> QED
    BY <1>a, <2>1, <2>2, <2>3
<1>3. CASE SendNext \/ SendAgain
  <2>1. PICK e \in queue, n \in {1, attempt + 1} : pc \in {"send", "backoff"} /\ FlushPosts(e, n)
    BY <1>3 DEF SendNext, SendAgain, RepeatInv
  <2>2. /\ e \in AllEvents /\ cur' = e /\ sends' = [sends EXCEPT ![e] = @ + 1]
        /\ UNCHANGED <<outbox, queue, failures>>
        /\ \/ pc' = "backoff" /\ backoffs' = backoffs + 1
           \/ pc' = "mark" /\ backoffs' = backoffs
    BY <1>0, <2>1 DEF FlushPosts, tables, OutboxType
  <2>3. \A d \in AllEvents : sends'[d] = IF d = e THEN sends[e] + 1 ELSE sends[d]
    BY <1>c, <2>2 DEF RepeatInv
  <2>4. Lists
    <3>1. sends[e] + 1 \in Nat
      BY <1>c, <2>2
    <3> QED
      BY <2>2, <3>1 DEF RepeatInv
  <2>5. \A d \in AllEvents : d # e => Wasted(d)' <= Wasted(d)
    BY <1>c, <2>1, <2>2, <2>3 DEF Wasted, OverAndDone, InHand
  \* The verdict will account for this post.
  <2>6. CASE pc' = "mark"
    <3>1. Wasted(e)' <= Wasted(e)
      BY <1>c, <2>1, <2>2, <2>3, <2>6 DEF Wasted, OverAndDone, InHand
    <3>2. \A d \in AllEvents : Wasted(d)' <= Wasted(d)
      BY <2>5, <3>1
    <3>3. backoffs' = backoffs
      BY <2>2, <2>6
    <3> QED
      BY <1>a, <2>2, <2>4, <3>2, <3>3
  \* The failed connection does.
  <2>7. CASE pc' = "backoff"
    <3>1. Wasted(e)' = Wasted(e) + 1
      BY <1>c, <2>1, <2>2, <2>3, <2>7 DEF Wasted, OverAndDone, InHand
    <3>2. \A d \in AllEvents : Wasted(d)' <= Wasted(d) \/ (d = e /\ Wasted(d)' = Wasted(d) + 1)
      BY <2>5, <3>1
    <3>3. /\ failures' \in Nat /\ backoffs' \in Nat /\ sends' \in [AllEvents -> Nat]
          /\ failures' + backoffs' = failures + backoffs + 1
      BY <2>2, <2>4, <2>7 DEF RepeatInv
    <3>4. PICK c \in AllEvents : c = e
      BY <2>2
    <3>5. \A d \in AllEvents : Wasted(d)' <= Wasted(d) \/ (d = c /\ Wasted(d)' = Wasted(d) + 1)
      BY <3>2, <3>4
    <3>6. IsFiniteSet(WastedSends') /\ Cardinality(WastedSends') <= failures' + backoffs'
      BY <3>3, <3>5, OneMoreWasted
    <3> QED
      BY <1>0, <2>4, <3>6 DEF RepeatInv
  <2> QED
    BY <2>2, <2>6, <2>7
<1>4. CASE MarkSent
  <2>1. /\ pc = "mark" /\ pc' = "send" /\ queue' = queue \ {cur} /\ cur \in AllEvents
        /\ outbox' = [outbox EXCEPT ![cur] = Status(verdict)]
        /\ UNCHANGED <<sends, backoffs, failures>>
    BY <1>0, <1>4 DEF MarkSent, outside, OutboxType
  <2>2. Lists
    BY <2>1 DEF RepeatInv
  <2>3. \A e \in AllEvents : Wasted(e)' <= Wasted(e)
    <3> SUFFICES ASSUME NEW e \in AllEvents PROVE Wasted(e)' <= Wasted(e)
      OBVIOUS
    <3>1. CASE e = cur
      <4>1. outbox'[e] \in Settled
        BY <1>0, <2>1, <3>1 DEF OutboxType, Status, Settled
      <4>2. OverAndDone(e)'
        BY <2>1, <3>1, <4>1 DEF OverAndDone, Settled, Verdicts
      <4>3. Wasted(e)' = sends[e] - 1
        BY <2>1, <4>2 DEF Wasted
      <4> QED
        BY <1>c, <4>3 DEF Wasted
    <3>2. CASE e # cur
      BY <1>0, <1>c, <2>1, <3>2 DEF Wasted, OverAndDone, InHand, OutboxType, Settled, Verdicts
    <3> QED
      BY <3>1, <3>2
  <2> QED
    BY <1>a, <2>1, <2>2, <2>3
<1>5. CASE FlushDone
  BY <1>5, <1>e DEF FlushDone, AfterFlush, EndCycle, outside
<1>6. CASE NoSummary
  BY <1>6, <1>e DEF NoSummary, EndCycle, outside, RepeatInv
<1>7. CASE EnqueueSummary
  BY <1>7, <1>e DEF EnqueueSummary, outside, RepeatInv
<1>8. CASE RecordSummary
  BY <1>8, <1>e DEF RecordSummary, outside, RepeatInv
<1>9. CASE FlushBreaksOff
  BY <1>9, <1>b DEF FlushBreaksOff, AfterFlush, EndCycle, tables
<1>10. CASE Crash
  BY <1>10, <1>b DEF Crash, EndCycle, tables
<1>11. CASE RetryStart \/ RetrySend \/ RetryMark \/ RetryCrash
  BY <1>11, <1>d DEF RetryStart, RetrySend, RetryMark, RetryCrash, flush, outside
<1>12. CASE NextDay \/ ToggleDisabled
  BY <1>12, <1>d DEF NextDay, ToggleDisabled, flush
<1>13. CASE UNCHANGED vars
  BY <1>13, <1>d DEF vars, flush, outside
<1> QED
  BY <1>1, <1>2, <1>3, <1>4, <1>5, <1>6, <1>7, <1>8, <1>9, <1>10, <1>11, <1>12, <1>13
     DEF Next, Cycle

LEMMA WastedSend ==
  ASSUME NEW e \in AllEvents, NEW n \in Nat \ {0}, n <= Wasted(e)
  PROVE  <<e, n>> \in WastedSends
<1>1. <<e, n>> \in AllEvents \X (Nat \ {0})
  OBVIOUS
<1>2. <<e, n>>[1] = e /\ <<e, n>>[2] = n
  OBVIOUS
<1>3. <<e, n>>[2] <= Wasted(<<e, n>>[1])
  BY <1>2
<1> QED
  BY <1>1, <1>3 DEF WastedSends

\* An event is posted again only after a failed connection that send_message tries
\* again, or after a crash or a flush that broke off, and each of these costs at
\* most one repeated message: update_notification_status commits every outcome by
\* itself, before the next event is sent.
THEOREM RepeatsAlwaysNeedFailures == Spec => []RepeatsNeedFailures
<1>1. RepeatInv => RepeatsNeedFailures
  <2> SUFFICES ASSUME RepeatInv PROVE RepeatsNeedFailures
    OBVIOUS
  <2> DEFINE R == {r \in AllEvents \X (2..MaxSends) : sends[r[1]] >= r[2]}
             f == [r \in R |-> <<r[1], r[2] - 1>>]
  <2>1. ASSUME NEW r \in R
        PROVE  /\ r[1] \in AllEvents /\ r[2] \in Nat /\ r = <<r[1], r[2]>>
               /\ r[2] >= 2 /\ sends[r[1]] >= r[2] /\ sends[r[1]] \in Nat
    BY OutboxAssumption DEF RepeatInv
  <2>2. \A r \in R : f[r] \in WastedSends
    <3> TAKE r \in R
    <3>1. r[1] \in AllEvents /\ r[2] - 1 \in Nat \ {0}
      BY <2>1
    <3>2. r[2] - 1 <= Wasted(r[1])
      BY <2>1 DEF Wasted
    <3>3. <<r[1], r[2] - 1>> \in WastedSends
      BY <3>1, <3>2, WastedSend
    <3> QED
      BY <3>3
  <2>3. \A r, q \in R : f[r] = f[q] => r = q
    <3> TAKE r, q \in R
    <3> HAVE f[r] = f[q]
    <3>1. r[1] = q[1] /\ r[2] - 1 = q[2] - 1
      OBVIOUS
    <3>2. r[2] = q[2]
      BY <2>1, <3>1
    <3>3. r = <<r[1], r[2]>> /\ q = <<q[1], q[2]>>
      BY <2>1
    <3> QED
      BY <3>1, <3>2, <3>3
  <2>4. f \in Injection(R, WastedSends)
    <3>1. f \in [R -> WastedSends]
      BY <2>2
    <3> HIDE DEF f, R
    <3> QED
      BY <2>3, <3>1 DEF Injection, IsInjective
  <2> HIDE DEF f
  <2>5. Cardinality(R) <= Cardinality(WastedSends) /\ IsFiniteSet(R)
    <3> HIDE DEF R
    <3> QED
      BY <2>4, FS_Injection DEF RepeatInv
  <2>6. /\ Cardinality(R) \in Nat /\ Cardinality(WastedSends) \in Nat
        /\ Cardinality(WastedSends) <= failures + backoffs
        /\ failures \in Nat /\ backoffs \in Nat
    BY <2>5, FS_CardinalityType DEF RepeatInv
  <2>7. Cardinality(R) <= failures + backoffs
    <3> HIDE DEF R
    <3> QED
      BY <2>5, <2>6
  <2> QED
    BY <2>7 DEF RepeatsNeedFailures
<1> QED
  BY <1>1, InitRepeat, NextRepeat, PTL DEF Spec
=============================================================================
