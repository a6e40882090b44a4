------------------------- MODULE NotificationOutbox -------------------------
(***************************************************************************)
(* Delivery of shadow notifications (shadow/notifications/sender.py,       *)
(* telegram_client.py, _maybe_send_daily_summary in shadow/engine.py and   *)
(* the outbox table of shadow/store.py): a cycle flushes the outbox after  *)
(* its own commit, then perhaps enqueues the daily summary and flushes     *)
(* again.  Meanwhile the owner may resend one event by hand with           *)
(* notification-retry, which takes no lock.  Either way send_message posts *)
(* a message again, by itself, when the connection failed, and a reset or  *)
(* an abort after the request was transmitted is such a failure too.       *)
(***************************************************************************)
EXTENDS Integers, FiniteSets

CONSTANTS
  TradeEvents,  \* entry and exit events the cycles enqueue
  MaxDay,       \* bound: calendar days
  MaxFailures,  \* bound: crashes of a cycle and flushes that break off
  MaxPosts,     \* max_safe_retries: posts one send_message makes at most
  Retries,      \* the owner runs notification-retry
  MayDisable    \* the owner runs notification-disable and -enable

ASSUME OutboxAssumption ==
  /\ {MaxDay, MaxPosts} \subseteq Nat \ {0} /\ MaxFailures \in Nat
  /\ {Retries, MayDisable} \subseteq BOOLEAN

VARIABLES
  outbox,       \* status of each event, "NONE" when it is not enqueued
  lastSummary,  \* last_daily_summary_melbourne_date
  today,        \* the date in Melbourne
  disabled,     \* the notification kill switch is engaged
  pc,           \* where the running cycle is
  again,        \* it flushes for the second time
  day,          \* the date of the summary it is enqueuing
  queue,        \* events the flush has listed and not yet settled
  cur,          \* the event it is sending
  attempt,      \* posts of it after which this send_message backs off
  verdict,      \* what send_message said of it
  owner,        \* notification-retry: its place, event, attempt and verdict
  reached,      \* events Telegram has delivered at least once
  sends,        \* how often the flushes have posted each event
  backoffs,     \* failed connections after which a flush would post once more
  failures      \* crashes and broken flushes so far

tables  == <<outbox, lastSummary>>
flush   == <<pc, again, day, queue, cur, attempt, verdict>>
outside == <<today, disabled, reached, sends, backoffs, failures>>
vars    == <<tables, flush, owner, outside>>

Days       == 1..MaxDay
Summary(d) == <<"daily_summary", d>>
AllEvents  == TradeEvents \cup {Summary(d) : d \in Days}
Verdicts   == {"SENT", "AMBIGUOUS", "FAILED"}
Replies    == Verdicts \cup {"CONNECTION"}
Settled    == Verdicts
SomeEvent  == CHOOSE e \in AllEvents : TRUE
Resting    == [pc |-> "idle", event |-> SomeEvent, attempt |-> 0, verdict |-> "FAILED"]

Init ==
  /\ outbox = [e \in AllEvents |-> "NONE"]
  /\ lastSummary = 0 /\ today = 1 /\ disabled = FALSE
  /\ pc = "idle" /\ again = FALSE /\ day = 1
  /\ queue = {} /\ cur = SomeEvent /\ attempt = 0 /\ verdict = "FAILED"
  /\ owner = Resting
  /\ reached = {} /\ sends = [e \in AllEvents |-> 0]
  /\ backoffs = 0 /\ failures = 0

-----------------------------------------------------------------------------
\* Fault: an event enqueued again starts over.
EnqueuedAnew(events) == [e \in AllEvents |-> IF e \in events THEN "PENDING" ELSE outbox[e]]

\* ON CONFLICT(event_id) DO NOTHING.
Enqueued(events) ==
  [e \in AllEvents |-> IF e \in events /\ outbox[e] = "NONE" THEN "PENDING" ELSE outbox[e]]

\* Fault: whatever reached the network is taken for sent.
OutcomesOptimistic(delivered) == {"SENT", "FAILED"}

\* What one post may come to: SENT only on a confirmed answer; AMBIGUOUS after a
\* read timeout, FAILED after any other answer, CONNECTION when requests raises a
\* ConnectionError.  Nothing but a confirmed answer says whether it was delivered.
Outcomes(delivered) ==
  {"AMBIGUOUS", "FAILED", "CONNECTION"} \cup (IF delivered THEN {"SENT"} ELSE {})

\* Event e is posted once, and reply is what comes of it.
Post(e, reply) ==
  \E delivered \in BOOLEAN :
    /\ reply \in Outcomes(delivered)
    /\ reached' = IF delivered THEN reached \cup {e} ELSE reached

\* TelegramClient.send_message: a failed connection is tried again, and FAILED
\* once the last attempt is used up; everything else is the verdict.
PostsAgain(reply, n) == reply = "CONNECTION" /\ n < MaxPosts
Verdict(reply) == IF reply = "CONNECTION" THEN "FAILED" ELSE reply

-----------------------------------------------------------------------------
(* A cycle, from the commit of record_cycle_atomically on.                 *)

StartCycle ==
  /\ pc = "idle"
  /\ \E new \in SUBSET {e \in TradeEvents : outbox[e] = "NONE"} : outbox' = Enqueued(new)
  /\ pc' = "flush"
  /\ UNCHANGED <<lastSummary, again, day, queue, cur, attempt, verdict, owner, outside>>

\* Fault: what could not be confirmed is tried again.
PendingAndAmbiguous == {e \in AllEvents : outbox[e] \in {"PENDING", "AMBIGUOUS"}}

\* Fault: the summary of an earlier date is no longer sent.
PendingToday == {e \in TradeEvents \cup {Summary(today)} : outbox[e] = "PENDING"}

Pending == {e \in AllEvents : outbox[e] = "PENDING"}

\* Nothing is attempted while notifications are disabled.
ListPending ==
  /\ pc = "flush"
  /\ queue' = IF disabled THEN {} ELSE Pending
  /\ pc' = "send"
  /\ UNCHANGED <<tables, again, day, cur, attempt, verdict, owner, outside>>

\* Nothing is left in hand.
Released == cur' = SomeEvent /\ attempt' = 0 /\ verdict' = "FAILED"

\* The n-th post that the flush's send_message makes of event e.
FlushPosts(e, n) ==
  /\ \E reply \in Replies :
       /\ Post(e, reply)
       /\ IF PostsAgain(reply, n)
          THEN /\ pc' = "backoff" /\ attempt' = n /\ backoffs' = backoffs + 1
               /\ UNCHANGED verdict
          ELSE /\ pc' = "mark" /\ attempt' = 0 /\ verdict' = Verdict(reply)
               /\ UNCHANGED backoffs
  /\ cur' = e
  /\ sends' = [sends EXCEPT ![e] = @ + 1]
  /\ UNCHANGED <<tables, again, day, queue, owner, today, disabled, failures>>

SendNext ==
  /\ pc = "send"
  /\ \E e \in queue : FlushPosts(e, 1)

SendAgain ==
  /\ pc = "backoff"
  /\ FlushPosts(cur, attempt + 1)

\* Fault: only a confirmed delivery is recorded.
StatusIfSent(v) == IF v = "SENT" THEN v ELSE "PENDING"

Status(v) == v

\* update_notification_status, a commit of its own.
MarkSent ==
  /\ pc = "mark"
  /\ outbox' = [outbox EXCEPT ![cur] = Status(verdict)]
  /\ queue' = queue \ {cur}
  /\ pc' = "send" /\ Released
  /\ UNCHANGED <<lastSummary, again, day, owner, outside>>

EndCycle == pc' = "idle" /\ again' = FALSE /\ queue' = {}

AfterFlush == IF again THEN EndCycle ELSE pc' = "summary" /\ queue' = {} /\ UNCHANGED again

FlushDone ==
  /\ pc = "send" /\ queue = {}
  /\ AfterFlush
  /\ UNCHANGED <<tables, day, cur, attempt, verdict, owner, outside>>

\* An exception inside the flush is swallowed and the cycle goes on: the store
\* is locked by notification-retry, say.
FlushBreaksOff ==
  /\ pc \in {"send", "backoff", "mark"}
  /\ failures < MaxFailures /\ failures' = failures + 1
  /\ AfterFlush /\ Released
  /\ UNCHANGED <<tables, day, owner, today, disabled, reached, sends, backoffs>>

\* Before 08:00, or already recorded today.
NoSummary ==
  /\ pc = "summary"
  /\ EndCycle
  /\ UNCHANGED <<tables, day, cur, attempt, verdict, owner, outside>>

\* Fault: the date is recorded before the summary is enqueued.
SummaryDatedFirst ==
  /\ pc = "summary"
  /\ lastSummary # today
  /\ lastSummary' = today
  /\ day' = today
  /\ pc' = "date"
  /\ UNCHANGED <<outbox, again, queue, cur, attempt, verdict, owner, outside>>

EnqueueSummary ==
  /\ pc = "summary"
  /\ lastSummary # today
  /\ outbox' = Enqueued({Summary(today)})
  /\ day' = today
  /\ pc' = "date"
  /\ UNCHANGED <<lastSummary, again, queue, cur, attempt, verdict, owner, outside>>

\* record_daily_summary_sent, a second commit, and the second flush.
RecordSummary ==
  /\ pc = "date"
  /\ lastSummary' = day
  /\ pc' = "flush" /\ again' = TRUE
  /\ UNCHANGED <<outbox, day, queue, cur, attempt, verdict, owner, outside>>

Crash ==
  /\ pc # "idle"
  /\ failures < MaxFailures /\ failures' = failures + 1
  /\ EndCycle /\ Released
  /\ UNCHANGED <<tables, day, owner, today, disabled, reached, sends, backoffs>>

-----------------------------------------------------------------------------
(* notification-retry --confirm, run by the owner.                         *)

RetryStart ==
  /\ Retries /\ owner.pc = "idle"
  /\ \E e \in AllEvents :
       /\ outbox[e] \notin {"NONE", "SENT"}
       /\ owner' = [owner EXCEPT !.pc = "send", !.event = e]
  /\ UNCHANGED <<tables, flush, outside>>

RetrySend ==
  /\ owner.pc = "send"
  /\ \E reply \in Replies :
       /\ Post(owner.event, reply)
       /\ owner' = IF PostsAgain(reply, owner.attempt + 1)
                   THEN [owner EXCEPT !.attempt = @ + 1]
                   ELSE [owner EXCEPT !.pc = "mark", !.attempt = 0, !.verdict = Verdict(reply)]
  /\ UNCHANGED <<tables, flush, today, disabled, sends, backoffs, failures>>

RetryMark ==
  /\ owner.pc = "mark"
  /\ outbox' = [outbox EXCEPT ![owner.event] = Status(owner.verdict)]
  /\ owner' = Resting
  /\ UNCHANGED <<lastSummary, flush, outside>>

RetryCrash ==
  /\ owner.pc # "idle"
  /\ owner' = Resting
  /\ UNCHANGED <<tables, flush, outside>>

NextDay ==
  /\ today < MaxDay
  /\ today' = today + 1
  /\ UNCHANGED <<tables, flush, owner, disabled, reached, sends, backoffs, failures>>

ToggleDisabled ==
  /\ MayDisable
  /\ disabled' = ~disabled
  /\ UNCHANGED <<tables, flush, owner, today, reached, sends, backoffs, failures>>

Cycle ==
  \/ StartCycle \/ ListPending \/ SendNext \/ SendAgain \/ MarkSent \/ FlushDone
  \/ NoSummary \/ EnqueueSummary \/ RecordSummary

Next ==
  \/ Cycle \/ FlushBreaksOff \/ Crash
  \/ RetryStart \/ RetrySend \/ RetryMark \/ RetryCrash
  \/ NextDay \/ ToggleDisabled

Spec == Init /\ [][Next]_vars

\* A scheduler keeps running cycles; failures are bounded by MaxFailures.
FairSpec == Spec /\ WF_vars(Cycle)

-----------------------------------------------------------------------------
\* The posts of one event, if every failure lost the record of a whole call.
MaxSends == MaxPosts * (MaxFailures + 1)

\* The state has its types.
TypeOK ==
  /\ outbox \in [AllEvents -> {"NONE", "PENDING"} \cup Settled]
  /\ lastSummary \in 0..MaxDay /\ today \in Days /\ day \in Days
  /\ disabled \in BOOLEAN /\ again \in BOOLEAN
  /\ pc \in {"idle", "flush", "send", "backoff", "mark", "summary", "date"}
  /\ queue \subseteq AllEvents /\ cur \in AllEvents
  /\ attempt \in 0..(MaxPosts - 1) /\ verdict \in Verdicts
  /\ owner \in [pc : {"idle", "send", "mark"}, event : AllEvents,
                attempt : 0..(MaxPosts - 1), verdict : Verdicts]
  /\ reached \subseteq AllEvents
  /\ sends \in [AllEvents -> 0..MaxSends]
  /\ backoffs \in Nat /\ failures \in 0..MaxFailures

\* SENT is never guessed: the message has reached the chat, whichever of flush
\* and retry wrote the status last.
SentIsDelivered == \A e \in AllEvents : outbox[e] = "SENT" => e \in reached

\* An event is posted again only because its connection failed and send_message
\* tried once more, or because a failure fell between posting it and recording
\* that: each of these costs at most one repeated message, and nothing else does.
RepeatsNeedFailures ==
  Cardinality({r \in AllEvents \X (2..MaxSends) : sends[r[1]] >= r[2]}) <= failures + backoffs

\* The two commits of the daily summary cannot lose it: a date is recorded only
\* when its summary is in the outbox.
SummaryNotLost == lastSummary # 0 => outbox[Summary(lastSummary)] # "NONE"

\* An event that was attempted never goes back to PENDING, although the cycle
\* after a crash enqueues the summary of the same day once more.
SettledStays == [][\A e \in AllEvents : outbox[e] \in Settled => outbox'[e] # "PENDING"]_outbox

\* Telegram may have delivered an AMBIGUOUS message already; no flush sends it
\* again (ARCHITECTURE.md: "NEVER auto-retried").
AmbiguousNotResent ==
  [][\A e \in AllEvents : outbox[e] = "AMBIGUOUS" => sends'[e] = sends[e]]_sends

\* Once notifications stay enabled, every enqueued event is eventually attempted
\* and its outcome recorded.
PendingIsSettled ==
  <>[]~disabled => \A e \in AllEvents : outbox[e] = "PENDING" ~> outbox[e] \in Settled
=============================================================================
