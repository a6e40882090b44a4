----------------------------- MODULE ShadowCycle -----------------------------
(***************************************************************************)
(* shadow-bootstrap and shadow-run (shadow/bootstrap.py, shadow/engine.py, *)
(* shadow/store.py, shadow/lock.py): every cycle stores the candles that   *)
(* have completed, runs the backtest engine again over the whole newest    *)
(* gap-free segment, and records only the rows past a high-water mark.     *)
(*                                                                         *)
(* A candle is the hour that ends it; hour 1 is the first after the shadow *)
(* start boundary and the warm-up candles are the hours up to 0.  What the *)
(* engine makes of an hour, given the position it has, is the hour's move; *)
(* it may depend on the hours before it but never on later ones.  Sending  *)
(* the notifications is in NotificationOutbox.                             *)
(***************************************************************************)
EXTENDS Integers, FiniteSets

CONSTANTS
  Cycles,         \* processes running shadow-run
  MaxHour,        \* bound: hours that complete
  Settle,         \* hours after the boundary in which nothing is evaluated
  Required,       \* min_required_candles of a segment without warm-up
  PageSize,       \* candles one request returns at most (1000)
  Moves,          \* what an hour can bring
  FilterChanges   \* the exchange may change the symbol's filters

AllMoves == {"missing", "quiet", "enter", "small", "exit", "round"}

ASSUME ShadowAssumption ==
  /\ {MaxHour, Required, PageSize} \subseteq Nat \ {0}
  /\ Settle \in Nat
  /\ Moves \subseteq AllMoves
  /\ FilterChanges \in BOOLEAN

VARIABLES
  hour,        \* the last hour that has completed
  market,      \* what each hour brought
  filters,     \* the filters GET /api/v3/exchangeInfo reports
  bootstrap,   \* nothing, the candles, or also the record of the warm-up
  pc,          \* where each process is
  seen,        \* what it has read: newest candle and high-water mark
  candles,     \* hours stored in CandleStore
  processed,   \* last_processed_close_time_ms, 0 for none
  trades,      \* shadow_trades: entry and exit hour
  equity,      \* hours with a row in shadow_equity
  position,    \* entry hour of the recorded open position, 0 for none
  outbox       \* notification events enqueued, by kind and hour

disk == <<candles, processed, trades, equity, position, outbox>>
vars == <<hour, market, filters, bootstrap, pc, seen, disk>>

Hours   == 1..MaxHour
Filters == {"loose", "tight"}

Init ==
  /\ hour = 0
  /\ market = [h \in Hours |-> "quiet"]
  /\ filters = "loose"
  /\ bootstrap = "none"
  /\ pc = [c \in Cycles |-> "idle"]
  /\ seen = [c \in Cycles |-> [latest |-> 0, mark |-> 0]]
  /\ candles = {}
  /\ processed = 0 /\ trades = {} /\ equity = {} /\ position = 0 /\ outbox = {}

-----------------------------------------------------------------------------
(* run_segment, as far as positions go.                                    *)

\* A signal is filled at the open of the following hour, so the first hour
\* evaluated fills none.
Enters(h, first, f) ==
  h > first /\ (market[h] \in {"enter", "round"} \/ (market[h] = "small" /\ f = "loose"))

Exits(h) == market[h] \in {"exit", "round"}

\* The entry hour of the position held after each hour from first on, 0 when
\* flat.  An entry can be stopped out within its own hour ("round").
Held(first, f) ==
  LET held[h \in (first - 1)..MaxHour] ==
        IF h < first THEN 0
        ELSE IF held[h - 1] # 0 THEN (IF Exits(h) THEN 0 ELSE held[h - 1])
        ELSE IF Enters(h, first, f) /\ ~Exits(h) THEN h ELSE 0
  IN  held

TradesOf(first, last, f) ==
  LET held == Held(first, f)
  IN  {<<IF held[h - 1] # 0 THEN held[h - 1] ELSE h, h>> :
         h \in {x \in first..last : Exits(x) /\ (held[x - 1] # 0 \/ Enters(x, first, f))}}

\* partition_into_segments: the segment hour h belongs to starts here.
SegmentStart(h) ==
  CHOOSE s \in 1..h : s..h \subseteq candles /\ (s = 1 \/ s - 1 \notin candles)

\* Fault: a segment is scored a candle early.
FirstScoredEarly(h) ==
  IF SegmentStart(h) = 1 THEN 1 + Settle ELSE SegmentStart(h) + Required - 2

\* The first hour of h's segment that is evaluated: the segment that starts at
\* the boundary continues the warm-up and waits for the settling buffer; a
\* later one gathers its own history.
FirstScored(h) ==
  IF SegmentStart(h) = 1 THEN 1 + Settle ELSE SegmentStart(h) + Required - 1

-----------------------------------------------------------------------------
(* The market and the exchange (external).                                 *)

\* An hour completes.  Its candle may never appear.
Tick ==
  /\ hour < MaxHour
  /\ hour' = hour + 1
  /\ \E m \in Moves : market' = [market EXCEPT ![hour'] = m]
  /\ UNCHANGED <<filters, bootstrap, pc, seen, disk>>

ChangeFilters ==
  /\ FilterChanges
  /\ filters' = IF filters = "loose" THEN "tight" ELSE "loose"
  /\ UNCHANGED <<hour, market, bootstrap, pc, seen, disk>>

-----------------------------------------------------------------------------
(* shadow-bootstrap: two commits; without the second nothing has happened. *)

StoreWarmup ==
  /\ bootstrap = "none"
  /\ bootstrap' = "candles"
  /\ UNCHANGED <<hour, market, filters, pc, seen, disk>>

RecordBootstrap ==
  /\ bootstrap = "candles"
  /\ bootstrap' = "done"
  /\ UNCHANGED <<hour, market, filters, pc, seen, disk>>

-----------------------------------------------------------------------------
(* shadow-run.                                                             *)

\* Fault: the lock is not taken.
LockIgnored == TRUE

\* flock: the operating system frees the lock of a process that dies.
LockFree == \A c \in Cycles : pc[c] = "idle"

\* The kill switch is not engaged, the lock is free, the bootstrap verified;
\* otherwise the process ends at once and changes nothing.
BeginCycle(c) ==
  /\ pc[c] = "idle"
  /\ LockFree
  /\ bootstrap = "done"
  /\ pc' = [pc EXCEPT ![c] = "fetch"]
  /\ UNCHANGED <<hour, market, filters, bootstrap, seen, disk>>

\* 0 stands for the last warm-up candle.
Latest == CHOOSE h \in candles \cup {0} : \A g \in candles : g <= h

Completed(from, to) == {h \in from..to : market[h] # "missing"}

\* fetch_completed_candles from the newest stored candle on, one page of them.
Fetched ==
  {h \in Completed(Latest + 1, hour) : Cardinality(Completed(Latest + 1, h)) <= PageSize}

\* upsert_candles, a commit of its own.
StoreCandles(c) ==
  /\ pc[c] = "fetch"
  /\ candles' = candles \cup Fetched
  /\ pc' = [pc EXCEPT ![c] = "read"]
  /\ UNCHANGED <<hour, market, filters, bootstrap, seen,
                 processed, trades, equity, position, outbox>>

ReadState(c) ==
  /\ pc[c] = "read"
  /\ seen' = [seen EXCEPT ![c] = [latest |-> Latest, mark |-> processed]]
  /\ pc' = [pc EXCEPT ![c] = "decide"]
  /\ UNCHANGED <<hour, market, filters, bootstrap, disk>>

\* A new candle has come and its segment is long enough.
Scorable(s) == s.latest \notin {0, s.mark} /\ s.latest >= FirstScored(s.latest)

\* NO_NEW_CANDLES or INSUFFICIENT_DATA: touch_cycle moves no mark.
SkipCycle(c) ==
  /\ pc[c] = "decide"
  /\ ~Scorable(seen[c])
  /\ pc' = [pc EXCEPT ![c] = "deliver"]
  /\ UNCHANGED <<hour, market, filters, bootstrap, seen, disk>>

\* Fault: an entry is announced only while its position is open.
EventsOpenOnly(new, open, mark) ==
  {<<"entry", h>> : h \in {open} \ 0..mark} \cup {<<"exit", t[2]>> : t \in new}

\* An event for each new entry, still open or closed again, and each new exit.
Events(new, open, mark) ==
  {<<"entry", h>> : h \in ({open} \cup {t[1] : t \in new}) \ 0..mark}
    \cup {<<"exit", t[2]>> : t \in new}

\* Fault: rows are compared with the newest candle instead of the mark.
NewMarkAtLatest(s, h) == h > s.latest

IsNew(s, h) == h > s.mark

\* Filters are fetched, the segment is run, and record_cycle_atomically commits
\* everything of it that lies past the mark.
RecordCycle(c) ==
  /\ pc[c] = "decide"
  /\ Scorable(seen[c])
  /\ LET s     == seen[c]
         first == FirstScored(s.latest)
         open  == Held(first, filters)[s.latest]
         new   == {t \in TradesOf(first, s.latest, filters) : IsNew(s, t[2])}
     IN  /\ trades' = trades \cup {t \in new : \A u \in trades : u[2] # t[2]}
         /\ equity' = equity \cup {h \in first..s.latest : IsNew(s, h)}
         /\ outbox' = outbox \cup Events(new, open, s.mark)
         /\ position' = open
         /\ processed' = s.latest
  /\ pc' = [pc EXCEPT ![c] = "deliver"]
  /\ UNCHANGED <<hour, market, filters, bootstrap, seen, candles>>

\* Notifications are flushed; whatever happens there ends the cycle.
Deliver(c) ==
  /\ pc[c] = "deliver"
  /\ pc' = [pc EXCEPT ![c] = "idle"]
  /\ UNCHANGED <<hour, market, filters, bootstrap, seen, disk>>

\* The process dies, or an HTTP call raises.
Crash(c) ==
  /\ pc[c] # "idle"
  /\ pc' = [pc EXCEPT ![c] = "idle"]
  /\ UNCHANGED <<hour, market, filters, bootstrap, seen, disk>>

Cycle(c) ==
  \/ BeginCycle(c) \/ StoreCandles(c) \/ ReadState(c)
  \/ SkipCycle(c) \/ RecordCycle(c) \/ Deliver(c)

Next ==
  \/ Tick \/ ChangeFilters \/ StoreWarmup \/ RecordBootstrap
  \/ \E c \in Cycles : Cycle(c) \/ Crash(c)

Spec == Init /\ [][Next]_vars

\* An external scheduler keeps invoking shadow-run, time passes, and crashes do
\* not always strike at the same step.
Fairness ==
  /\ WF_vars(Tick) /\ WF_vars(StoreWarmup \/ RecordBootstrap)
  /\ WF_vars(\E c \in Cycles : Cycle(c))
  /\ SF_vars(\E c \in Cycles : StoreCandles(c))
  /\ SF_vars(\E c \in Cycles : ReadState(c))
  /\ SF_vars(\E c \in Cycles : RecordCycle(c))

FairSpec == Spec /\ Fairness

-----------------------------------------------------------------------------
\* The state has its types.
TypeOK ==
  /\ hour \in 0..MaxHour
  /\ market \in [Hours -> AllMoves]
  /\ filters \in Filters
  /\ bootstrap \in {"none", "candles", "done"}
  /\ pc \in [Cycles -> {"idle", "fetch", "read", "decide", "deliver"}]
  /\ seen \in [Cycles -> [latest : 0..MaxHour, mark : 0..MaxHour]]
  /\ candles \subseteq 1..hour
  /\ processed \in 0..hour
  /\ trades \subseteq Hours \X Hours
  /\ equity \subseteq Hours
  /\ position \in 0..MaxHour
  /\ outbox \subseteq {"entry", "exit"} \X Hours

\* What is recorded of the segment last scored is exactly what one run over it
\* gives up to the mark, whatever crashed, overlapped or caught up in between
\* (shadow/store.py: "re-running it produces byte-for-byte the same result up
\* to the point already observed").  It takes filters that do not change.
RowsFollowOneRun ==
  processed # 0 =>
    LET first == FirstScored(processed)
    IN  /\ {h \in equity : h >= first} = first..processed
        /\ \E f \in Filters :
             /\ {t \in trades : t[2] >= first} = TradesOf(first, processed, f)
             /\ position = Held(first, f)[processed]

\* An hour is scored only with the history the strategy needs behind it: never
\* in the settling buffer, never in the warm-up of a segment after a gap.
ScoredWithHistory ==
  \A h \in equity :
    IF 1..h \subseteq candles THEN h > Settle ELSE (h - Required + 1)..h \subseteq candles

\* Both events of every recorded trade, and the entry of an open position, are
\* in the outbox as soon as the trade is recorded.
EveryTradeAnnounced ==
  /\ \A t \in trades : {<<"entry", t[1]>>, <<"exit", t[2]>>} \subseteq outbox
  /\ position # 0 => <<"entry", position>> \in outbox

\* Without gaps, an entry once announced is still open or has become a trade.
EntryAccounted ==
  \A e \in outbox : e[1] = "entry" => position = e[2] \/ \E t \in trades : t[1] = e[2]

\* Without gaps, every hour past the settling buffer is scored eventually.
EveryHourScored == \A h \in Hours : h > Settle => <>(h \in equity)

=============================================================================
