---------------------------- MODULE CandleHistory ----------------------------
(***************************************************************************)
(* The stored candles of the research and the manifest of their confirmed  *)
(* gaps (data/storage.py), written by fetch-data (data/historical_fetch.py *)
(* over data/gap_detection.py) and by research-gap-recover, which audits   *)
(* every gap against the exchange's one-minute klines and rebuilds the     *)
(* hours whose minutes are complete (data/gap_recovery.py).  The audit     *)
(* keeps a checkpoint on disk.  No lock is taken: a fetch may run beside   *)
(* an audit, and two audits beside each other.                             *)
(***************************************************************************)
EXTENDS Integers, FiniteSets

CONSTANTS
  Runs,           \* invocations of the two gap commands that may coincide
  MaxHour,        \* bound: the hours of the history are 0..MaxHour
  MinutesPerHour, \* _MINUTES_PER_HOUR
  PageLimit,      \* _KLINE_PAGE_LIMIT, in minutes
  Cutoff,         \* RESEARCH_CUTOFF_MS, as an hour
  AlwaysServed,   \* bound: hours the exchange has from the start
  OddHours,       \* hours whose own kline differs from the minutes' total
  MaxErrors,      \* bound: incomplete answers and audits that stop early
  Audits          \* bound: gap commands started

ASSUME HistoryAssumption ==
  /\ MaxHour \in Nat /\ Cutoff \in Nat /\ MaxErrors \in Nat /\ Audits \in Nat
  /\ MinutesPerHour \in Nat \ {0} /\ PageLimit \in Nat \ {0}
  /\ OddHours \subseteq 0..MaxHour
  /\ AlwaysServed \subseteq 0..MaxHour /\ AlwaysServed # {}

VARIABLES
  native,   \* hours the exchange serves as one-hour klines
  minutes,  \* minutes it serves as one-minute klines
  candle,   \* the stored candle of each hour: none, fetched or rebuilt
  gaps,     \* the rows of candle_gaps
  saved,    \* the checkpoint file: verdicts by the identity of their gap
  run,      \* each command: its place and its own memory
  errors,   \* failures so far
  started   \* commands so far

external == <<native, minutes>>
store    == <<candle, gaps>>
vars     == <<external, store, saved, run, errors, started>>

Hours          == 0..MaxHour
Minutes        == 0..((MaxHour + 1) * MinutesPerHour - 1)
MinutesOf(h)   == (h * MinutesPerHour)..((h + 1) * MinutesPerHour - 1)
IsComplete(h)  == MinutesOf(h) \subseteq minutes
Outcomes       == {"full", "partial", "genuine", "mismatch", "unchecked", "excluded"}

\* A row of the manifest and its identity; "first" is its primary key.
GapRecords == [first : Hours, prev : Hours, next : Hours]

\* Fault: a gap is known by where it begins.
KeyStartOnly(g) == <<g.first, g.first, g.first>>

Key(g) == <<g.first, g.prev, g.next>>

MissingHours(g) == g.first..(g.next - 1)  \* _missing_hours_for_gap

\* partition_into_segments: a gap wherever two neighbours are not adjacent.
Gaps(hours) ==
  {g \in {[first |-> h + 1, prev |-> h, next |-> n] : h, n \in hours} :
     g.first < g.next /\ MissingHours(g) \cap hours = {}}

Stored        == {h \in Hours : candle[h] # "none"}
Covered(rows) == UNION {MissingHours(g) : g \in rows}

\* ON CONFLICT DO UPDATE, and DELETE, by the keys: the hour and "first".
Put(hours, kind) == [h \in Hours |-> IF h \in hours THEN kind ELSE candle[h]]
Upserted(rows, new) == {g \in rows : \A n \in new : n.first # g.first} \cup new

\* Fault: superseded rows stay.
WithoutNone(rows, old) == rows

Without(rows, old) == {g \in rows : \A o \in old : o.first # g.first}

\* A command: still to audit, what it has of the file, what it found, and
\* the candles it read before it writes.
Idle == [pc |-> "idle", rows |-> {}, memory |-> {}, report |-> {}, seen |-> {}]
Auditing(rows, memory, report) ==
  [pc |-> "audit", rows |-> rows, memory |-> memory, report |-> report, seen |-> {}]
Writing(report, seen) ==
  [pc |-> "write", rows |-> {}, memory |-> {}, report |-> report, seen |-> seen]

Init ==
  /\ native \in SUBSET Hours /\ minutes \in SUBSET Minutes
  /\ AlwaysServed \subseteq native
  /\ \A h \in Hours : h >= Cutoff => IsComplete(h)  \* no audit reads them
  /\ \A h \in native : IsComplete(h)
  /\ candle = [h \in Hours |-> "none"] /\ gaps = {}
  /\ saved = {} /\ run = [r \in Runs |-> Idle]
  /\ errors = 0 /\ started = 0

-----------------------------------------------------------------------------
(***************************************************************************)
(* fetch-data asks for a range, of which the exchange has the hours        *)
(* "there".  Its answer may leave some of them out; each gap is then asked *)
(* for once more, which may fail too, and the rows of what is still        *)
(* missing are stored with the candles.                                    *)
(***************************************************************************)
Answers(there) == IF errors < MaxErrors THEN SUBSET there ELSE {there}

\* confirm_gaps: the candles after the second question, answered for "heard".
Confirmed(there, answer, heard) == answer \cup (there \cap Covered(heard))

FetchData(there) ==
  \E answer \in Answers(there) \ {{}} : \E heard \in SUBSET Gaps(answer) :
    LET kept == Confirmed(there, answer, heard) IN
    /\ candle' = Put(kept, "fetched")
    /\ gaps' = Upserted(gaps, Gaps(kept))
    /\ errors' = IF answer = there THEN errors ELSE errors + 1
    /\ UNCHANGED <<external, saved, run, started>>

\* The exchange adds an hour's kline to its history.
Backfill(h) ==
  /\ h \notin native /\ IsComplete(h)
  /\ native' = native \cup {h}
  /\ UNCHANGED <<minutes, store, saved, run, errors, started>>

-----------------------------------------------------------------------------
(***************************************************************************)
(* research-gap-audit and research-gap-recover: every row is audited, in   *)
(* order, unless the checkpoint knows its gap.  A run that may not store   *)
(* (the audit command, or no --confirm) ends with Leave.                   *)
(***************************************************************************)
Start(r, reset) ==
  /\ run[r].pc = "idle" /\ started < Audits
  /\ gaps # {}
  /\ saved' = IF reset THEN {} ELSE saved
  /\ run' = [run EXCEPT ![r] = Auditing(gaps, saved', {})]
  /\ started' = started + 1
  /\ UNCHANGED <<external, store, errors>>

\* _fetch_native_1h: the hours whose own kline it may obtain, of those where
\* that makes a difference.
CrossChecks == SUBSET (native \cap OddHours)

\* Retries are exhausted, or the time budget of the gap is.
FetchFails == errors < MaxErrors /\ errors' = errors + 1

\* _fetch_1m_range: the places where a fetch of start..end-1 can break off,
\* before its first page or after a full one.
BreakingPoints(start, end) ==
  {m \in start..(end - 1) :
     LET read == {n \in minutes : start <= n /\ n < m} IN
     \/ m = start
     \/ m - 1 \in read /\ Cardinality(read) % PageLimit = 0}

\* _classify_hour, of the minutes read before the fetch ended; "answered"
\* holds the hours whose own kline the cross-check obtained.
Classified(h, reached, answered) ==
  LET found == {m \in minutes \cap MinutesOf(h) : m < reached} IN
  IF found = {} THEN "genuine"
  ELSE IF found # MinutesOf(h) THEN "partial"
  ELSE IF h \in answered \cap OddHours THEN "mismatch"
  ELSE "full"

\* Fault: an hour never reached passes for one without data.
VerdictsUnguarded(g, broken, reached, answered) ==
  [h \in MissingHours(g) |->
     IF h >= Cutoff THEN "excluded" ELSE Classified(h, reached, answered)]

\* _analyze_one_gap, when the fetch stopped at "reached" or (broken FALSE)
\* came to its end.
Verdicts(g, broken, reached, answered) ==
  [h \in MissingHours(g) |->
     IF h >= Cutoff THEN "excluded"
     ELSE IF broken /\ h * MinutesPerHour >= reached THEN "unchecked"
     ELSE Classified(h, reached, answered)]

IsFirst(g, rows) == \A o \in rows : g.first <= o.first

\* Fault: the exclusive end is made exclusive twice.
EndOfFetchEarly(g) == (IF g.next <= Cutoff THEN g.next ELSE Cutoff) * MinutesPerHour - 1

EndOfFetch(g) == (IF g.next <= Cutoff THEN g.next ELSE Cutoff) * MinutesPerHour

\* The exchange is asked; the result is saved at once, with everything this
\* command remembers of the file.
Record(r, g, verdict) ==
  LET entry == [gap |-> g, verdict |-> verdict] IN
  /\ saved' = run[r].memory \cup {entry}
  /\ run' = [run EXCEPT ![r] = Auditing(run[r].rows \ {g}, saved',
                                        run[r].report \cup {entry})]

AnalyzeGap(r) ==
  /\ run[r].pc = "audit"
  /\ \E g \in run[r].rows, answered \in CrossChecks :
       /\ IsFirst(g, run[r].rows)
       /\ \A e \in run[r].memory : Key(e.gap) # Key(g)
       /\ \/ /\ Record(r, g, Verdicts(g, FALSE, EndOfFetch(g), answered))
             /\ errors' = errors
          \/ \E reached \in BreakingPoints(g.first * MinutesPerHour, EndOfFetch(g)) :
               /\ Record(r, g, Verdicts(g, TRUE, reached, answered))
               /\ FetchFails
  /\ UNCHANGED <<external, store, started>>

ReuseCached(r) ==
  /\ run[r].pc = "audit"
  /\ \E g \in run[r].rows, e \in run[r].memory :
       /\ IsFirst(g, run[r].rows)
       /\ Key(e.gap) = Key(g)
       /\ run' = [run EXCEPT ![r] = Auditing(run[r].rows \ {g}, run[r].memory,
                                             run[r].report \cup {e})]
  /\ UNCHANGED <<external, store, saved, errors, started>>

\* Ctrl+C or a crash at any place, or the end of a run that stores nothing.
Leave(r) ==
  /\ run[r].pc # "idle"
  /\ run' = [run EXCEPT ![r] = Idle]
  /\ UNCHANGED <<external, store, saved, errors, started>>

-----------------------------------------------------------------------------
\* apply_gap_recovery, only of a finished audit: the candles are read, and
\* then the rebuilt ones and the manifest of both are written together.
\* Fault: every hour with some minutes is stored.
RebuiltPartly(report) ==
  UNION {{h \in DOMAIN e.verdict : e.verdict[h] \in {"full", "partial"}} : e \in report}

Rebuilt(report) ==
  UNION {{h \in DOMAIN e.verdict : e.verdict[h] = "full"} : e \in report}

ReadExisting(r) ==
  /\ run[r].pc = "audit" /\ run[r].rows = {}
  /\ Rebuilt(run[r].report) # {}
  /\ run' = [run EXCEPT ![r] = Writing(run[r].report, Stored)]
  /\ UNCHANGED <<external, store, saved, errors, started>>

StoreRecovered(r) ==
  LET rebuilt == Rebuilt(run[r].report)
      old == {e.gap : e \in run[r].report} IN
  /\ run[r].pc = "write"
  /\ candle' = Put(rebuilt, "rebuilt")
  /\ gaps' = Upserted(Without(gaps, old), Gaps(run[r].seen \cup rebuilt))
  /\ run' = [run EXCEPT ![r] = Idle]
  /\ UNCHANGED <<external, saved, errors, started>>

Next ==
  \/ \E there \in {native \cap (first..last) : first, last \in Hours} : FetchData(there)
  \/ \E h \in Hours : Backfill(h)
  \/ \E r \in Runs, reset \in BOOLEAN : Start(r, reset)
  \/ \E r \in Runs :
       \/ AnalyzeGap(r) \/ ReuseCached(r) \/ Leave(r)
       \/ ReadExisting(r) \/ StoreRecovered(r)

Spec == Init /\ [][Next]_vars

-----------------------------------------------------------------------------
WellFormed(entries) ==
  \A e \in entries : /\ DOMAIN e = {"gap", "verdict"} /\ e.gap \in GapRecords
                     /\ e.verdict \in [MissingHours(e.gap) -> Outcomes]

TypeOK ==
  /\ native \subseteq Hours /\ minutes \subseteq Minutes
  /\ candle \in [Hours -> {"none", "fetched", "rebuilt"}]
  /\ gaps \subseteq GapRecords
  /\ errors \in 0..MaxErrors /\ started \in 0..Audits
  /\ WellFormed(saved) /\ DOMAIN run = Runs
  /\ \A r \in Runs :
       /\ run[r].pc \in {"idle", "audit", "write"}
       /\ run[r].rows \subseteq GapRecords /\ run[r].seen \subseteq Hours
       /\ WellFormed(run[r].memory) /\ WellFormed(run[r].report)

\* What a verdict says of an hour is true of the exchange, in the file and
\* in every report: no data means none at all, and an hour to be rebuilt is
\* before the cutoff with all its minutes there.
VerdictsSound ==
  \A e \in saved \cup UNION {run[r].report : r \in Runs} : \A h \in DOMAIN e.verdict :
    /\ e.verdict[h] = "genuine" => MinutesOf(h) \cap minutes = {}
    /\ e.verdict[h] = "full" => IsComplete(h) /\ h < Cutoff

\* Without failures every hour before the cutoff gets its exact verdict.
QuietAuditExact ==
  errors = 0 => \A e \in saved : \A h \in DOMAIN e.verdict :
    /\ e.verdict[h] # "unchecked"
    /\ e.verdict[h] = "partial" => ~IsComplete(h)

\* A rebuilt candle replaces nothing the exchange does not have.
RebuiltIsComplete ==
  \A h \in Hours : candle[h] = "rebuilt" => IsComplete(h) /\ h < Cutoff

\* When no row was added since it started, it leaves exactly the gaps there are.
UndisturbedRecoveryExact ==
  [][\A r \in Runs :
       StoreRecovered(r) /\ run[r].seen = Stored
                         /\ gaps \subseteq {e.gap : e \in run[r].report}
         => gaps' = Gaps(Stored')]_vars

\* A row taken off the list is answered for exactly its own hours, whatever
\* the checkpoint remembers of a gap that began at the same hour.
EveryRowAnswered ==
  [][\A r \in Runs : \A g \in run[r].rows \ run'[r].rows :
       run'[r].pc = "audit" =>
         \E e \in run'[r].report : e.gap = g /\ DOMAIN e.verdict = MissingHours(g)]_vars

\* The manifest records every confirmed gap until it is filled.
GapsNotForgotten ==
  [][Covered(gaps) \subseteq Covered(gaps') \cup Stored']_vars
=============================================================================
