--------------------------- MODULE ResearchProtocol ---------------------------
(***************************************************************************)
(* The research commands of cli/main.py and what they leave behind:        *)
(* candidates are evaluated on the candles before the cutoff and scored,   *)
(* the survivors frozen (research/freeze.py) with fingerprints of the code *)
(* that evaluated them (research/fingerprint.py), and a frozen candidate   *)
(* may be tested again only on new candles with unchanged code.            *)
(*                                                                         *)
(* Meanwhile candles close and are fetched, gaps are recovered, the code   *)
(* is edited and commands are killed.  Configuration, registry entry and   *)
(* exchange filters have fingerprints too and are further parts of what    *)
(* is called the code here.                                                *)
(***************************************************************************)
EXTENDS ResearchWindows, Scorecard

CONSTANTS
  Registry,        \* number of candidates
  Warm,            \* min_required_candles of each
  BaselineWarm,    \* ema_slow + 1 of the frozen baseline
  Covered,         \* parts of the code a fingerprint covers
  Uncovered,       \* parts that decide results and have none
  Series,          \* the series the store can start with
  Results,         \* what the run of a block can come to
  MaxTime,         \* bound: the last instant
  MaxEdits,        \* bound: edits of the code
  EditsDuringRun,  \* whether the code is edited while a command runs
  ClockLag,        \* how far behind the local clock may be
  None

ASSUME ProtocolAssumption ==
  /\ Registry \in Nat \ {0}
  /\ Warm \in [1..Registry -> Nat \ {0, 1}] /\ BaselineWarm \in Nat \ {0}
  /\ Series \subseteq (SUBSET (0..MaxTime)) \ {{}}
  /\ Results \subseteq Outcomes
  /\ {MaxTime, MaxEdits, ClockLag} \subseteq Nat
  /\ EditsDuringRun \in BOOLEAN
  /\ None \notin Int

\* A registry is finite: some candidate has the longest warm-up.
ASSUME LongestWarmUp == \E c \in 1..Registry : \A d \in 1..Registry : Warm[d] <= Warm[c]

VARIABLES
  now,     \* the time, in intervals
  store,   \* candles stored, all of them closed
  code,    \* the version of each part as it is on disk
  edits,
  command, \* the research command that runs
  frozen   \* the file of each candidate: None or a record, torn while written

vars == <<now, store, code, edits, command, frozen>>

\* The entries of the candidate registry, by position.
Candidates == 1..Registry

Commands == {"research-backtest", "research-sensitivity", "research-round2"}

\* The fingerprints _fingerprints_match compares.
Fingerprint(version) == [p \in Covered |-> version[p]]

\* The time the last candle of a series has closed.
EndOf(series) == CHOOSE e \in 0..(MaxTime + 1) : e - 1 \in series /\ \A t \in series : t < e

NoCommand ==
  [name |-> "none", series |-> {}, code |-> None, schedule |-> None,
   traded |-> [c \in Candidates |-> None], survivors |-> {}, boundary |-> None,
   saving |-> None]

Init ==
  /\ store \in Series
  /\ now = EndOf(store)
  /\ code = [p \in Covered \cup Uncovered |-> 0]
  /\ edits = 0
  /\ command = NoCommand
  /\ frozen = [c \in Candidates |-> None]

-----------------------------------------------------------------------------
(* The world.                                                              *)

Tick ==
  /\ now < MaxTime
  /\ now' = now + 1
  /\ UNCHANGED <<store, code, edits, command, frozen>>

\* fetch-data and research-gap-recover store candles that have closed.
Fetch(t) ==
  /\ t < now /\ t \notin store
  /\ store' = store \cup {t}
  /\ UNCHANGED <<now, code, edits, command, frozen>>

Edit(p) ==
  /\ edits < MaxEdits
  /\ EditsDuringRun \/ command = NoCommand
  /\ code' = [code EXCEPT ![p] = 1 - @]
  /\ edits' = edits + 1
  /\ UNCHANGED <<now, store, command, frozen>>

\* The command is killed, or an exception ends it.
Stopped == command' = NoCommand /\ UNCHANGED <<now, store, code, edits>>

Kill == command # NoCommand /\ Stopped /\ UNCHANGED frozen

-----------------------------------------------------------------------------
(* Evaluation.                                                             *)

Here == UNCHANGED <<now, store, code, edits>>

\* The baseline needs one segment with its warm-up, or run_backtest raises.
BaselineRuns(series) == \E s \in Segments(series) : HasWarmUp(s, BaselineWarm)

\* The candles are read once; the code is that of the running process.
Start(name) ==
  /\ command = NoCommand
  /\ PreCutoff(store) # {}
  /\ name = "research-backtest" => BaselineRuns(store)
  /\ command' = [NoCommand EXCEPT !.name = name, !.series = store, !.code = code]
  /\ Here /\ UNCHANGED frozen

\* The candidates are evaluated in the order of the registry.
Turn(c) == command.traded[c] = None /\ \A d \in 1..(c - 1) : command.traded[d] # None

\* run_candidate_blocked_chronological_evaluation and score_candidate.
EvaluateBlocks(c) ==
  /\ command.name = "research-backtest" /\ Turn(c)
  /\ LET windows == BlockedWindows(PreCutoff(command.series), Warm[c])
     IN  \E verdict \in {Verdict(r) : r \in [windows -> Results]} :
           command' = [command EXCEPT !.traded = [@ EXCEPT ![c] = windows],
                                      !.survivors = IF verdict = "RESEARCH_SURVIVOR"
                                                    THEN @ \cup {c} ELSE @]
  /\ Here /\ UNCHANGED frozen

\* run_candidate_fixed_duration_evaluation without a schedule.
EvaluateDurations(c) ==
  /\ command.name = "research-sensitivity" /\ Turn(c)
  /\ command' = [command EXCEPT
                    !.traded = [@ EXCEPT ![c] = FixedWindows(PreCutoff(command.series), Warm[c])]]
  /\ Here /\ UNCHANGED frozen

\* Anchored for the candidate with the longest warm-up.
Anchor == CHOOSE w \in {Warm[c] : c \in Candidates} : \A c \in Candidates : Warm[c] <= w

BuildSchedule ==
  /\ command.name = "research-round2" /\ command.schedule = None
  /\ LET windows == FixedWindows(PreCutoff(command.series), Anchor)
     IN  /\ ScheduleValid(windows)
         /\ command' = [command EXCEPT !.schedule = windows]
  /\ Here /\ UNCHANGED frozen

\* On the candles the schedule was built from, on those of the store by now or
\* on another series altogether; assert_pre_cutoff comes first.
EvaluateOnSchedule(c, series) ==
  /\ command.name = "research-round2" /\ command.schedule # None /\ Turn(c)
  /\ IF AllPreCutoff(series) /\ ScheduleApplies(series, command.schedule, Warm[c])
     THEN command' = [command EXCEPT
                         !.traded = [@ EXCEPT ![c] = TradedOnSchedule(series, command.schedule)]]
     ELSE command' = NoCommand
  /\ Here /\ UNCHANGED frozen

Evaluated == \A c \in Candidates : command.traded[c] # None

\* The other commands print what they found.
Report ==
  /\ command.name \in {"research-sensitivity", "research-round2"} /\ Evaluated
  /\ Stopped /\ UNCHANGED frozen

-----------------------------------------------------------------------------
(* Freezing.                                                               *)

\* Fault: only the clock is looked at.
BoundaryByClock(clock, series) == clock

BoundaryOf(clock, series) == Larger(clock, EndOf(series))

ReadClock ==
  /\ command.name = "research-backtest" /\ Evaluated /\ command.boundary = None
  /\ \E clock \in Larger(0, now - ClockLag)..now :
       command' = [command EXCEPT !.boundary = BoundaryOf(clock, command.series)]
  /\ Here /\ UNCHANGED frozen

\* The record and, to compare with, the code and the candles it stands for.
Record(file) ==
  [file |-> file, print |-> Fingerprint(code), boundary |-> command.boundary,
   code |-> command.code, seen |-> EndOf(command.series)]

Readable(c) == frozen[c] # None /\ frozen[c].file = "whole"

\* Of what a record says, only the code's fingerprints must be the same.
MayWrite(c) == frozen[c] = None \/ (Readable(c) /\ frozen[c].print = Fingerprint(code))

\* The survivors are frozen in the order of the scorecard.
ToFreeze(c) ==
  /\ command.name = "research-backtest" /\ command.boundary # None
  /\ command.saving = None
  /\ c \in command.survivors /\ \A d \in command.survivors : c <= d

\* path.write_text empties the file first.
BeginSave(c) ==
  /\ ToFreeze(c) /\ MayWrite(c)
  /\ frozen' = [frozen EXCEPT ![c] = Record("torn")]
  /\ command' = [command EXCEPT !.saving = c]
  /\ Here

EndSave(c) ==
  /\ command.saving = c
  /\ frozen' = [frozen EXCEPT ![c].file = "whole"]
  /\ command' = [command EXCEPT !.saving = None, !.survivors = @ \ {c}]
  /\ Here

\* FrozenCandidateVersionConflict, or a torn file that cannot be parsed: the
\* survivors after this one are not frozen either.
Refuse(c) == ToFreeze(c) /\ ~MayWrite(c) /\ Stopped /\ UNCHANGED frozen

Finish ==
  /\ command.name = "research-backtest" /\ command.boundary # None
  /\ command.survivors = {}
  /\ Stopped /\ UNCHANGED frozen

-----------------------------------------------------------------------------
(* The next test of a frozen candidate, as freeze.py demands it.           *)

\* validate_future_paper_test.
ForwardOnly(record, candles) == \A t \in candles : t >= record.boundary

\* assert_frozen_candidate_matches_current_implementation comes first.  A test
\* changes nothing, so whether it is accepted is all there is to it.
Accepted(c, candles) ==
  /\ Readable(c)
  /\ Fingerprint(code) = frozen[c].print
  /\ ForwardOnly(frozen[c], candles)

Next ==
  \/ Tick
  \/ \E t \in 0..(MaxTime - 1) : Fetch(t)
  \/ \E p \in Covered \cup Uncovered : Edit(p)
  \/ \E name \in Commands : Start(name)
  \/ \E c \in Candidates : EvaluateBlocks(c) \/ EvaluateDurations(c)
  \/ BuildSchedule
  \/ \E c \in Candidates : \E series \in {PreCutoff(command.series), store} \cup Series :
        EvaluateOnSchedule(c, series)
  \/ Report \/ Kill
  \/ ReadClock
  \/ \E c \in Candidates : BeginSave(c) \/ EndSave(c) \/ Refuse(c)
  \/ Finish

Spec == Init /\ [][Next]_vars

-----------------------------------------------------------------------------
(* Properties.                                                             *)

\* The state keeps its types.
TypeOK ==
  /\ now \in 0..MaxTime /\ store \subseteq 0..MaxTime
  /\ code \in [Covered \cup Uncovered -> {0, 1}] /\ edits \in 0..MaxEdits
  /\ command.name \in Commands \cup {"none"}
  /\ command.boundary \in 0..MaxTime \cup {None}
  /\ \A c \in Candidates : frozen[c] # None =>
       frozen[c].file \in {"whole", "torn"} /\ frozen[c].boundary \in 0..MaxTime

\* The candles of a window and of its warm-up.
Held(w) == w.from..(w.to - 1)

TradableCandles(series, warm) ==
  UNION {Tradable(s, warm)..(s.to - 1) : s \in {r \in Segments(series) : HasWarmUp(r, warm)}}

\* The windows are a candidate's alone: none overlaps another, and each lies
\* with its warm-up inside one gap-free segment.
WindowsProper(series, windows, warm) ==
  /\ Disjoint(windows)
  /\ \A w \in windows : w.from < w.to /\ (w.from - (warm - 1))..(w.to - 1) \subseteq series

CandlesOf(windows) == UNION {Held(w) : w \in windows}

\* Every evaluation of the command trades proper windows of candles before the
\* cutoff.  Equal blocks use every tradable candle, and two of a segment
\* differ by a candle at most; blocks of fixed duration use every one that is
\* not in a reported fragment or leftover, which is shorter than a block; the
\* number of them is what the gap recovery predicts.
WindowsSound ==
  command.name # "none" =>
    LET series == PreCutoff(command.series)
    IN  /\ \A c \in Candidates : command.traded[c] # None =>
             /\ WindowsProper(series, command.traded[c], Warm[c])
             /\ command.name = "research-backtest" =>
                  /\ CandlesOf(command.traded[c]) = TradableCandles(series, Warm[c])
                  /\ \A v, w \in command.traded[c] :
                       v.segment = w.segment => v.to - v.from <= w.to - w.from + 1
             /\ command.name = "research-sensitivity" =>
                  /\ \A w \in command.traded[c] : w.to - w.from = BlockLength
                  /\ Cardinality(command.traded[c]) = PredictedBlocks(series, Warm[c])
                  /\ TradableCandles(series, Warm[c]) =
                       CandlesOf(command.traded[c]) \cup CandlesOf(Leftovers(series, Warm[c]))
                         \cup UNION {Tradable(s, Warm[c])..(s.to - 1) : s \in Fragments(series, Warm[c])}
                  /\ \A w \in Leftovers(series, Warm[c]) : w.to - w.from < BlockLength
        /\ command.name = "research-backtest" =>
             WindowsProper(command.series, HoldoutWindows(command.series, BaselineWarm), BaselineWarm)

\* Candidates compared on one schedule trade its very windows, or the
\* comparison has no result: the assertion on identical windows never fails,
\* whatever happened to the candles since the schedule was built.
DatesIdentical ==
  command.schedule # None =>
    \A c \in Candidates : command.traded[c] # None => command.traded[c] = command.schedule

\* An accepted test used only candles later than any the freezing run had
\* loaded, with the fingerprinted code it evaluated.
TestsAreUntouched ==
  \A c \in Candidates, t \in store : Accepted(c, {t}) =>
    t >= frozen[c].seen /\ Fingerprint(code) = Fingerprint(frozen[c].code)

\* freeze.py: the fingerprints cover everything that could silently change a
\* frozen candidate's behavior.
TestedAsEvaluated ==
  \A c \in Candidates, t \in store : Accepted(c, {t}) => code = frozen[c].code
=============================================================================
