---------------------------- MODULE ResearchProofs ----------------------------
(***************************************************************************)
(* Theorems about ResearchProtocol, for any registry, store, cutoff and    *)
(* block length: candidates compared on one schedule trade its very        *)
(* windows, a frozen candidate is tested only on candles its freezing      *)
(* never saw, with the fingerprinted code it was evaluated with, and what  *)
(* is traded are windows that keep the promises of their mode.             *)
(***************************************************************************)
EXTENDS ResearchProtocol, Induction, FiniteSetTheorems, TLAPS

Times == 0..MaxTime

-----------------------------------------------------------------------------
(* The end of a series.                                                    *)

\* A set of numbers has a least one.
LEMMA LeastExists ==
  ASSUME NEW S \in SUBSET Nat, S # {}
  PROVE  \E x \in S : \A y \in S : x <= y
<1>1. PICK x \in S : \A y \in S : ~(<<y, x>> \in OpToRel(<, Nat))
  BY NatLessThanWellFounded, WFMin
<1>2. \A y \in S : ~(y < x) BY <1>1 DEF OpToRel
<1> QED BY <1>2

LEMMA EndTyped ==
  ASSUME NEW series \in SUBSET Times, series # {}
  PROVE  EndOf(series) \in Nat /\ \A t \in series : t < EndOf(series)
<1> DEFINE U == {e \in 0..(MaxTime + 1) : \A t \in series : t < e}
<1>0. MaxTime \in Nat BY ProtocolAssumption
<1>1. MaxTime + 1 \in U BY <1>0 DEF Times
<1>2. U \in SUBSET Nat /\ U # {} BY <1>1
<1>3. PICK e \in U : \A f \in U : e <= f
  <2> HIDE DEF U
  <2> QED BY <1>2, LeastExists
<1>4. e > 0 /\ e \in Nat
  <2>1. PICK t \in series : TRUE OBVIOUS
  <2>2. t \in Nat /\ t < e BY <1>0, <2>1 DEF Times
  <2> QED BY <2>2
<1>5. e - 1 \in series
  <2>1. SUFFICES ASSUME e - 1 \notin series PROVE FALSE OBVIOUS
  <2>2. \A t \in series : t < e - 1 BY <1>0, <1>4, <2>1 DEF Times
  <2>3. e - 1 \in U BY <1>0, <1>4, <2>2
  <2> QED BY <1>3, <1>4, <2>3
<1>6. \E x \in 0..(MaxTime + 1) : x - 1 \in series /\ \A t \in series : t < x
  BY <1>3, <1>5
<1>7. EndOf(series) \in 0..(MaxTime + 1) /\ \A t \in series : t < EndOf(series)
  BY <1>6 DEF EndOf
<1> QED BY <1>0, <1>7

-----------------------------------------------------------------------------
(* Segments and the windows of a schedule.                                 *)

LEMMA SegmentsTyped ==
  ASSUME NEW series \in SUBSET Times, NEW s \in Segments(series)
  PROVE  /\ s.from \in Nat /\ s.to \in Nat /\ s.from < s.to
         /\ s = [from |-> s.from, to |-> s.to]
         /\ s.from \in series /\ s.to - 1 \in series
         /\ s.from..(s.to - 1) \subseteq series /\ s.to \notin series /\ s.from - 1 \notin series
<1>1. series \subseteq Nat BY ProtocolAssumption DEF Times
<1>2. PICK t \in series : s.to = t + 1 BY DEF Segments
<1>3. s.from \in series /\ IsSegment(series, s.from, s.to) BY DEF Segments
<1>4. s = [from |-> s.from, to |-> s.to] BY DEF Segments
<1> QED BY <1>1, <1>2, <1>3, <1>4 DEF IsSegment

\* Two segments that begin alike are the same.
LEMMA SegmentByStart ==
  ASSUME NEW series \in SUBSET Times, NEW s \in Segments(series), NEW r \in Segments(series),
         s.from = r.from
  PROVE  s = r
<1>1. /\ s.from \in Nat /\ s.to \in Nat /\ s.from < s.to
      /\ s.from..(s.to - 1) \subseteq series /\ s.to \notin series
      /\ s = [from |-> s.from, to |-> s.to]
  BY SegmentsTyped
<1>2. /\ r.to \in Nat /\ r.from < r.to
      /\ r.from..(r.to - 1) \subseteq series /\ r.to \notin series
      /\ r = [from |-> r.from, to |-> r.to]
  BY SegmentsTyped
<1>3. ~(s.to < r.to)
  <2>1. s.to < r.to => s.to \in r.from..(r.to - 1) BY <1>1, <1>2
  <2> QED BY <1>1, <1>2, <2>1
<1>4. ~(r.to < s.to)
  <2>1. r.to < s.to => r.to \in s.from..(s.to - 1) BY <1>1, <1>2
  <2> QED BY <1>1, <1>2, <2>1
<1>5. s.to = r.to BY <1>1, <1>2, <1>3, <1>4
<1> QED BY <1>1, <1>2, <1>5

LEMMA SegmentsFinite ==
  ASSUME NEW series \in SUBSET Times PROVE IsFiniteSet(Segments(series))
<1> DEFINE f == [t \in Times |-> CHOOSE s \in Segments(series) : s.from = t]
<1>0. MaxTime \in Int BY ProtocolAssumption
<1>1. IsFiniteSet(Times) BY <1>0, FS_Interval DEF Times
<1>2. IsFiniteSet({f[t] : t \in Times})
  <2> DEFINE T == {f[t] : t \in Times}
  <2>1. f \in [Times -> T] /\ \A y \in T : \E t \in Times : f[t] = y OBVIOUS
  <2>2. f \in Surjection(Times, T) BY <2>1 DEF Surjection
  <2> HIDE DEF f, T
  <2>3. IsFiniteSet(T) BY <1>1, <2>2, FS_Surjection
  <2> QED BY <2>3 DEF T
<1>3. Segments(series) \subseteq {f[t] : t \in Times}
  <2> SUFFICES ASSUME NEW s \in Segments(series) PROVE \E t \in Times : s = f[t] OBVIOUS
  <2>1. s.from \in Times BY SegmentsTyped
  <2>2. f[s.from] \in Segments(series) /\ f[s.from].from = s.from BY <2>1
  <2>3. f[s.from] = s
    <3> HIDE DEF f
    <3> QED BY <2>2, SegmentByStart
  <2> QED BY <2>1, <2>3
<1> HIDE DEF f
<1> QED BY <1>2, <1>3, FS_Subset

\* The index tells segments apart.
LEMMA SegmentByIndex ==
  ASSUME NEW series \in SUBSET Times, NEW s \in Segments(series), NEW r \in Segments(series),
         IndexOf(series, s) = IndexOf(series, r)
  PROVE  s = r
<1> DEFINE before(x) == {y \in Segments(series) : y.from < x.from}
<1>1. ASSUME NEW x \in Segments(series), NEW y \in Segments(series), x.from < y.from
      PROVE  IndexOf(series, x) # IndexOf(series, y)
  <2>1. IsFiniteSet(before(y)) BY SegmentsFinite, FS_Subset
  <2>2. x.from \in Nat /\ y.from \in Nat /\ \A z \in Segments(series) : z.from \in Nat
    BY SegmentsTyped
  <2>3. before(x) \subseteq before(y) BY <1>1, <2>2
  <2>4. x \in before(y) /\ x \notin before(x) BY <1>1, <2>2
  <2>5. before(x) # before(y) BY <2>4
  <2> HIDE DEF before
  <2>6. Cardinality(before(x)) < Cardinality(before(y)) /\ Cardinality(before(x)) \in Nat
        /\ Cardinality(before(y)) \in Nat
    BY <2>1, <2>3, <2>5, FS_Subset, FS_CardinalityType
  <2>7. IndexOf(series, x) = Cardinality(before(x)) /\ IndexOf(series, y) = Cardinality(before(y))
    BY DEF IndexOf, before
  <2> QED BY <2>6, <2>7
<1>2. s.from \in Nat /\ r.from \in Nat BY SegmentsTyped
<1>3. ~(s.from < r.from) /\ ~(r.from < s.from) BY <1>1
<1>4. s.from = r.from BY <1>2, <1>3
<1> QED BY <1>4, SegmentByStart

WindowRecords == [segment : Nat, from : Nat, to : Nat]

\* A window found completely and with its warm-up is found as it is.
LEMMA FoundIsWindow ==
  ASSUME NEW s, s.from \in Nat, s.to \in Nat, s.from < s.to,
         NEW w \in WindowRecords, w.from < w.to, NEW warm \in Nat \ {0, 1},
         CompletelyFound(s, w), WarmedUp(s, w, warm)
  PROVE  Found(s, w) = w
<1> DEFINE from == Lesser(Larger(w.from, s.from), s.to)
           to == Larger(from, Lesser(Larger(w.to, s.from), s.to))
<1>1. Found(s, w) = [segment |-> w.segment, from |-> from, to |-> to] BY DEF Found, Window
<1>2. from < to /\ ~(to = s.to /\ s.to < w.to) /\ from - (warm - 1) >= s.from
  BY <1>1 DEF CompletelyFound, WarmedUp
<1>3. w.from \in Nat /\ w.to \in Nat /\ w = [segment |-> w.segment, from |-> w.from, to |-> w.to]
  BY DEF WindowRecords
<1>4. from = w.from BY <1>2, <1>3 DEF Lesser, Larger
<1>5. to = w.to BY <1>2, <1>3, <1>4 DEF Lesser, Larger
<1> QED BY <1>1, <1>3, <1>4, <1>5

\* What is traded on an applicable schedule is the schedule.
LEMMA TradedIsSchedule ==
  ASSUME NEW series \in SUBSET Times, NEW schedule \in SUBSET WindowRecords,
         \A w \in schedule : w.from < w.to,
         NEW warm \in Nat \ {0, 1}, ScheduleApplies(series, schedule, warm)
  PROVE  TradedOnSchedule(series, schedule) = schedule
<1>1. ASSUME NEW w \in schedule
      PROVE  {Found(s, w) : s \in SegmentsAt(series, w.segment)} = {w}
  <2>1. PICK s \in SegmentsAt(series, w.segment) :
          CompletelyFound(s, w) /\ WarmedUp(s, w, warm)
    BY DEF ScheduleApplies
  <2>2. s \in Segments(series) /\ IndexOf(series, s) = w.segment BY DEF SegmentsAt
  <2>3. Found(s, w) = w BY <2>1, <2>2, SegmentsTyped, FoundIsWindow
  <2>4. \A r \in SegmentsAt(series, w.segment) : r = s
    BY <2>2, SegmentByIndex DEF SegmentsAt
  <2> QED BY <2>3, <2>4
<1> QED BY <1>1 DEF TradedOnSchedule

-----------------------------------------------------------------------------
(* The dates of a comparison.                                              *)

Fields == {"name", "series", "code", "schedule", "traded", "survivors", "boundary", "saving"}

\* What the steps of a command and of the world never leave.
Shape ==
  /\ DOMAIN command = Fields /\ DOMAIN command.traded = Candidates
  /\ now \in Nat /\ store \in SUBSET Times /\ command.series \in SUBSET Times

\* Windows of candles, none of them empty.
Proper(windows) == windows \in SUBSET WindowRecords /\ \A w \in windows : w.from < w.to

\* Only research-round2 has a schedule, and no candidate is evaluated before.
Scheduled ==
  /\ command.schedule # None => command.name = "research-round2" /\ Proper(command.schedule)
  /\ command.name = "research-round2" /\ command.schedule = None =>
       \A c \in Candidates : command.traded[c] = None

LEMMA AnchorTyped == Anchor \in Nat \ {0, 1}
<1>1. PICK c \in Candidates : \A d \in Candidates : Warm[d] <= Warm[c]
  BY LongestWarmUp DEF Candidates
<1>2. \E w \in {Warm[d] : d \in Candidates} : \A d \in Candidates : Warm[d] <= w BY <1>1
<1>3. Anchor \in {Warm[d] : d \in Candidates} BY <1>2 DEF Anchor
<1> QED BY <1>3, ProtocolAssumption DEF Candidates

\* The windows built are windows of candles, where _validate_schedule accepts them.
LEMMA ScheduleProper ==
  ASSUME NEW series \in SUBSET Times, NEW warm \in Nat \ {0, 1},
         ScheduleValid(FixedWindows(series, warm))
  PROVE  Proper(FixedWindows(series, warm))
<1> SUFFICES ASSUME NEW w \in FixedWindows(series, warm)
             PROVE  w \in WindowRecords /\ w.from < w.to
  BY DEF Proper
<1>0. BlockLength \in Nat \ {0} BY WindowAssumption
<1>1. PICK s \in Segments(series) :
        w \in {FixedWindow(series, s, warm, k) : k \in 0..(CompleteBlocks(s, warm) - 1)}
  BY DEF FixedWindows
<1>2. PICK k \in 0..(CompleteBlocks(s, warm) - 1) : w = FixedWindow(series, s, warm, k)
  BY <1>1
<1>3. s.from \in Nat /\ s.to \in Nat /\ s.from < s.to BY SegmentsTyped
<1>4. CompleteBlocks(s, warm) \in Int
  <2>1. (s.to - Tradable(s, warm)) \in Int BY <1>3 DEF Tradable
  <2>2. (s.to - Tradable(s, warm)) \div BlockLength \in Int BY <1>0, <2>1
  <2> QED BY <2>2 DEF CompleteBlocks
<1>5. k \in Nat BY <1>4
<1>6. k * BlockLength \in Nat /\ (k + 1) * BlockLength \in Nat BY <1>0, <1>5
<1>7. Tradable(s, warm) \in Nat BY <1>3 DEF Tradable
<1>8. IndexOf(series, s) \in Nat
  <2>1. {r \in Segments(series) : r.from < s.from} \subseteq Segments(series) OBVIOUS
  <2>2. IsFiniteSet({r \in Segments(series) : r.from < s.from})
    BY <2>1, SegmentsFinite, FS_Subset
  <2> QED BY <2>2, FS_CardinalityType DEF IndexOf
<1>9. w \in WindowRecords
  <2>1. w = [segment |-> IndexOf(series, s), from |-> Tradable(s, warm) + k * BlockLength,
             to |-> Tradable(s, warm) + (k + 1) * BlockLength]
    BY <1>2 DEF FixedWindow, Window
  <2> QED BY <1>6, <1>7, <1>8, <2>1 DEF WindowRecords
<1>10. w.to - w.from = BlockLength BY DEF ScheduleValid
<1> QED BY <1>0, <1>9, <1>10 DEF WindowRecords

LEMMA NoCommandShape ==
  /\ DOMAIN NoCommand = Fields /\ DOMAIN NoCommand.traded = Candidates
  /\ NoCommand.name = "none" /\ NoCommand.series = {} /\ NoCommand.schedule = None
  /\ NoCommand.boundary = None /\ NoCommand.saving = None
  /\ \A c \in Candidates : NoCommand.traded[c] = None
BY DEF NoCommand, Fields

DatesInv == Shape /\ Scheduled /\ DatesIdentical

LEMMA DatesInitially == Init => DatesInv
<1> SUFFICES ASSUME Init PROVE DatesInv OBVIOUS
<1>0. store \in Series /\ now = EndOf(store) BY DEF Init
<1>1. store \in SUBSET Times /\ store # {} BY <1>0, ProtocolAssumption DEF Times
<1>2. now \in Nat BY <1>0, <1>1, EndTyped
<1>3. command = NoCommand BY DEF Init
<1> QED BY <1>1, <1>2, <1>3, NoCommandShape DEF DatesInv, Shape, Scheduled, DatesIdentical

\* The time and the store whatever the command does.
LEMMA WorldShape ==
  ASSUME DatesInv, [Next]_vars
  PROVE  now' \in Nat /\ store' \in SUBSET Times
<1> USE DEF DatesInv, Shape
<1>1. CASE Tick BY <1>1 DEF Tick
<1>2. ASSUME NEW t \in 0..(MaxTime - 1), Fetch(t) PROVE now' \in Nat /\ store' \in SUBSET Times
  BY <1>2, ProtocolAssumption DEF Fetch, Times
<1>3. CASE UNCHANGED <<now, store>> BY <1>3
<1> QED BY <1>1, <1>2, <1>3 DEF Next, vars, Edit, Start, EvaluateBlocks, EvaluateDurations,
       BuildSchedule, EvaluateOnSchedule, Report, Kill, ReadClock, BeginSave, EndSave, Refuse,
       Finish, Stopped, Here

\* A command that ends leaves nothing behind.
LEMMA DatesStopped ==
  ASSUME DatesInv, [Next]_vars, command' = NoCommand PROVE DatesInv'
BY WorldShape, NoCommandShape DEF DatesInv, Shape, Scheduled, DatesIdentical

\* A step that leaves the schedule and what was traded as they are.
LEMMA DatesUntouched ==
  ASSUME DatesInv, [Next]_vars,
         DOMAIN command' = Fields,
         \A f \in {"name", "series", "schedule", "traded"} : command'[f] = command[f]
  PROVE  DatesInv'
<1>1. /\ command'.name = command.name /\ command'.series = command.series
      /\ command'.schedule = command.schedule /\ command'.traded = command.traded
  OBVIOUS
<1>2. Shape' BY <1>1, WorldShape DEF DatesInv, Shape
<1>3. Scheduled' BY <1>1 DEF DatesInv, Scheduled
<1>4. DatesIdentical' BY <1>1 DEF DatesInv, DatesIdentical
<1> QED BY <1>2, <1>3, <1>4 DEF DatesInv

\* A step that evaluates candidate c, without a schedule or on it.
LEMMA DatesTraded ==
  ASSUME DatesInv, [Next]_vars, NEW c \in Candidates, NEW windows,
         DOMAIN command' = Fields,
         \A f \in {"name", "series", "schedule"} : command'[f] = command[f],
         command'.traded = [command.traded EXCEPT ![c] = windows],
         \/ command.name # "research-round2"
         \/ command.schedule # None /\ windows = command.schedule
  PROVE  DatesInv'
<1>1. /\ command'.name = command.name /\ command'.series = command.series
      /\ command'.schedule = command.schedule
  OBVIOUS
<1>2. DOMAIN command.traded = Candidates BY DEF DatesInv, Shape
<1>3. Shape' BY <1>1, <1>2, WorldShape DEF DatesInv, Shape
<1>4. Scheduled' BY <1>1, <1>2 DEF DatesInv, Scheduled
<1>5. DatesIdentical' BY <1>1, <1>2 DEF DatesInv, Scheduled, DatesIdentical
<1> QED BY <1>3, <1>4, <1>5 DEF DatesInv

LEMMA DatesPreserved == DatesInv /\ [Next]_vars => DatesInv'
<1> SUFFICES ASSUME DatesInv, [Next]_vars PROVE DatesInv' OBVIOUS
<1> DOMAIN command = Fields BY DEF DatesInv, Shape
<1>1. CASE UNCHANGED command BY <1>1, DatesUntouched
<1>2. CASE command' = NoCommand BY <1>2, DatesStopped
<1>3. ASSUME NEW name \in Commands, Start(name) PROVE DatesInv'
  <2>1. store \in SUBSET Times BY DEF DatesInv, Shape
  <2>2. /\ command'.name = name /\ command'.series = store /\ command'.schedule = None
        /\ command'.traded = NoCommand.traded /\ DOMAIN command' = Fields
    BY <1>3, NoCommandShape DEF Start, NoCommand, Fields
  <2> QED BY <2>1, <2>2, WorldShape, NoCommandShape DEF DatesInv, Shape, Scheduled, DatesIdentical
<1>4. ASSUME NEW c \in Candidates, EvaluateBlocks(c) PROVE DatesInv'
  <2> DEFINE windows == BlockedWindows(PreCutoff(command.series), Warm[c])
  <2>1. PICK verdict : command' = [command EXCEPT !.traded = [@ EXCEPT ![c] = windows],
                                     !.survivors = IF verdict = "RESEARCH_SURVIVOR"
                                                   THEN @ \cup {c} ELSE @]
    BY <1>4 DEF EvaluateBlocks
  <2>2. command.name = "research-backtest" BY <1>4 DEF EvaluateBlocks
  <2> HIDE DEF windows
  <2>3. /\ command'.traded = [command.traded EXCEPT ![c] = windows] /\ DOMAIN command' = Fields
        /\ \A f \in {"name", "series", "schedule"} : command'[f] = command[f]
    BY <2>1 DEF Fields
  <2> QED BY <2>2, <2>3, DatesTraded
<1>5. ASSUME NEW c \in Candidates, EvaluateDurations(c) PROVE DatesInv'
  <2> DEFINE windows == FixedWindows(PreCutoff(command.series), Warm[c])
  <2>1. /\ command' = [command EXCEPT !.traded = [@ EXCEPT ![c] = windows]]
        /\ command.name = "research-sensitivity"
    BY <1>5 DEF EvaluateDurations
  <2> HIDE DEF windows
  <2>2. /\ command'.traded = [command.traded EXCEPT ![c] = windows] /\ DOMAIN command' = Fields
        /\ \A f \in {"name", "series", "schedule"} : command'[f] = command[f]
    BY <2>1 DEF Fields
  <2> QED BY <2>1, <2>2, DatesTraded
<1>6. CASE BuildSchedule
  <2> DEFINE windows == FixedWindows(PreCutoff(command.series), Anchor)
  <2>1. /\ ScheduleValid(windows) /\ command' = [command EXCEPT !.schedule = windows]
        /\ command.name = "research-round2" /\ command.schedule = None
    BY <1>6 DEF BuildSchedule
  <2>2. command.series \in SUBSET Times /\ PreCutoff(command.series) \in SUBSET Times
    BY DEF DatesInv, Shape, PreCutoff
  <2>3. Proper(windows) BY <2>1, <2>2, AnchorTyped, ScheduleProper
  <2> HIDE DEF windows
  <2>4. /\ command'.schedule = windows /\ DOMAIN command' = Fields
        /\ command'.name = command.name /\ command'.series = command.series
        /\ command'.traded = command.traded
    BY <2>1 DEF Fields
  <2>5. \A c \in Candidates : command.traded[c] = None BY <2>1 DEF DatesInv, Scheduled
  <2>6. Shape' BY <2>4, WorldShape DEF DatesInv, Shape
  <2>7. Scheduled' BY <2>1, <2>3, <2>4, <2>5 DEF Scheduled
  <2>8. DatesIdentical' BY <2>4, <2>5 DEF DatesIdentical
  <2> QED BY <2>6, <2>7, <2>8 DEF DatesInv
<1>7. ASSUME NEW c \in Candidates, NEW series \in {PreCutoff(command.series), store} \cup Series,
             EvaluateOnSchedule(c, series)
      PROVE  DatesInv'
  <2>1. CASE command' = NoCommand BY <2>1, DatesStopped
  <2>2. ASSUME ScheduleApplies(series, command.schedule, Warm[c]),
               command' = [command EXCEPT
                             !.traded = [@ EXCEPT ![c] = TradedOnSchedule(series, command.schedule)]]
        PROVE  DatesInv'
    <3> DEFINE windows == TradedOnSchedule(series, command.schedule)
    <3>1. series \in SUBSET Times
      BY ProtocolAssumption DEF DatesInv, Shape, PreCutoff, Times
    <3>2. command.schedule # None BY <1>7 DEF EvaluateOnSchedule
    <3>3. command.schedule \in SUBSET WindowRecords /\ \A w \in command.schedule : w.from < w.to
      BY <3>2 DEF DatesInv, Scheduled, Proper
    <3>4. Warm[c] \in Nat \ {0, 1} BY ProtocolAssumption DEF Candidates
    <3>5. windows = command.schedule BY <2>2, <3>1, <3>3, <3>4, TradedIsSchedule
    <3> HIDE DEF windows
    <3>6. /\ command'.traded = [command.traded EXCEPT ![c] = windows] /\ DOMAIN command' = Fields
          /\ \A f \in {"name", "series", "schedule"} : command'[f] = command[f]
      BY <2>2 DEF Fields, windows
    <3> QED BY <3>2, <3>5, <3>6, DatesTraded
  <2> QED BY <1>7, <2>1, <2>2 DEF EvaluateOnSchedule
<1>8. CASE ReadClock
  <2>1. PICK boundary : command' = [command EXCEPT !.boundary = boundary] BY <1>8 DEF ReadClock
  <2>2. /\ DOMAIN command' = Fields
        /\ \A f \in {"name", "series", "schedule", "traded"} : command'[f] = command[f]
    BY <2>1 DEF Fields
  <2> QED BY <2>2, DatesUntouched
<1>9. ASSUME NEW c \in Candidates, BeginSave(c) \/ EndSave(c) PROVE DatesInv'
  <2>1. /\ DOMAIN command' = Fields
        /\ \A f \in {"name", "series", "schedule", "traded"} : command'[f] = command[f]
    BY <1>9 DEF Fields, BeginSave, EndSave
  <2> QED BY <2>1, DatesUntouched
<1> QED
  BY <1>1, <1>2, <1>3, <1>4, <1>5, <1>6, <1>7, <1>8, <1>9
  DEF Next, vars, Tick, Fetch, Edit, Report, Kill, Refuse, Finish, Stopped

\* _evaluate_duration_block trades the schedule's very windows or raises:
\* candidates compared on one schedule trade the same dates, whatever was
\* fetched, recovered or left out since it was built.
THEOREM DatesAlwaysIdentical == Spec => []DatesIdentical
<1>1. DatesInv => DatesIdentical BY DEF DatesInv
<1> QED BY <1>1, DatesInitially, DatesPreserved, PTL DEF Spec

-----------------------------------------------------------------------------
(* The test of a frozen candidate.                                         *)

\* The code of a running command is the code on disk while nobody edits it.
CodeKept == command.name # "none" => command.series # {} /\ command.code = code

\* The boundary is not before the end of the candles the command read.
BoundaryKept ==
  command.boundary # None => command.boundary \in Int /\ command.boundary >= EndOf(command.series)

\* A whole record or a torn one says the same.
Kept(record) ==
  /\ DOMAIN record = {"file", "print", "boundary", "code", "seen"}
  /\ record.boundary \in Int /\ record.seen \in Int /\ record.boundary >= record.seen
  /\ record.print = Fingerprint(record.code)

FrozenKept ==
  /\ DOMAIN frozen = Candidates
  /\ \A c \in Candidates : frozen[c] # None => Kept(frozen[c])
  /\ \A c \in Candidates : command.saving = c => Kept(frozen[c])

\* A command that has a boundary or a file open is running.
Running ==
  command.boundary # None \/ command.saving # None => command.name = "research-backtest"

TestsInv == Shape /\ Running /\ CodeKept /\ BoundaryKept /\ FrozenKept

LEMMA TestsInitially == Init => TestsInv
<1> SUFFICES ASSUME Init PROVE TestsInv OBVIOUS
<1>1. Shape BY DatesInitially DEF DatesInv
<1>2. command = NoCommand /\ frozen = [c \in Candidates |-> None] BY DEF Init
<1>3. None \notin Candidates BY ProtocolAssumption DEF Candidates
<1> QED BY <1>1, <1>2, <1>3, NoCommandShape DEF TestsInv, Running, CodeKept, BoundaryKept, FrozenKept

\* A command that ends.
LEMMA TestsStopped ==
  ASSUME TestsInv, Shape', command' = NoCommand, UNCHANGED frozen PROVE TestsInv'
<1>1. None \notin Candidates BY ProtocolAssumption DEF Candidates
<1> QED BY <1>1, NoCommandShape DEF TestsInv, Running, CodeKept, BoundaryKept, FrozenKept

\* A step that touches neither the boundary nor the files.
LEMMA TestsUntouched ==
  ASSUME TestsInv, Shape', UNCHANGED frozen,
         \A f \in {"name", "series", "code", "boundary", "saving"} : command'[f] = command[f],
         command.name # "none" => UNCHANGED code
  PROVE  TestsInv'
<1>1. /\ command'.name = command.name /\ command'.series = command.series
      /\ command'.code = command.code /\ command'.boundary = command.boundary
      /\ command'.saving = command.saving
  OBVIOUS
<1> QED BY <1>1 DEF TestsInv, Running, CodeKept, BoundaryKept, FrozenKept

LEMMA TestsPreserved ==
  ASSUME ~EditsDuringRun PROVE DatesInv /\ TestsInv /\ [Next]_vars => TestsInv'
<1> SUFFICES ASSUME DatesInv, TestsInv, [Next]_vars PROVE TestsInv' OBVIOUS
<1>0. Shape' BY DatesPreserved DEF DatesInv
<1> DOMAIN command = Fields BY DEF TestsInv, Shape
<1> None \notin Candidates BY ProtocolAssumption DEF Candidates
<1>1. CASE UNCHANGED <<command, frozen, code>> BY <1>0, <1>1, TestsUntouched
<1>2. CASE command' = NoCommand /\ UNCHANGED frozen BY <1>0, <1>2, TestsStopped
<1>3. ASSUME NEW p \in Covered \cup Uncovered, Edit(p) PROVE TestsInv'
  <2>1. command = NoCommand /\ UNCHANGED <<command, frozen>> BY <1>3 DEF Edit
  <2> QED BY <1>0, <2>1, NoCommandShape, TestsUntouched
<1>4. ASSUME NEW name \in Commands, Start(name) PROVE TestsInv'
  <2>1. store # {} BY <1>4 DEF Start, PreCutoff
  <2>2. /\ command'.name = name /\ command'.series = store /\ command'.code = code
        /\ command'.boundary = None /\ command'.saving = None /\ UNCHANGED <<code, frozen>>
    BY <1>4 DEF Start, NoCommand, Here
  <2> QED BY <1>0, <2>1, <2>2 DEF TestsInv, Running, CodeKept, BoundaryKept, FrozenKept
<1>5. ASSUME UNCHANGED <<code, frozen>>,
             \A f \in {"name", "series", "code", "boundary", "saving"} : command'[f] = command[f]
      PROVE  TestsInv'
  BY <1>0, <1>5, TestsUntouched
<1>6. ASSUME NEW c \in Candidates, EvaluateBlocks(c) \/ EvaluateDurations(c) PROVE TestsInv'
  <2>1. CASE EvaluateBlocks(c)
    <3>1. PICK traded, survivors :
            command' = [command EXCEPT !.traded = traded, !.survivors = survivors]
      BY <2>1 DEF EvaluateBlocks
    <3>2. UNCHANGED <<code, frozen>> BY <2>1 DEF EvaluateBlocks, Here
    <3> QED BY <1>5, <3>1, <3>2 DEF Fields
  <2>2. CASE EvaluateDurations(c)
    <3>1. PICK traded : command' = [command EXCEPT !.traded = traded]
      BY <2>2 DEF EvaluateDurations
    <3>2. UNCHANGED <<code, frozen>> BY <2>2 DEF EvaluateDurations, Here
    <3> QED BY <1>5, <3>1, <3>2 DEF Fields
  <2> QED BY <1>6, <2>1, <2>2
<1>7. CASE BuildSchedule
  <2>1. PICK schedule : command' = [command EXCEPT !.schedule = schedule]
    BY <1>7 DEF BuildSchedule
  <2>2. UNCHANGED <<code, frozen>> BY <1>7 DEF BuildSchedule, Here
  <2> QED BY <1>5, <2>1, <2>2 DEF Fields
<1>8. ASSUME NEW c \in Candidates, NEW series, EvaluateOnSchedule(c, series) PROVE TestsInv'
  <2>1. UNCHANGED <<code, frozen>> BY <1>8 DEF EvaluateOnSchedule, Here
  <2>2. CASE command' = NoCommand BY <1>2, <2>1, <2>2
  <2>3. ASSUME NEW traded, command' = [command EXCEPT !.traded = traded] PROVE TestsInv'
    BY <1>5, <2>1, <2>3 DEF Fields
  <2> QED BY <1>8, <2>2, <2>3 DEF EvaluateOnSchedule
<1>9. CASE ReadClock
  <2>1. PICK clock \in Larger(0, now - ClockLag)..now :
          command' = [command EXCEPT !.boundary = BoundaryOf(clock, command.series)]
    BY <1>9 DEF ReadClock
  <2>2. command.name = "research-backtest" /\ UNCHANGED <<code, frozen>>
    BY <1>9 DEF ReadClock, Here
  <2>3. command.series \in SUBSET Times /\ command.series # {}
    BY <2>2 DEF TestsInv, Shape, CodeKept
  <2>4. EndOf(command.series) \in Nat BY <2>3, EndTyped
  <2>5. clock \in Int
    BY ProtocolAssumption DEF TestsInv, Shape, Larger
  <2> DEFINE boundary == BoundaryOf(clock, command.series)
  <2>6. boundary \in Int /\ boundary >= EndOf(command.series)
    BY <2>4, <2>5 DEF BoundaryOf, Larger
  <2> HIDE DEF boundary
  <2>7. /\ command'.boundary = boundary /\ command'.name = command.name
        /\ command'.series = command.series /\ command'.code = command.code
        /\ command'.saving = command.saving
    BY <2>1 DEF Fields, boundary
  <2> QED BY <1>0, <2>2, <2>6, <2>7 DEF TestsInv, Running, CodeKept, BoundaryKept, FrozenKept
<1>10. ASSUME NEW c \in Candidates, BeginSave(c) PROVE TestsInv'
  <2>1. /\ command.name = "research-backtest" /\ command.boundary # None
        /\ frozen' = [frozen EXCEPT ![c] = Record("torn")]
        /\ command' = [command EXCEPT !.saving = c] /\ UNCHANGED code
    BY <1>10 DEF BeginSave, ToFreeze, Here
  <2>2. /\ command.series \in SUBSET Times /\ command.series # {} /\ command.code = code
        /\ command.boundary \in Int /\ command.boundary >= EndOf(command.series)
    BY <2>1 DEF TestsInv, Shape, CodeKept, BoundaryKept
  <2>3. EndOf(command.series) \in Nat BY <2>2, EndTyped
  <2>4. Kept(Record("torn")) BY <2>2, <2>3 DEF Kept, Record
  <2> DEFINE record == Record("torn")
  <2> HIDE DEF record
  <2>5. /\ command'.name = command.name /\ command'.boundary = command.boundary
        /\ command'.series = command.series /\ command'.code = command.code
        /\ command'.saving = c
    BY <2>1 DEF Fields
  <2>6. Running' /\ CodeKept' /\ BoundaryKept'
    BY <2>1, <2>5 DEF TestsInv, Running, CodeKept, BoundaryKept
  <2>7. FrozenKept' BY <2>1, <2>4, <2>5 DEF TestsInv, FrozenKept
  <2> QED BY <1>0, <2>6, <2>7 DEF TestsInv
<1>11. ASSUME NEW c \in Candidates, EndSave(c) PROVE TestsInv'
  <2>1. /\ command.saving = c /\ frozen' = [frozen EXCEPT ![c] = [@ EXCEPT !.file = "whole"]]
        /\ command' = [command EXCEPT !.saving = None, !.survivors = @ \ {c}]
        /\ UNCHANGED code
    BY <1>11 DEF EndSave, Here
  <2>2. /\ command'.name = command.name /\ command'.boundary = command.boundary
        /\ command'.series = command.series /\ command'.code = command.code
        /\ command'.saving = None
    BY <2>1 DEF Fields
  <2>3. Running' /\ CodeKept' /\ BoundaryKept'
    BY <2>1, <2>2 DEF TestsInv, Running, CodeKept, BoundaryKept
  <2>4. Kept(frozen[c]) BY <2>1 DEF TestsInv, FrozenKept
  <2>5. Kept([frozen[c] EXCEPT !.file = "whole"]) BY <2>4 DEF Kept
  <2>6. FrozenKept' BY <2>1, <2>2, <2>5 DEF TestsInv, FrozenKept
  <2> QED BY <1>0, <2>3, <2>6 DEF TestsInv
<1>12. CASE Tick \/ \E t \in 0..(MaxTime - 1) : Fetch(t) BY <1>1, <1>12 DEF Tick, Fetch
<1>13. CASE Report \/ Kill \/ Finish \/ \E c \in Candidates : Refuse(c)
  BY <1>2, <1>13 DEF Report, Kill, Finish, Refuse, Stopped
<1> QED
  BY <1>1, <1>3, <1>4, <1>6, <1>7, <1>8, <1>9, <1>10, <1>11, <1>12, <1>13 DEF Next, vars

\* validate_future_paper_test and the fingerprint check before it: while nobody
\* edits the code of a command that runs, an accepted test used candles later
\* than any the freezing run had read, and the fingerprinted code of that run.
THEOREM TestsAlwaysUntouched == ASSUME ~EditsDuringRun PROVE Spec => []TestsAreUntouched
<1>1. DatesInv /\ TestsInv => TestsAreUntouched
  <2> SUFFICES ASSUME DatesInv, TestsInv, NEW c \in Candidates, NEW t \in store, Accepted(c, {t})
               PROVE  /\ t >= frozen[c].seen
                      /\ Fingerprint(code) = Fingerprint(frozen[c].code)
    BY DEF TestsAreUntouched
  <2>1. Kept(frozen[c]) BY DEF TestsInv, FrozenKept, Accepted, Readable
  <2>2. t \in Int BY ProtocolAssumption DEF TestsInv, Shape, Times
  <2>3. t >= frozen[c].boundary BY DEF Accepted, ForwardOnly
  <2> QED BY <2>1, <2>2, <2>3 DEF Kept, Accepted
<1> QED BY <1>1, DatesInitially, DatesPreserved, TestsInitially, TestsPreserved, PTL DEF Spec

-----------------------------------------------------------------------------
(* The windows of an evaluation.                                           *)

LEMMA QuotientBounds ==
  \A n \in Nat, d \in Nat \ {0} :
    n \div d \in Nat /\ (n \div d) * d <= n /\ n < (n \div d) * d + d
BY SMT

LEMMA ProductMonotone ==
  ASSUME NEW a \in Nat, NEW b \in Nat, NEW c \in Nat, a <= b
  PROVE  a * c <= b * c
<1>1. PICK d \in Nat : b = a + d
  <2>1. b - a \in Nat /\ b = a + (b - a) OBVIOUS
  <2> QED BY <2>1
<1>2. b * c = a * c + d * c BY <1>1
<1>3. a * c \in Nat /\ d * c \in Nat OBVIOUS
<1> QED BY <1>2, <1>3

LEMMA NextMultiple ==
  ASSUME NEW k \in Nat, NEW d \in Nat
  PROVE  k * d \in Nat /\ (k + 1) * d = k * d + d
OBVIOUS

\* Between two segments lies a gap.
LEMMA SegmentsApart ==
  ASSUME NEW series \in SUBSET Times, NEW s \in Segments(series), NEW r \in Segments(series),
         s # r
  PROVE  s.to <= r.from \/ r.to <= s.from
<1>1. /\ s.from \in Nat /\ s.to \in Nat /\ s.from < s.to
      /\ s.from..(s.to - 1) \subseteq series /\ s.from - 1 \notin series
  BY SegmentsTyped
<1>2. /\ r.from \in Nat /\ r.to \in Nat /\ r.from < r.to
      /\ r.from..(r.to - 1) \subseteq series /\ r.from - 1 \notin series
  BY SegmentsTyped
<1>3. s.from # r.from BY SegmentByStart
<1>4. CASE s.from < r.from
  <2>1. r.from < s.to => r.from - 1 \in s.from..(s.to - 1) BY <1>1, <1>2, <1>4
  <2> QED BY <1>1, <1>2, <2>1
<1>5. CASE r.from < s.from
  <2>1. s.from < r.to => s.from - 1 \in r.from..(r.to - 1) BY <1>1, <1>2, <1>5
  <2> QED BY <1>1, <1>2, <2>1
<1> QED BY <1>1, <1>2, <1>3, <1>4, <1>5

LEMMA IndexTyped ==
  ASSUME NEW series \in SUBSET Times, NEW s
  PROVE  IndexOf(series, s) \in Nat
<1>1. {r \in Segments(series) : r.from < s.from} \subseteq Segments(series) OBVIOUS
<1>2. IsFiniteSet({r \in Segments(series) : r.from < s.from})
  BY <1>1, SegmentsFinite, FS_Subset
<1> QED BY <1>2, FS_CardinalityType DEF IndexOf

\* A window of tradable candles of one segment.
Inside(series, s, warm, w) ==
  /\ w.segment = IndexOf(series, s) /\ w.from \in Int /\ w.to \in Int
  /\ Tradable(s, warm) <= w.from /\ w.from < w.to /\ w.to <= s.to

Apart(v, w) == v = w \/ v.to <= w.from \/ w.to <= v.from

\* It is enough to look at one segment at a time.
LEMMA WindowsAreProper ==
  ASSUME NEW series \in SUBSET Times, NEW warm \in Nat \ {0}, NEW windows,
         \A w \in windows : \E s \in Segments(series) : Inside(series, s, warm, w),
         \A v, w \in windows : v.segment = w.segment => Apart(v, w)
  PROVE  WindowsProper(series, windows, warm)
<1>1. ASSUME NEW v \in windows, NEW w \in windows PROVE Apart(v, w)
  <2>1. CASE v.segment = w.segment BY <2>1
  <2>2. CASE v.segment # w.segment
    <3>1. PICK s \in Segments(series) : Inside(series, s, warm, v) OBVIOUS
    <3>2. PICK r \in Segments(series) : Inside(series, r, warm, w) OBVIOUS
    <3>3. s # r BY <2>2, <3>1, <3>2 DEF Inside
    <3>4. s.to <= r.from \/ r.to <= s.from BY <3>3, SegmentsApart
    <3>5. /\ s.from \in Nat /\ s.to \in Nat /\ r.from \in Nat /\ r.to \in Nat
      BY SegmentsTyped
    <3>6. /\ v.from \in Int /\ v.to \in Int /\ s.from + warm - 1 <= v.from /\ v.to <= s.to
          /\ w.from \in Int /\ w.to \in Int /\ r.from + warm - 1 <= w.from /\ w.to <= r.to
      BY <3>1, <3>2 DEF Inside, Tradable
    <3> QED BY <3>4, <3>5, <3>6 DEF Apart
  <2> QED BY <2>1, <2>2
<1>2. ASSUME NEW w \in windows
      PROVE  w.from < w.to /\ (w.from - (warm - 1))..(w.to - 1) \subseteq series
  <2>1. PICK s \in Segments(series) : Inside(series, s, warm, w) OBVIOUS
  <2>2. s.from \in Nat /\ s.to \in Nat /\ s.from..(s.to - 1) \subseteq series
    BY SegmentsTyped
  <2>3. /\ w.from \in Int /\ w.to \in Int /\ s.from + warm - 1 <= w.from
        /\ w.from < w.to /\ w.to <= s.to
    BY <2>1 DEF Inside, Tradable
  <2>4. (w.from - (warm - 1))..(w.to - 1) \subseteq s.from..(s.to - 1) BY <2>2, <2>3
  <2> QED BY <2>2, <2>3, <2>4
<1> QED BY <1>1, <1>2 DEF WindowsProper, Disjoint, Apart

-----------------------------------------------------------------------------
(* Blocks of fixed duration.                                               *)

LEMMA BlocksOfSegment ==
  ASSUME NEW series \in SUBSET Times, NEW s \in Segments(series), NEW warm \in Nat \ {0}
  PROVE  /\ Tradable(s, warm) \in Nat /\ s.to \in Nat /\ CompleteBlocks(s, warm) \in Nat
         /\ HasWarmUp(s, warm) <=> Tradable(s, warm) < s.to
         /\ HasWarmUp(s, warm) =>
              /\ CompleteBlocks(s, warm) * BlockLength <= s.to - Tradable(s, warm)
              /\ s.to - Tradable(s, warm) < CompleteBlocks(s, warm) * BlockLength + BlockLength
         /\ ~HasWarmUp(s, warm) => CompleteBlocks(s, warm) = 0
<1>1. s.from \in Nat /\ s.to \in Nat /\ BlockLength \in Nat \ {0}
  BY SegmentsTyped, WindowAssumption
<1>2. Tradable(s, warm) = s.from + warm - 1 BY DEF Tradable
<1>3. HasWarmUp(s, warm) <=> s.to - s.from >= warm BY DEF HasWarmUp
<1>4. ASSUME HasWarmUp(s, warm)
      PROVE  LET n == s.to - Tradable(s, warm)
                 b == CompleteBlocks(s, warm)
             IN  b \in Nat /\ b * BlockLength <= n /\ n < b * BlockLength + BlockLength
  <2>1. s.to - Tradable(s, warm) \in Nat BY <1>1, <1>2, <1>3, <1>4
  <2>2. CompleteBlocks(s, warm) = (s.to - Tradable(s, warm)) \div BlockLength
    BY <1>4 DEF CompleteBlocks
  <2> QED BY <1>1, <2>1, <2>2, QuotientBounds
<1>5. ~HasWarmUp(s, warm) => CompleteBlocks(s, warm) = 0 BY DEF CompleteBlocks
<1>6. Tradable(s, warm) \in Nat BY <1>1, <1>2
<1>7. HasWarmUp(s, warm) <=> Tradable(s, warm) < s.to BY <1>1, <1>2, <1>3
<1> QED BY <1>1, <1>4, <1>5, <1>6, <1>7

\* Block k of a segment.
IsBlock(series, s, warm, k, w) ==
  /\ k \in Nat /\ k + 1 <= CompleteBlocks(s, warm)
  /\ w = Window(IndexOf(series, s), Tradable(s, warm) + k * BlockLength,
               Tradable(s, warm) + k * BlockLength + BlockLength)

LEMMA FixedWindowsAre ==
  ASSUME NEW series \in SUBSET Times, NEW warm \in Nat \ {0}, NEW w
  PROVE  w \in FixedWindows(series, warm) <=>
           \E s \in Segments(series), k \in Nat : IsBlock(series, s, warm, k, w)
<1>1. ASSUME NEW s \in Segments(series), NEW k \in Nat
      PROVE  /\ k \in 0..(CompleteBlocks(s, warm) - 1) <=> k + 1 <= CompleteBlocks(s, warm)
             /\ FixedWindow(series, s, warm, k) =
                  Window(IndexOf(series, s), Tradable(s, warm) + k * BlockLength,
                         Tradable(s, warm) + k * BlockLength + BlockLength)
  <2>1. CompleteBlocks(s, warm) \in Nat /\ Tradable(s, warm) \in Nat BY BlocksOfSegment
  <2>2. k * BlockLength \in Nat /\ (k + 1) * BlockLength = k * BlockLength + BlockLength
    BY WindowAssumption, NextMultiple
  <2>3. Tradable(s, warm) + (k + 1) * BlockLength = Tradable(s, warm) + k * BlockLength + BlockLength
    BY <2>1, <2>2, WindowAssumption
  <2> QED BY <2>1, <2>3 DEF FixedWindow
<1>2. w \in FixedWindows(series, warm) <=>
        \E s \in Segments(series) : \E k \in 0..(CompleteBlocks(s, warm) - 1) :
          w = FixedWindow(series, s, warm, k)
  BY DEF FixedWindows
<1>3. \A s \in Segments(series) : \A k \in 0..(CompleteBlocks(s, warm) - 1) : k \in Nat
  BY BlocksOfSegment
<1> QED BY <1>1, <1>2, <1>3 DEF IsBlock

LEMMA BlockInside ==
  ASSUME NEW series \in SUBSET Times, NEW warm \in Nat \ {0},
         NEW s \in Segments(series), NEW k \in Nat, NEW w, IsBlock(series, s, warm, k, w)
  PROVE  /\ Inside(series, s, warm, w) /\ w.to = w.from + BlockLength
         /\ w.from = Tradable(s, warm) + k * BlockLength /\ HasWarmUp(s, warm)
<1>1. /\ w.segment = IndexOf(series, s) /\ w.from = Tradable(s, warm) + k * BlockLength
      /\ w.to = Tradable(s, warm) + k * BlockLength + BlockLength
      /\ k + 1 <= CompleteBlocks(s, warm)
  BY DEF IsBlock, Window
<1>2. /\ Tradable(s, warm) \in Nat /\ CompleteBlocks(s, warm) \in Nat /\ s.to \in Nat
      /\ BlockLength \in Nat \ {0}
  BY BlocksOfSegment, WindowAssumption
<1>3. /\ k * BlockLength \in Nat
      /\ k * BlockLength + BlockLength <= CompleteBlocks(s, warm) * BlockLength
  BY <1>1, <1>2, NextMultiple, ProductMonotone
<1>4. HasWarmUp(s, warm)
  <2>1. CompleteBlocks(s, warm) # 0 BY <1>1, <1>2
  <2> QED BY <2>1, BlocksOfSegment
<1>5. CompleteBlocks(s, warm) * BlockLength <= s.to - Tradable(s, warm)
  BY <1>4, BlocksOfSegment
<1>6. CompleteBlocks(s, warm) * BlockLength \in Nat BY <1>2
<1> QED BY <1>1, <1>2, <1>3, <1>4, <1>5, <1>6 DEF Inside

\* Blocks of one segment follow each other.
LEMMA BlocksApart ==
  ASSUME NEW series \in SUBSET Times, NEW warm \in Nat \ {0}, NEW s \in Segments(series),
         NEW k \in Nat, NEW v, IsBlock(series, s, warm, k, v),
         NEW l \in Nat, NEW w, IsBlock(series, s, warm, l, w)
  PROVE  /\ k = l => v = w
         /\ k < l => v.to <= w.from
         /\ l < k => w.to <= v.from
<1>1. ASSUME NEW a \in Nat, NEW b \in Nat, NEW x, NEW y,
             IsBlock(series, s, warm, a, x), IsBlock(series, s, warm, b, y), a < b
      PROVE  x.to <= y.from
  <2>1. /\ x.to = Tradable(s, warm) + a * BlockLength + BlockLength
        /\ y.from = Tradable(s, warm) + b * BlockLength
    BY <1>1 DEF IsBlock, Window
  <2>2. Tradable(s, warm) \in Nat /\ BlockLength \in Nat
    BY BlocksOfSegment, WindowAssumption
  <2>3. a * BlockLength + BlockLength <= b * BlockLength
    BY <1>1, <2>2, NextMultiple, ProductMonotone
  <2>4. a * BlockLength \in Nat /\ b * BlockLength \in Nat BY <2>2
  <2> QED BY <2>1, <2>2, <2>3, <2>4
<1>2. k = l => v = w BY DEF IsBlock
<1>3. k < l => v.to <= w.from BY <1>1
<1>4. l < k => w.to <= v.from BY <1>1
<1> QED BY <1>2, <1>3, <1>4

\* They may be traded by a candidate with a shorter warm-up too.
LEMMA FixedProper ==
  ASSUME NEW series \in SUBSET Times, NEW warm \in Nat \ {0}, NEW shorter \in Nat \ {0},
         shorter <= warm
  PROVE  /\ WindowsProper(series, FixedWindows(series, warm), shorter)
         /\ \A w \in FixedWindows(series, warm) : w.to - w.from = BlockLength
<1> DEFINE W == FixedWindows(series, warm)
<1>1. ASSUME NEW w \in W
      PROVE  \E s \in Segments(series), k \in Nat :
               IsBlock(series, s, warm, k, w) /\ Inside(series, s, warm, w)
                 /\ w.to = w.from + BlockLength
  BY FixedWindowsAre, BlockInside
<1> HIDE DEF W
<1>2. ASSUME NEW w \in W PROVE \E s \in Segments(series) : Inside(series, s, shorter, w)
  <2>1. PICK s \in Segments(series) : Inside(series, s, warm, w) BY <1>1
  <2>2. s.from \in Nat BY SegmentsTyped
  <2> QED BY <2>1, <2>2 DEF Inside, Tradable
<1>3. ASSUME NEW v \in W, NEW w \in W, v.segment = w.segment PROVE Apart(v, w)
  <2>1. PICK s \in Segments(series), k \in Nat :
          IsBlock(series, s, warm, k, v) /\ Inside(series, s, warm, v)
    BY <1>1
  <2>2. PICK r \in Segments(series), l \in Nat :
          IsBlock(series, r, warm, l, w) /\ Inside(series, r, warm, w)
    BY <1>1
  <2>3. s = r BY <1>3, <2>1, <2>2, SegmentByIndex DEF Inside
  <2>4. k = l \/ k < l \/ l < k OBVIOUS
  <2> QED BY <2>1, <2>2, <2>3, <2>4, BlocksApart DEF Apart
<1>4. ASSUME NEW w \in W PROVE w.to - w.from = BlockLength
  <2>1. w.to = w.from + BlockLength /\ w.from \in Int BY <1>1 DEF Inside
  <2> QED BY <2>1, WindowAssumption
<1>5. WindowsProper(series, W, shorter) BY <1>2, <1>3, WindowsAreProper
<1> QED BY <1>4, <1>5 DEF W

\* The candles of a segment a candidate with this warm-up can trade.
LEMMA TradableIs ==
  ASSUME NEW series \in SUBSET Times, NEW warm \in Nat \ {0}, NEW t
  PROVE  t \in TradableCandles(series, warm) <=>
           \E s \in Segments(series) : t \in Tradable(s, warm)..(s.to - 1)
<1>1. t \in TradableCandles(series, warm) <=>
        \E s \in Segments(series) : HasWarmUp(s, warm) /\ t \in Tradable(s, warm)..(s.to - 1)
  BY DEF TradableCandles
<1>2. ASSUME NEW s \in Segments(series), t \in Tradable(s, warm)..(s.to - 1)
      PROVE  HasWarmUp(s, warm)
  <2>1. /\ Tradable(s, warm) \in Nat /\ s.to \in Nat
        /\ HasWarmUp(s, warm) <=> Tradable(s, warm) < s.to
    BY BlocksOfSegment
  <2> QED BY <1>2, <2>1
<1> QED BY <1>1, <1>2

LEMMA LeftoversAre ==
  ASSUME NEW series \in SUBSET Times, NEW warm \in Nat \ {0}, NEW w
  PROVE  w \in Leftovers(series, warm) <=>
           \E s \in Segments(series) :
             /\ CompleteBlocks(s, warm) # 0 /\ LeftoverFrom(s, warm) < s.to
             /\ w = Window(IndexOf(series, s), LeftoverFrom(s, warm), s.to)
BY DEF Leftovers, Fragments

\* A leftover begins after the complete blocks and is shorter than another one.
LEMMA LeftoverShort ==
  ASSUME NEW series \in SUBSET Times, NEW warm \in Nat \ {0}, NEW s \in Segments(series),
         CompleteBlocks(s, warm) # 0
  PROVE  /\ LeftoverFrom(s, warm) \in Nat /\ Tradable(s, warm) <= LeftoverFrom(s, warm)
         /\ s.to - LeftoverFrom(s, warm) < BlockLength
<1>1. /\ Tradable(s, warm) \in Nat /\ s.to \in Nat /\ CompleteBlocks(s, warm) \in Nat
      /\ s.to - Tradable(s, warm) < CompleteBlocks(s, warm) * BlockLength + BlockLength
  BY BlocksOfSegment
<1>2. BlockLength \in Nat /\ CompleteBlocks(s, warm) * BlockLength \in Nat
  BY <1>1, WindowAssumption
<1> QED BY <1>1, <1>2 DEF LeftoverFrom

\* Whatever can be traded is in a block, in a leftover or in a fragment.
LEMMA FixedCover ==
  ASSUME NEW series \in SUBSET Times, NEW warm \in Nat \ {0}
  PROVE  /\ TradableCandles(series, warm) =
              CandlesOf(FixedWindows(series, warm)) \cup CandlesOf(Leftovers(series, warm))
                \cup UNION {Tradable(s, warm)..(s.to - 1) : s \in Fragments(series, warm)}
         /\ \A w \in Leftovers(series, warm) : w.to - w.from < BlockLength
<1> DEFINE Blocks == CandlesOf(FixedWindows(series, warm))
           Left == CandlesOf(Leftovers(series, warm))
           Rest == UNION {Tradable(s, warm)..(s.to - 1) : s \in Fragments(series, warm)}
<1>1. ASSUME NEW t \in TradableCandles(series, warm) PROVE t \in Blocks \cup Left \cup Rest
  <2>1. PICK s \in Segments(series) : t \in Tradable(s, warm)..(s.to - 1) BY TradableIs
  <2>2. /\ Tradable(s, warm) \in Nat /\ s.to \in Nat /\ CompleteBlocks(s, warm) \in Nat
        /\ BlockLength \in Nat \ {0}
    BY BlocksOfSegment, WindowAssumption
  <2>3. CASE CompleteBlocks(s, warm) = 0
    <3>1. s \in Fragments(series, warm) BY <2>3 DEF Fragments
    <3> QED BY <2>1, <3>1
  <2>4. CASE CompleteBlocks(s, warm) # 0 /\ t >= LeftoverFrom(s, warm)
    <3>1. LeftoverFrom(s, warm) \in Nat BY <2>4, LeftoverShort
    <3>2. LeftoverFrom(s, warm) < s.to /\ t \in LeftoverFrom(s, warm)..(s.to - 1)
      BY <2>1, <2>2, <2>4, <3>1
    <3> DEFINE w == Window(IndexOf(series, s), LeftoverFrom(s, warm), s.to)
    <3>3. w \in Leftovers(series, warm) BY <2>4, <3>2, LeftoversAre
    <3>4. t \in Held(w) BY <3>2 DEF Held, Window
    <3> QED BY <3>3, <3>4 DEF CandlesOf
  <2>5. CASE ~(t >= LeftoverFrom(s, warm))
    <3> DEFINE k == (t - Tradable(s, warm)) \div BlockLength
    <3>1. t - Tradable(s, warm) \in Nat BY <2>1, <2>2
    <3>2. /\ k \in Nat /\ k * BlockLength <= t - Tradable(s, warm)
          /\ t - Tradable(s, warm) < k * BlockLength + BlockLength
      BY <2>2, <3>1, QuotientBounds
    <3> HIDE DEF k
    <3>3. t < Tradable(s, warm) + CompleteBlocks(s, warm) * BlockLength
      <4>1. CompleteBlocks(s, warm) * BlockLength \in Nat BY <2>2
      <4> QED BY <2>1, <2>2, <2>5, <4>1 DEF LeftoverFrom
    <3>4. k + 1 <= CompleteBlocks(s, warm)
      <4>1. SUFFICES ASSUME CompleteBlocks(s, warm) <= k PROVE FALSE BY <2>2, <3>2
      <4>2. CompleteBlocks(s, warm) * BlockLength <= k * BlockLength
        BY <2>2, <3>2, <4>1, ProductMonotone
      <4>3. CompleteBlocks(s, warm) * BlockLength \in Nat /\ k * BlockLength \in Nat
        BY <2>2, <3>2
      <4> QED BY <2>1, <2>2, <3>2, <3>3, <4>2, <4>3
    <3>5. k * BlockLength \in Nat BY <2>2, <3>2
    <3> DEFINE w == Window(IndexOf(series, s), Tradable(s, warm) + k * BlockLength,
                          Tradable(s, warm) + k * BlockLength + BlockLength)
    <3>6. IsBlock(series, s, warm, k, w) BY <3>2, <3>4 DEF IsBlock
    <3>7. w \in FixedWindows(series, warm) BY <3>2, <3>6, FixedWindowsAre
    <3>8. t \in Held(w) BY <2>1, <2>2, <3>2, <3>5 DEF Held, Window
    <3> QED BY <3>7, <3>8 DEF CandlesOf
  <2> QED BY <2>3, <2>4, <2>5
<1>2. ASSUME NEW t \in Blocks PROVE t \in TradableCandles(series, warm)
  <2>1. PICK w \in FixedWindows(series, warm) : t \in Held(w) BY DEF CandlesOf
  <2>2. PICK s \in Segments(series), k \in Nat : IsBlock(series, s, warm, k, w)
    BY <2>1, FixedWindowsAre
  <2>3. Inside(series, s, warm, w) BY <2>2, BlockInside
  <2>4. Tradable(s, warm) \in Nat /\ s.to \in Nat BY BlocksOfSegment
  <2>5. t \in Tradable(s, warm)..(s.to - 1) BY <2>1, <2>3, <2>4 DEF Inside, Held
  <2> QED BY <2>5, TradableIs
<1>3. ASSUME NEW t \in Left PROVE t \in TradableCandles(series, warm)
  <2>1. PICK w \in Leftovers(series, warm) : t \in Held(w) BY DEF CandlesOf
  <2>2. PICK s \in Segments(series) :
          /\ CompleteBlocks(s, warm) # 0
          /\ w = Window(IndexOf(series, s), LeftoverFrom(s, warm), s.to)
    BY <2>1, LeftoversAre
  <2>3. LeftoverFrom(s, warm) \in Nat /\ Tradable(s, warm) <= LeftoverFrom(s, warm)
    BY <2>2, LeftoverShort
  <2>4. Tradable(s, warm) \in Nat /\ s.to \in Nat BY BlocksOfSegment
  <2>5. t \in LeftoverFrom(s, warm)..(s.to - 1) BY <2>1, <2>2 DEF Held, Window
  <2>6. t \in Tradable(s, warm)..(s.to - 1) BY <2>3, <2>4, <2>5
  <2> QED BY <2>6, TradableIs
<1>4. ASSUME NEW t \in Rest PROVE t \in TradableCandles(series, warm)
  BY <1>4, TradableIs DEF Fragments
<1>5. ASSUME NEW w \in Leftovers(series, warm) PROVE w.to - w.from < BlockLength
  <2>1. PICK s \in Segments(series) :
          /\ CompleteBlocks(s, warm) # 0
          /\ w = Window(IndexOf(series, s), LeftoverFrom(s, warm), s.to)
    BY LeftoversAre
  <2>2. w.to = s.to /\ w.from = LeftoverFrom(s, warm) BY <2>1 DEF Window
  <2> QED BY <2>1, <2>2, LeftoverShort
<1>6. TradableCandles(series, warm) = Blocks \cup Left \cup Rest
  <2> HIDE DEF Blocks, Left, Rest
  <2> QED BY <1>1, <1>2, <1>3, <1>4
<1> QED BY <1>5, <1>6

\* The blocks of one segment.
BlocksIn(series, s, warm) ==
  {FixedWindow(series, s, warm, k) : k \in 0..(CompleteBlocks(s, warm) - 1)}

LEMMA BlocksInCount ==
  ASSUME NEW series \in SUBSET Times, NEW warm \in Nat \ {0}, NEW s \in Segments(series)
  PROVE  /\ IsFiniteSet(BlocksIn(series, s, warm))
         /\ Cardinality(BlocksIn(series, s, warm)) = CompleteBlocks(s, warm)
<1> DEFINE n == CompleteBlocks(s, warm)
           K == 0..(n - 1)
           f == [k \in K |-> FixedWindow(series, s, warm, k)]
           B == BlocksIn(series, s, warm)
<1>1. n \in Nat /\ Tradable(s, warm) \in Nat /\ BlockLength \in Nat \ {0}
  BY BlocksOfSegment, WindowAssumption
<1>2. IsFiniteSet(K) /\ Cardinality(K) = n
  <2>1. 0 \in Int /\ n - 1 \in Int BY <1>1
  <2>2. IsFiniteSet(0..(n - 1)) /\ Cardinality(0..(n - 1)) = IF 0 > n - 1 THEN 0 ELSE (n - 1) - 0 + 1
    <3> HIDE DEF n
    <3> QED BY <2>1, FS_Interval
  <2> HIDE DEF n
  <2> QED BY <1>1, <2>2
<1>3. f \in Surjection(K, B)
  <2>1. f \in [K -> B] /\ \A w \in B : \E k \in K : f[k] = w BY DEF BlocksIn
  <2> QED BY <2>1 DEF Surjection
<1>4. ASSUME NEW k \in K, NEW l \in K, f[k] = f[l] PROVE k = l
  <2>1. f[k].from = f[l].from BY <1>4
  <2>2. f[k].from = Tradable(s, warm) + k * BlockLength
        /\ f[l].from = Tradable(s, warm) + l * BlockLength
    BY DEF FixedWindow, Window
  <2>3. k \in Nat /\ l \in Nat BY <1>1
  <2>4. ASSUME NEW a \in Nat, NEW b \in Nat, a < b PROVE a * BlockLength # b * BlockLength
    <3>1. (a + 1) * BlockLength <= b * BlockLength BY <1>1, <2>4, ProductMonotone
    <3>2. a * BlockLength \in Nat /\ (a + 1) * BlockLength = a * BlockLength + BlockLength
          /\ b * BlockLength \in Nat
      BY <1>1, NextMultiple
    <3> QED BY <1>1, <3>1, <3>2
  <2>5. k * BlockLength = l * BlockLength
    <3>1. k * BlockLength \in Nat /\ l * BlockLength \in Nat BY <1>1, <2>3
    <3> QED BY <1>1, <2>1, <2>2, <3>1
  <2>6. ~(k < l) BY <2>3, <2>4, <2>5
  <2>7. ~(l < k) BY <2>3, <2>4, <2>5
  <2> QED BY <2>3, <2>6, <2>7
<1>5. f \in Injection(K, B) BY <1>3, <1>4 DEF Injection, IsInjective, Surjection
<1>6. f \in Bijection(K, B) BY <1>3, <1>5 DEF Bijection
<1>7. ExistsBijection(K, B) BY <1>6 DEF ExistsBijection
<1>8. IsFiniteSet(B) /\ Cardinality(B) = Cardinality(K)
  <2> HIDE DEF K, B, f
  <2> QED BY <1>2, <1>7, FS_Bijection
<1> QED BY <1>2, <1>8

\* A sum over the segments, one at a time, is what counts their blocks.
LEMMA BlocksOfMore ==
  ASSUME NEW series \in SUBSET Times, NEW warm \in Nat \ {0},
         NEW S \in SUBSET Segments(series), NEW x \in S
  PROVE  Cardinality(UNION {BlocksIn(series, s, warm) : s \in S}) =
           CompleteBlocks(x, warm)
             + Cardinality(UNION {BlocksIn(series, s, warm) : s \in S \ {x}})
<1> DEFINE B == BlocksIn(series, x, warm)
           U == UNION {BlocksIn(series, s, warm) : s \in S \ {x}}
<1>1. IsFiniteSet(B) /\ Cardinality(B) = CompleteBlocks(x, warm) BY BlocksInCount
<1>2. IsFiniteSet(U)
  <2> DEFINE F == {BlocksIn(series, s, warm) : s \in S \ {x}}
             g == [s \in S \ {x} |-> BlocksIn(series, s, warm)]
  <2>1. IsFiniteSet(S \ {x}) BY SegmentsFinite, FS_Subset
  <2>2. g \in Surjection(S \ {x}, F)
    <3>1. g \in [S \ {x} -> F] /\ \A y \in F : \E s \in S \ {x} : g[s] = y OBVIOUS
    <3> QED BY <3>1 DEF Surjection
  <2>3. IsFiniteSet(F)
    <3> HIDE DEF F, g
    <3> QED BY <2>1, <2>2, FS_Surjection
  <2>4. \A T \in F : IsFiniteSet(T) BY BlocksInCount
  <2> HIDE DEF F
  <2>5. IsFiniteSet(UNION F) BY <2>3, <2>4, FS_UNION
  <2> QED BY <2>5 DEF F
<1>3. B \cap U = {}
  <2> SUFFICES ASSUME NEW w \in B, NEW s \in S \ {x}, w \in BlocksIn(series, s, warm)
               PROVE  FALSE
    OBVIOUS
  <2>1. w.segment = IndexOf(series, x) /\ w.segment = IndexOf(series, s)
    BY DEF BlocksIn, FixedWindow, Window
  <2>2. x \in Segments(series) /\ s \in Segments(series) /\ s # x OBVIOUS
  <2>3. IndexOf(series, x) = IndexOf(series, s) BY <2>1
  <2> QED BY <2>2, <2>3, SegmentByIndex
<1>4. UNION {BlocksIn(series, s, warm) : s \in S} = B \cup U OBVIOUS
<1>5. Cardinality(B) \in Nat /\ Cardinality(U) \in Nat
  <2> HIDE DEF B, U
  <2> QED BY <1>1, <1>2, FS_CardinalityType
<1>6. Cardinality(B \cup U) = Cardinality(B) + Cardinality(U) - Cardinality(B \cap U)
  <2> HIDE DEF B, U
  <2> QED BY <1>1, <1>2, FS_Union
<1>7. Cardinality({}) = 0 BY FS_EmptySet
<1> HIDE DEF B, U
<1>8. Cardinality(B \cup U) = Cardinality(B) + Cardinality(U)
  <2>1. Cardinality(B \cap U) = 0 BY <1>3, <1>7, Zenon
  <2>2. Cardinality(B \cup U) = Cardinality(B) + Cardinality(U) - 0 BY <1>6, <2>1, Zenon
  <2> QED BY <1>5, <2>2
<1> QED BY <1>1, <1>4, <1>8 DEF B, U

\* count_round3_complete_blocks counts the blocks that are built.
LEMMA PredictedIsCount ==
  ASSUME NEW series \in SUBSET Times, NEW warm \in Nat \ {0}
  PROVE  Cardinality(FixedWindows(series, warm)) = PredictedBlocks(series, warm)
<1> DEFINE All == Segments(series)
           one(S) == CHOOSE x \in S : TRUE
           step(g) == [S \in SUBSET All |-> IF S = {} THEN 0
                                            ELSE CompleteBlocks(one(S), warm) + g[S \ {one(S)}]]
           F == CHOOSE g : g = step(g)
           G == [S \in SUBSET All |-> Cardinality(UNION {BlocksIn(series, s, warm) : s \in S})]
<1>1. PredictedBlocks(series, warm) = F[All]
  BY DEF PredictedBlocks, MapThenSumSet, MapThenFoldSet
<1>2. G = step(G)
  <2>1. ASSUME NEW S \in SUBSET All
        PROVE  G[S] = IF S = {} THEN 0 ELSE CompleteBlocks(one(S), warm) + G[S \ {one(S)}]
    <3>1. CASE S = {}
      <4>1. UNION {BlocksIn(series, s, warm) : s \in S} = {} BY <3>1
      <4>2. Cardinality({}) = 0 BY FS_EmptySet
      <4> QED BY <3>1, <4>1, <4>2
    <3>2. CASE S # {}
      <4>1. one(S) \in S BY <3>2
      <4> DEFINE x == one(S)
      <4>2. S \ {x} \in SUBSET All OBVIOUS
      <4> HIDE DEF x
      <4>3. x \in S BY <4>1 DEF x
      <4>4. Cardinality(UNION {BlocksIn(series, s, warm) : s \in S}) =
              CompleteBlocks(x, warm)
                + Cardinality(UNION {BlocksIn(series, s, warm) : s \in S \ {x}})
        BY <4>3, BlocksOfMore
      <4>5. G[S] = CompleteBlocks(x, warm) + G[S \ {x}] BY <4>2, <4>4
      <4> QED BY <3>2, <4>5 DEF x
    <3> QED BY <3>1, <3>2
  <2> QED BY <2>1
<1>3. F = step(F)
  <2> HIDE DEF step, G
  <2> QED BY <1>2
<1>4. \A S \in SUBSET All : F[S] = IF S = {} THEN 0 ELSE CompleteBlocks(one(S), warm) + F[S \ {one(S)}]
  <2> HIDE DEF F
  <2> QED BY <1>3
<1>5. \A S \in SUBSET All : G[S] = IF S = {} THEN 0 ELSE CompleteBlocks(one(S), warm) + G[S \ {one(S)}]
  <2> HIDE DEF G
  <2> QED BY <1>2
<1> DEFINE N == {n \in Nat : \A S \in SUBSET All : Cardinality(S) = n => F[S] = G[S]}
<1>6. ASSUME NEW S \in SUBSET All PROVE IsFiniteSet(S) /\ Cardinality(S) \in Nat
  <2>1. IsFiniteSet(S) BY SegmentsFinite, FS_Subset
  <2> QED BY <2>1, FS_CardinalityType
<1> HIDE DEF F, G, All
<1>7. 0 \in N
  <2>1. ASSUME NEW S \in SUBSET All, Cardinality(S) = 0 PROVE F[S] = G[S]
    <3>1. S = {} BY <1>6, <2>1, FS_EmptySet
    <3> QED BY <1>4, <1>5, <3>1
  <2> QED BY <2>1
<1>8. ASSUME NEW n \in N PROVE n + 1 \in N
  <2>1. ASSUME NEW S \in SUBSET All, Cardinality(S) = n + 1 PROVE F[S] = G[S]
    <3>1. S # {} BY <2>1, FS_EmptySet
    <3> DEFINE x == one(S)
    <3>2. x \in S BY <3>1
    <3>3. F[S] = CompleteBlocks(x, warm) + F[S \ {x}] BY <1>4, <3>1
    <3>4. G[S] = CompleteBlocks(x, warm) + G[S \ {x}] BY <1>5, <3>1
    <3> HIDE DEF x
    <3>5. Cardinality(S \ {x}) = Cardinality(S) - 1 BY <1>6, <3>2, FS_RemoveElement
    <3>6. S \ {x} \in SUBSET All /\ Cardinality(S \ {x}) = n BY <2>1, <3>5
    <3>7. F[S \ {x}] = G[S \ {x}] BY <3>6
    <3> QED BY <3>3, <3>4, <3>7
  <2> QED BY <2>1
<1>9. N = Nat
  <2>1. N \in SUBSET Nat OBVIOUS
  <2> HIDE DEF N
  <2> QED BY <1>7, <1>8, <2>1, InductionOnNaturals
<1>10. F[All] = G[All]
  <2>1. All \in SUBSET All /\ Cardinality(All) \in Nat BY <1>6
  <2>2. Cardinality(All) \in N BY <1>9, <2>1
  <2> QED BY <2>1, <2>2
<1>11. G[All] = Cardinality(FixedWindows(series, warm)) BY DEF G, All, FixedWindows, BlocksIn
<1> QED BY <1>1, <1>10, <1>11 DEF All

-----------------------------------------------------------------------------
(* Equal blocks.                                                           *)

LEMMA RemainderBounds ==
  \A n \in Nat, d \in Nat \ {0} :
    n % d \in Nat /\ n % d < d /\ n = (n \div d) * d + (n % d)
<1>1. \A n \in Nat, d \in Nat \ {0} : n % d \in Nat BY SMT
<1>2. \A n \in Nat, d \in Nat \ {0} : n % d < d BY SMT
<1>3. \A n \in Nat, d \in Nat \ {0} : n = (n \div d) * d + (n % d) BY SMT
<1> QED BY <1>1, <1>2, <1>3

\* Equal blocks begin with a segment's tradable candles, end with the segment
\* and differ by one candle.
LEMMA EqualBlocks ==
  ASSUME NEW first \in Nat, NEW n \in Nat, NEW b \in Nat \ {0}, b <= n
  PROVE  LET start(k) == BlockStart(first, n, b, k)
             q == n \div b
         IN  /\ q \in Nat \ {0} /\ start(0) = first /\ start(b) = first + n
             /\ \A k \in Nat : /\ start(k) \in Nat
                               /\ start(k) + q <= start(k + 1) /\ start(k + 1) <= start(k) + q + 1
             /\ \A k, l \in Nat : k <= l => start(k) <= start(l)
<1> DEFINE start(k) == BlockStart(first, n, b, k)
           q == n \div b
           r == n % b
<1>1. q \in Nat /\ r \in Nat /\ r < b /\ n = q * b + r BY QuotientBounds, RemainderBounds
<1> HIDE DEF q, r
<1>2. q # 0
  <2>1. SUFFICES ASSUME q = 0 PROVE FALSE OBVIOUS
  <2>2. q * b = 0 BY <2>1
  <2> QED BY <1>1, <2>2
<1>3. \A k : start(k) = first + k * q + Lesser(k, r) BY DEF BlockStart, q, r
<1> HIDE DEF start
<1>4. start(0) = first
  <2>1. Lesser(0, r) = 0 /\ 0 * q = 0 BY <1>1 DEF Lesser
  <2> QED BY <1>3, <2>1
<1>5. start(b) = first + n
  <2>1. Lesser(b, r) = r BY <1>1 DEF Lesser
  <2>2. b * q = q * b /\ q * b \in Nat BY <1>1
  <2> QED BY <1>1, <1>3, <2>1, <2>2
<1>6. ASSUME NEW k \in Nat
      PROVE  /\ start(k) \in Nat
             /\ start(k) + q <= start(k + 1) /\ start(k + 1) <= start(k) + q + 1
  <2>1. k * q \in Nat /\ (k + 1) * q = k * q + q BY <1>1, NextMultiple
  <2>2. start(k) = first + k * q + Lesser(k, r) BY <1>3
  <2>3. start(k + 1) = first + (k + 1) * q + Lesser(k + 1, r) BY <1>3
  <2>4. /\ Lesser(k, r) \in Nat
        /\ Lesser(k + 1, r) = Lesser(k, r) \/ Lesser(k + 1, r) = Lesser(k, r) + 1
    BY <1>1 DEF Lesser
  <2> QED BY <1>1, <2>1, <2>2, <2>3, <2>4
<1>7. ASSUME NEW k \in Nat, NEW l \in Nat, k <= l PROVE start(k) <= start(l)
  <2>1. k * q <= l * q /\ k * q \in Nat /\ l * q \in Nat BY <1>1, <1>7, ProductMonotone
  <2>2. Lesser(k, r) \in Nat /\ Lesser(l, r) \in Nat /\ Lesser(k, r) <= Lesser(l, r)
    BY <1>1, <1>7 DEF Lesser
  <2>3. start(k) = first + k * q + Lesser(k, r) /\ start(l) = first + l * q + Lesser(l, r)
    BY <1>3
  <2> QED BY <2>1, <2>2, <2>3
<1>8. q \in Nat \ {0} BY <1>1, <1>2
<1> QED BY <1>4, <1>5, <1>6, <1>7, <1>8 DEF start, q

EqualCount(s, warm) == Lesser(BlockCount, s.to - Tradable(s, warm))
EqualStart(s, warm, k) ==
  BlockStart(Tradable(s, warm), s.to - Tradable(s, warm), EqualCount(s, warm), k)

\* Equal block k of a segment.
IsEqual(series, s, warm, k, w) ==
  /\ HasWarmUp(s, warm) /\ k + 1 <= EqualCount(s, warm)
  /\ w = Window(IndexOf(series, s), EqualStart(s, warm, k), EqualStart(s, warm, k + 1))

LEMMA EqualTyped ==
  ASSUME NEW series \in SUBSET Times, NEW warm \in Nat \ {0}, NEW s \in Segments(series),
         HasWarmUp(s, warm)
  PROVE  /\ s.to - Tradable(s, warm) \in Nat /\ EqualCount(s, warm) \in Nat \ {0}
         /\ EqualCount(s, warm) <= s.to - Tradable(s, warm)
         /\ \E q \in Nat \ {0} : \A k \in Nat :
              /\ EqualStart(s, warm, k) \in Nat
              /\ EqualStart(s, warm, k) + q <= EqualStart(s, warm, k + 1)
              /\ EqualStart(s, warm, k + 1) <= EqualStart(s, warm, k) + q + 1
         /\ \A k, l \in Nat : k <= l => EqualStart(s, warm, k) <= EqualStart(s, warm, l)
         /\ EqualStart(s, warm, 0) = Tradable(s, warm)
         /\ EqualStart(s, warm, EqualCount(s, warm)) = s.to
<1> DEFINE T == Tradable(s, warm)
           n == s.to - T
           b == EqualCount(s, warm)
<1>1. T \in Nat /\ s.to \in Nat /\ n \in Nat \ {0} BY BlocksOfSegment
<1>2. b \in Nat \ {0} /\ b <= n BY <1>1, WindowAssumption DEF EqualCount, Lesser
<1>3. \A k : EqualStart(s, warm, k) = BlockStart(T, n, b, k) BY DEF EqualStart
<1>4. T + n = s.to BY <1>1
<1> HIDE DEF T, n, b
<1>5. /\ (n \div b) \in Nat \ {0}
      /\ BlockStart(T, n, b, 0) = T /\ BlockStart(T, n, b, b) = T + n
      /\ \A k \in Nat : /\ BlockStart(T, n, b, k) \in Nat
                        /\ BlockStart(T, n, b, k) + (n \div b) <= BlockStart(T, n, b, k + 1)
                        /\ BlockStart(T, n, b, k + 1) <= BlockStart(T, n, b, k) + (n \div b) + 1
      /\ \A k, l \in Nat : k <= l => BlockStart(T, n, b, k) <= BlockStart(T, n, b, l)
  BY <1>1, <1>2, EqualBlocks
<1>6. PICK q \in Nat \ {0} : q = n \div b BY <1>5
<1>7. \A k \in Nat : /\ EqualStart(s, warm, k) \in Nat
                     /\ EqualStart(s, warm, k) + q <= EqualStart(s, warm, k + 1)
                     /\ EqualStart(s, warm, k + 1) <= EqualStart(s, warm, k) + q + 1
  BY <1>3, <1>5, <1>6
<1>8. \A k, l \in Nat : k <= l => EqualStart(s, warm, k) <= EqualStart(s, warm, l)
  BY <1>3, <1>5
<1>9. EqualStart(s, warm, 0) = T /\ EqualStart(s, warm, b) = s.to BY <1>3, <1>4, <1>5
<1>10. \E m \in Nat \ {0} : \A k \in Nat :
         /\ EqualStart(s, warm, k) \in Nat
         /\ EqualStart(s, warm, k) + m <= EqualStart(s, warm, k + 1)
         /\ EqualStart(s, warm, k + 1) <= EqualStart(s, warm, k) + m + 1
  BY <1>7
<1>11. n \in Nat BY <1>1
<1> QED BY <1>2, <1>8, <1>9, <1>10, <1>11 DEF T, n, b

LEMMA BlockedWindowsAre ==
  ASSUME NEW series \in SUBSET Times, NEW warm \in Nat \ {0}, NEW w
  PROVE  w \in BlockedWindows(series, warm) <=>
           \E s \in Segments(series), k \in Nat : IsEqual(series, s, warm, k, w)
<1>1. w \in BlockedWindows(series, warm) <=>
        \E s \in Segments(series) : HasWarmUp(s, warm) /\ w \in SegmentBlocks(series, s, warm)
  BY DEF BlockedWindows
<1>2. ASSUME NEW s \in Segments(series), HasWarmUp(s, warm)
      PROVE  w \in SegmentBlocks(series, s, warm) <=> \E k \in Nat : IsEqual(series, s, warm, k, w)
  <2>1. EqualCount(s, warm) \in Nat BY <1>2, EqualTyped
  <2>2. w \in SegmentBlocks(series, s, warm) <=>
          \E k \in 0..(EqualCount(s, warm) - 1) :
            w = Window(IndexOf(series, s), EqualStart(s, warm, k), EqualStart(s, warm, k + 1))
    BY DEF SegmentBlocks, EqualCount, EqualStart
  <2>3. \A k : k \in 0..(EqualCount(s, warm) - 1) <=> k \in Nat /\ k + 1 <= EqualCount(s, warm)
    BY <2>1
  <2> QED BY <1>2, <2>2, <2>3 DEF IsEqual
<1> QED BY <1>1, <1>2 DEF IsEqual

LEMMA EqualInside ==
  ASSUME NEW series \in SUBSET Times, NEW warm \in Nat \ {0}, NEW s \in Segments(series),
         NEW k \in Nat, NEW w, IsEqual(series, s, warm, k, w)
  PROVE  Inside(series, s, warm, w)
<1>1. /\ HasWarmUp(s, warm) /\ k + 1 <= EqualCount(s, warm) /\ w.segment = IndexOf(series, s)
      /\ w.from = EqualStart(s, warm, k) /\ w.to = EqualStart(s, warm, k + 1)
  BY DEF IsEqual, Window
<1>2. EqualCount(s, warm) \in Nat /\ k + 1 \in Nat /\ 0 <= k BY <1>1, EqualTyped
<1>3. /\ EqualStart(s, warm, 0) = Tradable(s, warm)
      /\ EqualStart(s, warm, EqualCount(s, warm)) = s.to
      /\ EqualStart(s, warm, 0) <= EqualStart(s, warm, k)
      /\ EqualStart(s, warm, k + 1) <= EqualStart(s, warm, EqualCount(s, warm))
  <2>1. \A i, j \in Nat : i <= j => EqualStart(s, warm, i) <= EqualStart(s, warm, j)
    BY <1>1, EqualTyped
  <2> QED BY <1>1, <1>2, <2>1, EqualTyped
<1>4. /\ EqualStart(s, warm, k) \in Nat /\ EqualStart(s, warm, k + 1) \in Nat
      /\ EqualStart(s, warm, k) < EqualStart(s, warm, k + 1)
  <2>1. PICK q \in Nat \ {0} : \A i \in Nat :
              /\ EqualStart(s, warm, i) \in Nat
              /\ EqualStart(s, warm, i) + q <= EqualStart(s, warm, i + 1)
    BY <1>1, EqualTyped
  <2>2. /\ EqualStart(s, warm, k) \in Nat /\ EqualStart(s, warm, k + 1) \in Nat
        /\ EqualStart(s, warm, k) + q <= EqualStart(s, warm, k + 1)
    BY <1>2, <2>1
  <2> QED BY <2>2
<1> QED BY <1>1, <1>3, <1>4 DEF Inside

\* The blocks of a segment follow each other and are about as long.
LEMMA EqualApart ==
  ASSUME NEW series \in SUBSET Times, NEW warm \in Nat \ {0}, NEW s \in Segments(series),
         NEW k \in Nat, NEW v, IsEqual(series, s, warm, k, v),
         NEW l \in Nat, NEW w, IsEqual(series, s, warm, l, w)
  PROVE  Apart(v, w) /\ v.to - v.from <= w.to - w.from + 1
<1>1. /\ HasWarmUp(s, warm)
      /\ v.from = EqualStart(s, warm, k) /\ v.to = EqualStart(s, warm, k + 1)
      /\ w.from = EqualStart(s, warm, l) /\ w.to = EqualStart(s, warm, l + 1)
  BY DEF IsEqual, Window
<1>2. k = l => v = w BY DEF IsEqual
<1>3. \A i, j \in Nat : i <= j => EqualStart(s, warm, i) <= EqualStart(s, warm, j)
  BY <1>1, EqualTyped
<1>4. k < l => v.to <= w.from BY <1>1, <1>3
<1>5. l < k => w.to <= v.from BY <1>1, <1>3
<1>6. PICK q \in Nat \ {0} : \A i \in Nat :
         /\ EqualStart(s, warm, i) \in Nat
         /\ EqualStart(s, warm, i) + q <= EqualStart(s, warm, i + 1)
         /\ EqualStart(s, warm, i + 1) <= EqualStart(s, warm, i) + q + 1
  BY <1>1, EqualTyped
<1>7. /\ v.from \in Nat /\ v.to \in Nat /\ v.to <= v.from + q + 1
      /\ w.from \in Nat /\ w.to \in Nat /\ w.from + q <= w.to
  BY <1>1, <1>6
<1>8. v.to - v.from <= w.to - w.from + 1 BY <1>7
<1>9. k = l \/ k < l \/ l < k OBVIOUS
<1> QED BY <1>2, <1>4, <1>5, <1>8, <1>9 DEF Apart

LEMMA BlockedSound ==
  ASSUME NEW series \in SUBSET Times, NEW warm \in Nat \ {0}
  PROVE  /\ WindowsProper(series, BlockedWindows(series, warm), warm)
         /\ CandlesOf(BlockedWindows(series, warm)) = TradableCandles(series, warm)
         /\ \A v, w \in BlockedWindows(series, warm) :
              v.segment = w.segment => v.to - v.from <= w.to - w.from + 1
<1> DEFINE W == BlockedWindows(series, warm)
<1>1. ASSUME NEW w \in W
      PROVE  \E s \in Segments(series), k \in Nat :
               IsEqual(series, s, warm, k, w) /\ Inside(series, s, warm, w)
  BY BlockedWindowsAre, EqualInside
<1>2. ASSUME NEW s \in Segments(series), NEW k \in Nat, NEW w, IsEqual(series, s, warm, k, w)
      PROVE  w \in W
  BY <1>2, BlockedWindowsAre
<1> HIDE DEF W
<1>3. ASSUME NEW v \in W, NEW w \in W, v.segment = w.segment
      PROVE  Apart(v, w) /\ v.to - v.from <= w.to - w.from + 1
  <2>1. PICK s \in Segments(series), k \in Nat :
          IsEqual(series, s, warm, k, v) /\ Inside(series, s, warm, v)
    BY <1>1
  <2>2. PICK r \in Segments(series), l \in Nat :
          IsEqual(series, r, warm, l, w) /\ Inside(series, r, warm, w)
    BY <1>1
  <2>3. s = r BY <1>3, <2>1, <2>2, SegmentByIndex DEF Inside
  <2> QED BY <2>1, <2>2, <2>3, EqualApart
<1>4. \A w \in W : \E s \in Segments(series) : Inside(series, s, warm, w) BY <1>1
<1>5. WindowsProper(series, W, warm) BY <1>3, <1>4, WindowsAreProper
<1>6. ASSUME NEW t \in CandlesOf(W) PROVE t \in TradableCandles(series, warm)
  <2>1. PICK w \in W : t \in Held(w) BY DEF CandlesOf
  <2>2. PICK s \in Segments(series) : Inside(series, s, warm, w) BY <1>4
  <2>3. Tradable(s, warm) \in Nat /\ s.to \in Nat BY BlocksOfSegment
  <2>4. t \in Tradable(s, warm)..(s.to - 1) BY <2>1, <2>2, <2>3 DEF Inside, Held
  <2> QED BY <2>4, TradableIs
<1>7. ASSUME NEW t \in TradableCandles(series, warm) PROVE t \in CandlesOf(W)
  <2>1. PICK s \in Segments(series) : t \in Tradable(s, warm)..(s.to - 1) BY TradableIs
  <2>2. Tradable(s, warm) \in Nat /\ s.to \in Nat BY BlocksOfSegment
  <2>3. HasWarmUp(s, warm)
    <3>1. HasWarmUp(s, warm) <=> Tradable(s, warm) < s.to BY BlocksOfSegment
    <3> QED BY <2>1, <2>2, <3>1
  <2> DEFINE b == EqualCount(s, warm)
             A == {h \in 1..b : EqualStart(s, warm, h) <= t}
  <2>4. /\ b \in Nat \ {0} /\ EqualStart(s, warm, 0) <= t /\ t < EqualStart(s, warm, b)
    <3>1. EqualStart(s, warm, 0) = Tradable(s, warm) /\ EqualStart(s, warm, b) = s.to
      BY <2>3, EqualTyped
    <3> QED BY <2>1, <2>2, <2>3, <3>1, EqualTyped
  <2>5. A \subseteq 1..b OBVIOUS
  <2> HIDE DEF b
  <2>6. PICK h \in A \cup {0} : \A g \in A : g <= h
    <3> HIDE DEF A
    <3> QED BY <2>4, <2>5, BoundedSetHasMaximum
  <2>7. h \in Nat /\ h <= b /\ EqualStart(s, warm, h) <= t BY <2>4, <2>6
  <2>8. h # b
    <3>1. \A i \in Nat : EqualStart(s, warm, i) \in Nat BY <2>3, EqualTyped
    <3>2. t \in Int /\ EqualStart(s, warm, b) \in Nat BY <2>1, <2>4, <3>1
    <3> QED BY <2>4, <2>7, <3>2
  <2>9. h + 1 \in 1..b BY <2>4, <2>7, <2>8
  <2>10. ~(EqualStart(s, warm, h + 1) <= t)
    <3>1. h + 1 \notin A BY <2>6, <2>7
    <3> QED BY <2>9, <3>1
  <2> DEFINE w == Window(IndexOf(series, s), EqualStart(s, warm, h), EqualStart(s, warm, h + 1))
  <2>11. IsEqual(series, s, warm, h, w) BY <2>3, <2>9 DEF IsEqual, b
  <2>12. t \in Held(w)
    <3>1. EqualStart(s, warm, h) \in Nat /\ EqualStart(s, warm, h + 1) \in Nat
      <4>1. \A i \in Nat : EqualStart(s, warm, i) \in Nat BY <2>3, EqualTyped
      <4> QED BY <2>7, <4>1
    <3>2. t \in EqualStart(s, warm, h)..(EqualStart(s, warm, h + 1) - 1)
      BY <2>1, <2>2, <2>7, <2>10, <3>1
    <3> QED BY <3>2 DEF Held, Window
  <2>13. w \in W BY <1>2, <2>7, <2>11
  <2> QED BY <2>12, <2>13 DEF CandlesOf
<1>8. CandlesOf(W) = TradableCandles(series, warm) BY <1>6, <1>7
<1> QED BY <1>3, <1>5, <1>8 DEF W

-----------------------------------------------------------------------------
(* Holdout windows.                                                        *)

LEMMA SharesFit ==
  ASSUME NEW n \in Nat, NEW parts \in Nat \ {0}, NEW x \in Nat, NEW y \in Nat, x + y <= parts
  PROVE  /\ (n * x) \div parts \in Nat /\ (n * y) \div parts \in Nat
         /\ (n * x) \div parts + (n * y) \div parts <= n
<1>1. n * x \in Nat /\ n * y \in Nat OBVIOUS
<1>2. PICK a \in Nat : a = (n * x) \div parts /\ a * parts <= n * x BY <1>1, QuotientBounds
<1>3. PICK b \in Nat : b = (n * y) \div parts /\ b * parts <= n * y BY <1>1, QuotientBounds
<1>4. (x + y) * n <= parts * n BY ProductMonotone
<1>5. (x + y) * n = n * x + n * y OBVIOUS
<1>6. (a + b) * parts = a * parts + b * parts OBVIOUS
<1>7. a * parts \in Nat /\ b * parts \in Nat /\ parts * n \in Nat OBVIOUS
<1>8. (a + b) * parts <= parts * n BY <1>1, <1>2, <1>3, <1>4, <1>5, <1>6, <1>7
<1>9. a + b <= n
  <2>1. SUFFICES ASSUME n + 1 <= a + b PROVE FALSE OBVIOUS
  <2>2. (n + 1) * parts <= (a + b) * parts BY <2>1, ProductMonotone
  <2>3. (n + 1) * parts = parts * n + parts OBVIOUS
  <2> QED BY <1>6, <1>7, <1>8, <2>2, <2>3
<1> QED BY <1>2, <1>3, <1>9

LEMMA HoldoutOrdered ==
  ASSUME NEW series \in SUBSET Times, NEW warm \in Nat \ {0}, NEW s \in Segments(series),
         HasWarmUp(s, warm)
  PROVE  LET b == HoldoutBounds(s, warm)
         IN  /\ b.train \in Nat /\ b.validation \in Nat
             /\ Tradable(s, warm) <= b.train /\ b.train <= b.validation /\ b.validation <= s.to
<1>1. Tradable(s, warm) \in Nat /\ s.to \in Nat /\ Tradable(s, warm) < s.to BY BlocksOfSegment
<1>2. s.to - Tradable(s, warm) \in Nat BY <1>1
<1> DEFINE n == s.to - Tradable(s, warm)
           a == (n * HoldoutTrain) \div HoldoutParts
           c == (n * HoldoutValidation) \div HoldoutParts
<1>3. a \in Nat /\ c \in Nat /\ a + c <= n
  <2>1. /\ HoldoutParts \in Nat \ {0} /\ HoldoutTrain \in Nat /\ HoldoutValidation \in Nat
        /\ HoldoutTrain + HoldoutValidation <= HoldoutParts
    BY WindowAssumption
  <2> HIDE DEF n
  <2> QED BY <1>2, <2>1, SharesFit DEF n
<1>4. HoldoutBounds(s, warm) =
        [train |-> Tradable(s, warm) + a, validation |-> Tradable(s, warm) + a + c]
  BY DEF HoldoutBounds
<1> HIDE DEF a, c
<1> QED BY <1>1, <1>3, <1>4

\* The window before the training's end, the one between and the one after the
\* validation's.
HoldoutWindow(series, s, warm, w) ==
  LET b == HoldoutBounds(s, warm)
  IN  /\ HasWarmUp(s, warm) /\ w.segment = IndexOf(series, s) /\ w.from < w.to
      /\ \/ w.from = Tradable(s, warm) /\ w.to = b.train
         \/ w.from = b.train /\ w.to = b.validation
         \/ w.from = b.validation /\ w.to = s.to
      /\ w = Window(w.segment, w.from, w.to)

LEMMA HoldoutProper ==
  ASSUME NEW series \in SUBSET Times, NEW warm \in Nat \ {0}
  PROVE  WindowsProper(series, HoldoutWindows(series, warm), warm)
<1> DEFINE W == HoldoutWindows(series, warm)
<1>1. ASSUME NEW w \in W PROVE \E s \in Segments(series) : HoldoutWindow(series, s, warm, w)
  <2>1. PICK s \in Segments(series) :
          /\ HasWarmUp(s, warm) /\ w.from < w.to
          /\ w \in {Window(IndexOf(series, s), Tradable(s, warm), HoldoutBounds(s, warm).train),
                    Window(IndexOf(series, s), HoldoutBounds(s, warm).train,
                          HoldoutBounds(s, warm).validation),
                    Window(IndexOf(series, s), HoldoutBounds(s, warm).validation, s.to)}
    BY DEF HoldoutWindows
  <2>2. HoldoutWindow(series, s, warm, w)
    <3> DEFINE i == IndexOf(series, s)
               T == Tradable(s, warm)
               b == HoldoutBounds(s, warm)
    <3>1. \/ w = Window(i, T, b.train) \/ w = Window(i, b.train, b.validation)
          \/ w = Window(i, b.validation, s.to)
      BY <2>1
    <3> HIDE DEF i, T, b
    <3>2. /\ w = Window(w.segment, w.from, w.to) /\ w.segment = i
          /\ \/ w.from = T /\ w.to = b.train
             \/ w.from = b.train /\ w.to = b.validation
             \/ w.from = b.validation /\ w.to = s.to
      BY <3>1 DEF Window
    <3> QED BY <2>1, <3>2 DEF HoldoutWindow, i, T, b
  <2> QED BY <2>2
<1> HIDE DEF W
<1>2. ASSUME NEW s \in Segments(series), NEW w, HoldoutWindow(series, s, warm, w)
      PROVE  Inside(series, s, warm, w)
  <2>1. HasWarmUp(s, warm) BY <1>2 DEF HoldoutWindow
  <2>2. Tradable(s, warm) \in Nat /\ s.to \in Nat BY BlocksOfSegment
  <2> DEFINE b == HoldoutBounds(s, warm)
  <2>3. /\ b.train \in Nat /\ b.validation \in Nat
        /\ Tradable(s, warm) <= b.train /\ b.train <= b.validation /\ b.validation <= s.to
    BY <2>1, HoldoutOrdered
  <2>4. /\ w.segment = IndexOf(series, s) /\ w.from < w.to
        /\ \/ w.from = Tradable(s, warm) /\ w.to = b.train
           \/ w.from = b.train /\ w.to = b.validation
           \/ w.from = b.validation /\ w.to = s.to
    BY <1>2 DEF HoldoutWindow
  <2> HIDE DEF b
  <2> QED BY <2>2, <2>3, <2>4 DEF Inside
<1>3. ASSUME NEW s \in Segments(series), NEW v, HoldoutWindow(series, s, warm, v),
             NEW w, HoldoutWindow(series, s, warm, w)
      PROVE  Apart(v, w)
  <2>1. HasWarmUp(s, warm) BY <1>3 DEF HoldoutWindow
  <2>2. Tradable(s, warm) \in Nat /\ s.to \in Nat BY BlocksOfSegment
  <2> DEFINE b == HoldoutBounds(s, warm)
  <2>3. /\ b.train \in Nat /\ b.validation \in Nat
        /\ Tradable(s, warm) <= b.train /\ b.train <= b.validation /\ b.validation <= s.to
    BY <2>1, HoldoutOrdered
  <2>4. /\ v.segment = w.segment
        /\ v = Window(v.segment, v.from, v.to) /\ w = Window(w.segment, w.from, w.to)
    BY <1>3 DEF HoldoutWindow
  <2>5. \/ v.from = Tradable(s, warm) /\ v.to = b.train
        \/ v.from = b.train /\ v.to = b.validation
        \/ v.from = b.validation /\ v.to = s.to
    BY <1>3 DEF HoldoutWindow
  <2>6. \/ w.from = Tradable(s, warm) /\ w.to = b.train
        \/ w.from = b.train /\ w.to = b.validation
        \/ w.from = b.validation /\ w.to = s.to
    BY <1>3 DEF HoldoutWindow
  <2> HIDE DEF b
  <2>7. (v.from = w.from /\ v.to = w.to) \/ v.to <= w.from \/ w.to <= v.from
    BY <2>2, <2>3, <2>5, <2>6
  <2>8. v.from = w.from /\ v.to = w.to => v = w BY <2>4, Zenon
  <2> QED BY <2>7, <2>8 DEF Apart
<1>4. \A w \in W : \E s \in Segments(series) : Inside(series, s, warm, w) BY <1>1, <1>2
<1>5. ASSUME NEW v \in W, NEW w \in W, v.segment = w.segment PROVE Apart(v, w)
  <2>1. PICK s \in Segments(series) : HoldoutWindow(series, s, warm, v) BY <1>1
  <2>2. PICK r \in Segments(series) : HoldoutWindow(series, r, warm, w) BY <1>1
  <2>3. IndexOf(series, s) = IndexOf(series, r) BY <1>5, <2>1, <2>2 DEF HoldoutWindow
  <2>4. s = r BY <2>3, SegmentByIndex
  <2> QED BY <1>3, <2>1, <2>2, <2>4
<1>6. WindowsProper(series, W, warm) BY <1>4, <1>5, WindowsAreProper
<1> QED BY <1>6 DEF W

-----------------------------------------------------------------------------
(* What a command has traded.                                              *)

\* A candidate's windows are those of the series the command read.
TradedFrom(name, series, traded, schedule) ==
  /\ \A c \in Candidates : traded[c] # None =>
       /\ name = "research-backtest" => traded[c] = BlockedWindows(PreCutoff(series), Warm[c])
       /\ name = "research-sensitivity" => traded[c] = FixedWindows(PreCutoff(series), Warm[c])
  /\ schedule # None => schedule = FixedWindows(PreCutoff(series), Anchor)

WindowsInv ==
  /\ command.name \in Commands \cup {"none"}
  /\ TradedFrom(command.name, command.series, command.traded, command.schedule)

LEMMA WindowsOfNoCommand == ASSUME command = NoCommand PROVE WindowsInv
BY NoCommandShape DEF WindowsInv, TradedFrom

LEMMA WindowsUntouched ==
  ASSUME WindowsInv,
         \A f \in {"name", "series", "schedule", "traded"} : command'[f] = command[f]
  PROVE  WindowsInv'
<1>1. /\ command'.name = command.name /\ command'.series = command.series
      /\ command'.schedule = command.schedule /\ command'.traded = command.traded
  OBVIOUS
<1> QED BY <1>1 DEF WindowsInv

LEMMA WindowsPreserved == DatesInv /\ WindowsInv /\ [Next]_vars => WindowsInv'
<1> SUFFICES ASSUME DatesInv, WindowsInv, [Next]_vars PROVE WindowsInv' OBVIOUS
<1> DOMAIN command = Fields /\ DOMAIN command.traded = Candidates BY DEF DatesInv, Shape
<1>1. CASE UNCHANGED command BY <1>1, WindowsUntouched
<1>2. CASE command' = NoCommand
  BY <1>2, NoCommandShape DEF WindowsInv, TradedFrom
<1>3. ASSUME \A f \in {"name", "series", "schedule", "traded"} : command'[f] = command[f]
      PROVE  WindowsInv'
  BY <1>3, WindowsUntouched
<1>4. ASSUME NEW name \in Commands, Start(name) PROVE WindowsInv'
  <2>1. command' = [NoCommand EXCEPT !.name = name, !.series = store, !.code = code]
    BY <1>4 DEF Start
  <2>2. /\ command'.name = name /\ command'.schedule = None
        /\ \A c \in Candidates : command'.traded[c] = None
    BY <2>1, NoCommandShape DEF Fields
  <2> QED BY <2>2 DEF WindowsInv, TradedFrom
<1>5. ASSUME NEW c \in Candidates, EvaluateBlocks(c) PROVE WindowsInv'
  <2> DEFINE windows == BlockedWindows(PreCutoff(command.series), Warm[c])
  <2>1. command.name = "research-backtest" BY <1>5 DEF EvaluateBlocks
  <2>2. PICK survivors :
          command' = [command EXCEPT !.traded = [@ EXCEPT ![c] = windows], !.survivors = survivors]
    BY <1>5 DEF EvaluateBlocks
  <2> HIDE DEF windows
  <2>3. /\ command'.name = command.name /\ command'.series = command.series
        /\ command'.schedule = command.schedule
        /\ command'.traded = [command.traded EXCEPT ![c] = windows]
    BY <2>2 DEF Fields
  <2>4. \A d \in Candidates : command'.traded[d] = IF d = c THEN windows ELSE command.traded[d]
    BY <2>3
  <2> QED BY <2>1, <2>3, <2>4 DEF WindowsInv, TradedFrom, windows
<1>6. ASSUME NEW c \in Candidates, EvaluateDurations(c) PROVE WindowsInv'
  <2> DEFINE windows == FixedWindows(PreCutoff(command.series), Warm[c])
  <2>1. command.name = "research-sensitivity" BY <1>6 DEF EvaluateDurations
  <2>2. command' = [command EXCEPT !.traded = [@ EXCEPT ![c] = windows]]
    BY <1>6 DEF EvaluateDurations
  <2> HIDE DEF windows
  <2>3. /\ command'.name = command.name /\ command'.series = command.series
        /\ command'.schedule = command.schedule
        /\ command'.traded = [command.traded EXCEPT ![c] = windows]
    BY <2>2 DEF Fields
  <2>4. \A d \in Candidates : command'.traded[d] = IF d = c THEN windows ELSE command.traded[d]
    BY <2>3
  <2> QED BY <2>1, <2>3, <2>4 DEF WindowsInv, TradedFrom, windows
<1>7. CASE BuildSchedule
  <2> DEFINE windows == FixedWindows(PreCutoff(command.series), Anchor)
  <2>1. command.name = "research-round2" /\ command' = [command EXCEPT !.schedule = windows]
    BY <1>7 DEF BuildSchedule
  <2> HIDE DEF windows
  <2>2. /\ command'.name = command.name /\ command'.series = command.series
        /\ command'.schedule = windows /\ command'.traded = command.traded
    BY <2>1 DEF Fields
  <2> QED BY <2>1, <2>2 DEF WindowsInv, TradedFrom, windows
<1>8. ASSUME NEW c \in Candidates, NEW series, EvaluateOnSchedule(c, series) PROVE WindowsInv'
  <2>1. ASSUME NEW windows, command' = [command EXCEPT !.traded = [@ EXCEPT ![c] = windows]]
        PROVE  WindowsInv'
    <3>1. /\ command'.name = command.name /\ command'.series = command.series
          /\ command'.schedule = command.schedule
      BY <2>1 DEF Fields
    <3>2. command.name = "research-round2" BY <1>8 DEF EvaluateOnSchedule
    <3> QED BY <3>1, <3>2 DEF WindowsInv, TradedFrom
  <2> QED BY <1>2, <1>8, <2>1 DEF EvaluateOnSchedule
<1>9. CASE ReadClock
  <2>1. PICK boundary : command' = [command EXCEPT !.boundary = boundary] BY <1>9 DEF ReadClock
  <2> QED BY <1>3, <2>1 DEF Fields
<1>10. ASSUME NEW c \in Candidates, BeginSave(c) \/ EndSave(c) PROVE WindowsInv'
  BY <1>3, <1>10 DEF Fields, BeginSave, EndSave
<1> QED
  BY <1>1, <1>2, <1>4, <1>5, <1>6, <1>7, <1>8, <1>9, <1>10
  DEF Next, vars, Tick, Fetch, Edit, Report, Kill, Refuse, Finish, Stopped

\* Equal blocks, blocks of fixed duration and the windows of a schedule: no two
\* evaluations of a candidate trade the same candle, none trades one without its
\* warm-up inside the segment or one after the cutoff, none is left out but for
\* the fragments and leftovers the reports list, and the gap recovery's forecast
\* counts the blocks that are built.
THEOREM WindowsAlwaysSound == Spec => []WindowsSound
<1>1. DatesInv /\ WindowsInv => WindowsSound
  <2> SUFFICES ASSUME DatesInv, WindowsInv, command.name # "none" PROVE WindowsSound
    BY DEF WindowsSound
  <2> DEFINE series == PreCutoff(command.series)
  <2>1. command.series \in SUBSET Times /\ series \in SUBSET Times
    BY DEF DatesInv, Shape, PreCutoff
  <2> HIDE DEF series
  <2>2. \A c \in Candidates : Warm[c] \in Nat \ {0} BY ProtocolAssumption DEF Candidates
  <2>3. ASSUME NEW c \in Candidates, command.traded[c] # None, command.name = "research-backtest"
        PROVE  /\ WindowsProper(series, command.traded[c], Warm[c])
               /\ CandlesOf(command.traded[c]) = TradableCandles(series, Warm[c])
               /\ \A v, w \in command.traded[c] :
                    v.segment = w.segment => v.to - v.from <= w.to - w.from + 1
    <3>1. command.traded[c] = BlockedWindows(series, Warm[c])
      BY <2>3 DEF WindowsInv, TradedFrom, series
    <3> QED BY <2>1, <2>2, <3>1, BlockedSound
  <2>4. ASSUME NEW c \in Candidates, command.traded[c] # None, command.name = "research-sensitivity"
        PROVE  /\ WindowsProper(series, command.traded[c], Warm[c])
               /\ \A w \in command.traded[c] : w.to - w.from = BlockLength
               /\ Cardinality(command.traded[c]) = PredictedBlocks(series, Warm[c])
               /\ TradableCandles(series, Warm[c]) =
                    CandlesOf(command.traded[c]) \cup CandlesOf(Leftovers(series, Warm[c]))
                      \cup UNION {Tradable(s, Warm[c])..(s.to - 1) : s \in Fragments(series, Warm[c])}
               /\ \A w \in Leftovers(series, Warm[c]) : w.to - w.from < BlockLength
    <3>1. command.traded[c] = FixedWindows(series, Warm[c])
      BY <2>4 DEF WindowsInv, TradedFrom, series
    <3>2. Warm[c] \in Nat \ {0} /\ Warm[c] <= Warm[c] BY <2>2
    <3>3. /\ WindowsProper(series, command.traded[c], Warm[c])
          /\ \A w \in command.traded[c] : w.to - w.from = BlockLength
      BY <2>1, <3>1, <3>2, FixedProper
    <3>4. Cardinality(command.traded[c]) = PredictedBlocks(series, Warm[c])
      BY <2>1, <3>1, <3>2, PredictedIsCount
    <3> QED BY <2>1, <3>1, <3>2, <3>3, <3>4, FixedCover
  <2>5. ASSUME NEW c \in Candidates, command.traded[c] # None, command.name = "research-round2"
        PROVE  WindowsProper(series, command.traded[c], Warm[c])
    <3>1. command.schedule # None BY <2>5 DEF DatesInv, Scheduled
    <3>2. command.traded[c] = command.schedule BY <2>5, <3>1 DEF DatesInv, DatesIdentical
    <3>3. command.traded[c] = FixedWindows(series, Anchor)
      BY <3>1, <3>2 DEF WindowsInv, TradedFrom, series
    <3>4. Anchor \in Nat \ {0} /\ Warm[c] <= Anchor
      <4>1. PICK a \in Candidates : \A d \in Candidates : Warm[d] <= Warm[a]
        BY LongestWarmUp DEF Candidates
      <4>2. \E w \in {Warm[d] : d \in Candidates} : \A d \in Candidates : Warm[d] <= w BY <4>1
      <4>3. Warm[c] <= Anchor BY <4>2 DEF Anchor
      <4> QED BY <4>3, AnchorTyped
    <3> QED BY <2>1, <2>2, <3>3, <3>4, FixedProper
  <2>6. WindowsProper(command.series, HoldoutWindows(command.series, BaselineWarm), BaselineWarm)
    BY <2>1, ProtocolAssumption, HoldoutProper
  <2>7. command.name \in {"research-backtest", "research-sensitivity", "research-round2"}
    BY DEF WindowsInv, Commands
  <2> QED BY <2>3, <2>4, <2>5, <2>6, <2>7 DEF WindowsSound, series
<1>2. Init => WindowsInv BY WindowsOfNoCommand DEF Init
<1> QED BY <1>1, <1>2, DatesInitially, DatesPreserved, WindowsPreserved, PTL DEF Spec
=============================================================================
