---------------------------- MODULE ResearchWindows ----------------------------
(***************************************************************************)
(* Which candles each research evaluation trades: the gap-free segments of *)
(* data/gap_detection.py, the equal blocks of                              *)
(* research/blocked_chronological_evaluation.py, the blocks of fixed       *)
(* duration and the shared schedule of                                     *)
(* research/fixed_duration_evaluation.py and the holdout windows of        *)
(* backtest/engine.py.                                                     *)
(*                                                                         *)
(* A candle is its opening time counted in intervals and a series the set  *)
(* of its candles; storage keeps them ordered and without duplicates.  A   *)
(* range [from, to) is written with its first candle and the time its last *)
(* one closes.                                                             *)
(***************************************************************************)
EXTENDS Integers, FiniteSetsExt

CONSTANTS
  Cutoff,         \* RESEARCH_CUTOFF_MS
  BlockCount,     \* DEFAULT_BLOCK_COUNT
  BlockLength,    \* block_duration_ms, in intervals
  HoldoutParts,   \* train_fraction and validation_fraction, of HoldoutParts
  HoldoutTrain,
  HoldoutValidation

ASSUME WindowAssumption ==
  /\ Cutoff \in Nat
  /\ {BlockCount, BlockLength, HoldoutParts, HoldoutTrain, HoldoutValidation} \subseteq Nat \ {0}
  /\ HoldoutTrain + HoldoutValidation < HoldoutParts

Lesser(a, b) == IF a <= b THEN a ELSE b
Larger(a, b) == IF a >= b THEN a ELSE b

\* split_at_cutoff: the candles a candidate may be developed on.
PreCutoff(series) == {t \in series : t < Cutoff}

\* assert_pre_cutoff.
AllPreCutoff(series) == \A t \in series : t < Cutoff

-----------------------------------------------------------------------------
(* partition_into_segments.                                                *)

IsSegment(series, from, to) ==
  /\ from < to
  /\ from..(to - 1) \subseteq series
  /\ from - 1 \notin series /\ to \notin series

Segments(series) ==
  {s \in [from : series, to : {t + 1 : t \in series}] : IsSegment(series, s.from, s.to)}

\* A segment's index in the list.
IndexOf(series, s) == Cardinality({r \in Segments(series) : r.from < s.from})

\* The first candle of a segment that has its warm-up before it.
Tradable(s, warm) == s.from + warm - 1

HasWarmUp(s, warm) == s.to - s.from >= warm

Window(segment, from, to) == [segment |-> segment, from |-> from, to |-> to]

-----------------------------------------------------------------------------
(* run_candidate_blocked_chronological_evaluation.                         *)

\* Fault: the remainder is dropped.
BlockStartNoRemainder(first, n, blocks, k) == first + k * (n \div blocks)

\* _block_boundaries: the remainder goes to the earliest blocks.
BlockStart(first, n, blocks, k) == first + k * (n \div blocks) + Lesser(k, n % blocks)

\* The blocks of one segment, fewer where it is too short.
SegmentBlocks(series, s, warm) ==
  LET first  == Tradable(s, warm)
      n      == s.to - first
      blocks == Lesser(BlockCount, n)
  IN  {Window(IndexOf(series, s), BlockStart(first, n, blocks, k),
             BlockStart(first, n, blocks, k + 1)) : k \in 0..(blocks - 1)}

BlockedWindows(series, warm) ==
  UNION {SegmentBlocks(series, s, warm) : s \in {r \in Segments(series) : HasWarmUp(r, warm)}}

-----------------------------------------------------------------------------
(* build_fixed_duration_schedule.                                          *)

\* possible_blocks.
CompleteBlocks(s, warm) ==
  IF HasWarmUp(s, warm) THEN (s.to - Tradable(s, warm)) \div BlockLength ELSE 0

FixedWindow(series, s, warm, k) ==
  Window(IndexOf(series, s), Tradable(s, warm) + k * BlockLength,
        Tradable(s, warm) + (k + 1) * BlockLength)

FixedWindows(series, warm) ==
  UNION {{FixedWindow(series, s, warm, k) : k \in 0..(CompleteBlocks(s, warm) - 1)} :
           s \in Segments(series)}

\* count_round3_complete_blocks, the gap recovery's forecast.
PredictedBlocks(series, warm) ==
  MapThenSumSet(LAMBDA s : CompleteBlocks(s, warm), Segments(series))

\* InsufficientDurationFragment: segments without one complete block.
Fragments(series, warm) == {s \in Segments(series) : CompleteBlocks(s, warm) = 0}

\* LeftoverPartialWindow: what follows a segment's last complete block.
LeftoverFrom(s, warm) == Tradable(s, warm) + CompleteBlocks(s, warm) * BlockLength

Leftovers(series, warm) ==
  {Window(IndexOf(series, s), LeftoverFrom(s, warm), s.to) :
     s \in {r \in Segments(series) \ Fragments(series, warm) : LeftoverFrom(r, warm) < r.to}}

Disjoint(windows) == \A v, w \in windows : v = w \/ v.to <= w.from \/ w.to <= v.from

\* _validate_schedule.
ScheduleValid(windows) ==
  /\ \A w \in windows : w.to - w.from = BlockLength /\ w.to <= Cutoff
  /\ Disjoint(windows)

-----------------------------------------------------------------------------
(* _evaluate_duration_block: a scheduled window in a series that need not  *)
(* be the one the schedule was built from.                                 *)

\* bisect_left over the segment's candles.
Found(s, w) ==
  LET from == Lesser(Larger(w.from, s.from), s.to)
  IN  Window(w.segment, from, Larger(from, Lesser(Larger(w.to, s.from), s.to)))

\* Fault: a segment that ends too early shortens the block.
CompletelyFoundLoose(s, w) == Found(s, w).from < Found(s, w).to

CompletelyFound(s, w) ==
  /\ Found(s, w).from < Found(s, w).to
  /\ ~(Found(s, w).to = s.to /\ s.to < w.to)

WarmedUp(s, w, warm) == Found(s, w).from - (warm - 1) >= s.from

SegmentsAt(series, index) == {s \in Segments(series) : IndexOf(series, s) = index}

\* Every window is found, or the evaluation raises and has no result: the
\* segment may be missing, too short, or start too late for the warm-up.
ScheduleApplies(series, schedule, warm) ==
  \A w \in schedule : \E s \in SegmentsAt(series, w.segment) :
     CompletelyFound(s, w) /\ WarmedUp(s, w, warm)

\* The windows a candidate then really trades.
TradedOnSchedule(series, schedule) ==
  UNION {{Found(s, w) : s \in SegmentsAt(series, w.segment)} : w \in schedule}

-----------------------------------------------------------------------------
(* run_independent_holdout_evaluation.                                     *)

HoldoutBounds(s, warm) ==
  LET first == Tradable(s, warm)
      train == first + ((s.to - first) * HoldoutTrain) \div HoldoutParts
  IN  [train |-> train,
       validation |-> train + ((s.to - first) * HoldoutValidation) \div HoldoutParts]

\* A segment whose train window would be empty is skipped, an empty window too.
HoldoutWindows(series, warm) ==
  UNION {LET i == IndexOf(series, s)
             b == HoldoutBounds(s, warm)
         IN  {w \in {Window(i, Tradable(s, warm), b.train), Window(i, b.train, b.validation),
                     Window(i, b.validation, s.to)} : w.from < w.to} :
           s \in {r \in Segments(series) : /\ HasWarmUp(r, warm)
                                           /\ HoldoutBounds(r, warm).train > Tradable(r, warm)}}
=============================================================================
