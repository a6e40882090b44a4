------------------------ MODULE CandleHistoryProofs ------------------------
(***************************************************************************)
(* Proofs that the store and the checkpoint keep their types, that every   *)
(* verdict an audit gives is true of the exchange, that only complete      *)
(* hours are rebuilt, that an undisturbed recovery leaves an exact         *)
(* manifest, that without failures every verdict is exact, and that every  *)
(* row of the manifest is answered for its own hours.                      *)
(***************************************************************************)
EXTENDS CandleHistory, TLAPS

\* Multiplication by a duration is monotone.
LEMMA Monotone ==
  ASSUME NEW a \in Nat, NEW b \in Nat, NEW c \in Nat, a <= b
  PROVE  a * c <= b * c
<1>1. PICK d \in Nat : b = a + d
  <2>1. b - a \in Nat /\ b = a + (b - a) OBVIOUS
  <2> QED BY <2>1
<1>2. b * c = a * c + d * c BY <1>1
<1>3. a * c \in Nat /\ d * c \in Nat OBVIOUS
<1> QED BY <1>2, <1>3

\* The rows of partition_into_segments are rows.
LEMMA GapsTyped ==
  ASSUME NEW hours \in SUBSET Hours
  PROVE  Gaps(hours) \subseteq GapRecords
<1> SUFFICES ASSUME NEW g \in Gaps(hours) PROVE g \in GapRecords OBVIOUS
<1>1. PICK h \in hours, n \in hours : g = [first |-> h + 1, prev |-> h, next |-> n]
  BY DEF Gaps
<1>2. h + 1 < n BY <1>1 DEF Gaps
<1>3. h \in Hours /\ n \in Hours OBVIOUS
<1>4. h + 1 \in Hours BY <1>2, <1>3, HistoryAssumption DEF Hours
<1> QED BY <1>1, <1>3, <1>4 DEF GapRecords

LEMMA MissingAreHours ==
  ASSUME NEW g \in GapRecords, NEW h \in MissingHours(g)
  PROVE  h \in Hours /\ h >= g.first /\ h < g.next /\ h \in Nat
BY HistoryAssumption DEF GapRecords, MissingHours, Hours

LEMMA VerdictsTyped ==
  ASSUME NEW g, NEW broken, NEW reached, NEW answered
  PROVE  Verdicts(g, broken, reached, answered) \in [MissingHours(g) -> Outcomes]
BY DEF Verdicts, Classified, Outcomes

-----------------------------------------------------------------------------
\* A fetch that came to its end, or stopped at a breaking point beyond an
\* hour's first minute, has seen every minute of it or one of its minutes.
LEMMA SeenEnough ==
  ASSUME minutes \subseteq Minutes,
         NEW h \in Nat, NEW reached \in Int,
         \/ (h + 1) * MinutesPerHour <= reached
         \/ reached - 1 \in minutes /\ h * MinutesPerHour < reached,
         {m \in minutes \cap MinutesOf(h) : m < reached} = {}
  PROVE  MinutesOf(h) \cap minutes = {}
<1> DEFINE from == h * MinutesPerHour
           to == (h + 1) * MinutesPerHour
<1>1. from \in Int /\ to \in Int BY HistoryAssumption
<1>2. MinutesOf(h) = from..(to - 1) BY DEF MinutesOf
<1> HIDE DEF from, to
<1>3. CASE to <= reached BY <1>1, <1>2, <1>3
<1>4. CASE reached - 1 \in minutes /\ from < reached /\ ~(to <= reached)
  <2>1. reached - 1 \in MinutesOf(h) BY <1>1, <1>2, <1>4
  <2>2. reached - 1 < reached OBVIOUS
  <2> QED BY <1>4, <2>1, <2>2
<1> QED BY <1>3, <1>4 DEF from, to

Truthful(verdict) ==
  \A h \in DOMAIN verdict :
    /\ verdict[h] = "genuine" => MinutesOf(h) \cap minutes = {}
    /\ verdict[h] = "full" => IsComplete(h) /\ h < Cutoff

\* What _analyze_one_gap says is true, whether or not its fetch broke off.
LEMMA VerdictsTruthful ==
  ASSUME minutes \subseteq Minutes,
         NEW g \in GapRecords, NEW answered,
         NEW broken \in BOOLEAN, NEW reached \in Int,
         IF broken
         THEN reached \in BreakingPoints(g.first * MinutesPerHour, EndOfFetch(g))
         ELSE reached = EndOfFetch(g)
  PROVE  Truthful(Verdicts(g, broken, reached, answered))
<1> DEFINE v == Verdicts(g, broken, reached, answered)
<1> SUFFICES ASSUME NEW h \in DOMAIN v
             PROVE  /\ v[h] = "genuine" => MinutesOf(h) \cap minutes = {}
                    /\ v[h] = "full" => IsComplete(h) /\ h < Cutoff
  BY DEF Truthful
<1>1. h \in MissingHours(g) BY DEF Verdicts
<1>2. h \in Nat /\ h >= g.first /\ h < g.next BY <1>1, MissingAreHours
<1>3. v[h] = IF h >= Cutoff THEN "excluded"
             ELSE IF broken /\ h * MinutesPerHour >= reached THEN "unchecked"
             ELSE Classified(h, reached, answered)
  BY <1>1 DEF Verdicts
<1> HIDE DEF v
<1>4. ASSUME v[h] = "full" PROVE IsComplete(h) /\ h < Cutoff
  <2>1. ~(h >= Cutoff) /\ Classified(h, reached, answered) = "full" BY <1>3, <1>4
  <2>2. {m \in minutes \cap MinutesOf(h) : m < reached} = MinutesOf(h)
    BY <2>1 DEF Classified
  <2>3. h < Cutoff BY <2>1, <1>2, HistoryAssumption
  <2> QED BY <2>2, <2>3 DEF IsComplete
<1>5. ASSUME v[h] = "genuine" PROVE MinutesOf(h) \cap minutes = {}
  <2>1. /\ ~(h >= Cutoff) /\ ~(broken /\ h * MinutesPerHour >= reached)
        /\ Classified(h, reached, answered) = "genuine"
    BY <1>3, <1>5
  <2>2. {m \in minutes \cap MinutesOf(h) : m < reached} = {}
    BY <2>1 DEF Classified
  <2>3. h * MinutesPerHour \in Int BY <1>2, HistoryAssumption
  <2>4. CASE ~broken
    <3> DEFINE last == IF g.next <= Cutoff THEN g.next ELSE Cutoff
    <3>1. last \in Nat /\ h + 1 <= last
      BY <1>2, <2>1, HistoryAssumption DEF GapRecords, Hours
    <3>2. (h + 1) * MinutesPerHour <= last * MinutesPerHour
      BY <3>1, <1>2, Monotone, HistoryAssumption
    <3>3. reached = last * MinutesPerHour BY <2>4 DEF EndOfFetch
    <3> QED BY <3>2, <3>3, <1>2, <2>2, SeenEnough
  <2>5. CASE broken
    <3> DEFINE start == g.first * MinutesPerHour
    <3>1. h * MinutesPerHour < reached BY <2>1, <2>3, <2>5
    <3>2. start <= h * MinutesPerHour
      BY <1>2, Monotone, HistoryAssumption DEF GapRecords, Hours
    <3>3. reached # start
      <4>1. start \in Int BY HistoryAssumption DEF GapRecords, Hours
      <4> QED BY <3>1, <3>2, <2>3, <4>1
    <3>4. reached - 1 \in minutes BY <2>5, <3>3 DEF BreakingPoints
    <3> QED BY <3>1, <3>4, <1>2, <2>2, SeenEnough
  <2> QED BY <2>4, <2>5
<1> QED BY <1>4, <1>5

-----------------------------------------------------------------------------
Shape(x) ==
  /\ x.pc \in {"idle", "audit", "write"}
  /\ x.rows \subseteq GapRecords /\ x.seen \subseteq Hours
  /\ WellFormed(x.memory) /\ WellFormed(x.report)

\* TypeOK, with the fields of a command's memory named.
TypeInv == TypeOK /\ \A r \in Runs : Shape(run[r])

LEMMA IdleShape == Shape(Idle)
BY DEF Shape, Idle, WellFormed

LEMMA AuditingShape ==
  ASSUME NEW rows \in SUBSET GapRecords, NEW memory, WellFormed(memory),
         NEW report, WellFormed(report)
  PROVE  Shape(Auditing(rows, memory, report))
<1>1. {} \subseteq Hours OBVIOUS
<1> QED BY <1>1 DEF Shape, Auditing

LEMMA WritingShape ==
  ASSUME NEW report, WellFormed(report), NEW seen \in SUBSET Hours
  PROVE  Shape(Writing(report, seen))
<1>1. {} \subseteq GapRecords /\ WellFormed({}) BY DEF WellFormed
<1> QED BY <1>1 DEF Shape, Writing

LEMMA RebuiltTyped ==
  ASSUME NEW report, WellFormed(report)
  PROVE  Rebuilt(report) \subseteq Hours
<1> SUFFICES ASSUME NEW e \in report, NEW h \in DOMAIN e.verdict PROVE h \in Hours
  BY DEF Rebuilt
<1> QED BY MissingAreHours DEF WellFormed

LEMMA UpsertedTyped ==
  ASSUME NEW rows \in SUBSET GapRecords, NEW new \in SUBSET GapRecords
  PROVE  Upserted(rows, new) \subseteq GapRecords
BY DEF Upserted

\* One command's record may change as long as its shape is kept.
LEMMA RunTyped ==
  ASSUME TypeInv, NEW r \in Runs, NEW x, Shape(x), run' = [run EXCEPT ![r] = x]
  PROVE  /\ DOMAIN run' = Runs
         /\ \A q \in Runs : Shape(run'[q])
BY DEF TypeInv, TypeOK

LEMMA Typed ==
  ASSUME native' \subseteq Hours, minutes' \subseteq Minutes,
         candle' \in [Hours -> {"none", "fetched", "rebuilt"}],
         gaps' \subseteq GapRecords,
         errors' \in 0..MaxErrors, started' \in 0..Audits, WellFormed(saved'),
         DOMAIN run' = Runs, \A q \in Runs : Shape(run'[q])
  PROVE  TypeInv'
BY DEF TypeInv, TypeOK, Shape, WellFormed

LEMMA InitTyped == Init => TypeInv
<1> SUFFICES ASSUME Init PROVE TypeInv OBVIOUS
<1>1. \A r \in Runs : Shape(run[r]) BY IdleShape DEF Init
<1> QED BY <1>1, HistoryAssumption DEF Init, TypeInv, TypeOK, Shape, WellFormed

\* The record that Record leaves, for a verdict of the right shape.
LEMMA RecordTyped ==
  ASSUME TypeInv, NEW r \in Runs, NEW g \in run[r].rows,
         NEW verdict \in [MissingHours(g) -> Outcomes], Record(r, g, verdict)
  PROVE  /\ WellFormed(saved')
         /\ DOMAIN run' = Runs
         /\ \A q \in Runs : Shape(run'[q])
<1> DEFINE entry == [gap |-> g, verdict |-> verdict]
           x == Auditing(run[r].rows \ {g}, saved', run[r].report \cup {entry})
<1>1. Shape(run[r]) /\ DOMAIN run = Runs BY DEF TypeInv, TypeOK
<1>2. g \in GapRecords BY <1>1 DEF Shape
<1>3. WellFormed({entry}) BY <1>2 DEF WellFormed
<1>4. saved' = run[r].memory \cup {entry} BY DEF Record
<1>5. WellFormed(saved') BY <1>1, <1>3, <1>4 DEF WellFormed, Shape
<1>6. WellFormed(run[r].report \cup {entry}) BY <1>1, <1>3 DEF WellFormed, Shape
<1>7. Shape(x)
  <2>1. run[r].rows \ {g} \in SUBSET GapRecords BY <1>1 DEF Shape
  <2> QED BY <2>1, <1>5, <1>6, AuditingShape
<1>8. run' = [run EXCEPT ![r] = x] BY DEF Record
<1> QED BY <1>5, <1>7, <1>8, RunTyped

LEMMA NextTyped == TypeInv /\ [Next]_vars => TypeInv'
<1> SUFFICES ASSUME TypeInv, [Next]_vars PROVE TypeInv' OBVIOUS
<1>0. /\ native \subseteq Hours /\ minutes \subseteq Minutes
      /\ candle \in [Hours -> {"none", "fetched", "rebuilt"}]
      /\ gaps \subseteq GapRecords /\ errors \in 0..MaxErrors
      /\ started \in 0..Audits /\ WellFormed(saved) /\ DOMAIN run = Runs
      /\ \A q \in Runs : Shape(run[q])
  BY DEF TypeInv, TypeOK
<1> USE DEF external, store
<1>1. ASSUME NEW first \in Hours, NEW last \in Hours,
             FetchData(native \cap (first..last))
      PROVE  TypeInv'
  <2> DEFINE there == native \cap (first..last)
  <2>a. PICK answer \in Answers(there) \ {{}} : \E heard \in SUBSET Gaps(answer) :
            LET kept == Confirmed(there, answer, heard) IN
            /\ candle' = Put(kept, "fetched")
            /\ gaps' = Upserted(gaps, Gaps(kept))
            /\ errors' = IF answer = there THEN errors ELSE errors + 1
            /\ UNCHANGED <<external, saved, run, started>>
    BY <1>1 DEF FetchData
  <2>b. PICK heard \in SUBSET Gaps(answer) :
            LET kept == Confirmed(there, answer, heard) IN
            /\ candle' = Put(kept, "fetched")
            /\ gaps' = Upserted(gaps, Gaps(kept))
            /\ errors' = IF answer = there THEN errors ELSE errors + 1
            /\ UNCHANGED <<external, saved, run, started>>
    BY <2>a
  <2> DEFINE kept == Confirmed(there, answer, heard)
  <2>1. /\ candle' = Put(kept, "fetched")
        /\ gaps' = Upserted(gaps, Gaps(kept))
        /\ errors' = IF answer = there THEN errors ELSE errors + 1
        /\ UNCHANGED <<external, saved, run, started>>
    BY <2>b
  <2>2. there \subseteq Hours /\ answer \subseteq there BY <1>0 DEF Answers
  <2>3. kept \in SUBSET Hours BY <2>2 DEF Confirmed
  <2>4. gaps' \subseteq GapRecords
    BY <1>0, <2>1, <2>3, GapsTyped, UpsertedTyped
  <2>5. errors' \in 0..MaxErrors
    <3>1. answer = there \/ errors < MaxErrors BY DEF Answers
    <3> QED BY <3>1, <2>1, <1>0, HistoryAssumption
  <2>6. candle' \in [Hours -> {"none", "fetched", "rebuilt"}] BY <1>0, <2>1 DEF Put
  <2>7. UNCHANGED <<native, minutes, saved, run, started>> BY <2>1
  <2> QED BY <1>0, <2>4, <2>5, <2>6, <2>7, Typed
<1>2. ASSUME NEW h \in Hours, Backfill(h) PROVE TypeInv'
  BY <1>0, <1>2, Typed DEF Backfill
<1>3. ASSUME NEW r \in Runs, NEW reset \in BOOLEAN, Start(r, reset) PROVE TypeInv'
  <2> DEFINE x == Auditing(gaps, saved', {})
  <2>1. WellFormed(saved') BY <1>0, <1>3 DEF Start, WellFormed
  <2>2. Shape(x)
    <3>1. WellFormed({}) BY DEF WellFormed
    <3> QED BY <1>0, <2>1, <3>1, AuditingShape
  <2>3. DOMAIN run' = Runs /\ \A q \in Runs : Shape(run'[q])
    BY <1>3, <2>2, RunTyped DEF Start
  <2>4. started' \in 0..Audits BY <1>0, <1>3, HistoryAssumption DEF Start
  <2> QED BY <1>0, <1>3, <2>1, <2>3, <2>4, Typed DEF Start
<1>4. ASSUME NEW r \in Runs, AnalyzeGap(r) PROVE TypeInv'
  <2>1. PICK g \in run[r].rows, answered \in CrossChecks :
          \/ /\ Record(r, g, Verdicts(g, FALSE, EndOfFetch(g), answered))
             /\ errors' = errors
          \/ \E reached \in BreakingPoints(g.first * MinutesPerHour, EndOfFetch(g)) :
               /\ Record(r, g, Verdicts(g, TRUE, reached, answered))
               /\ FetchFails
    BY <1>4 DEF AnalyzeGap
  <2>2. \E verdict \in [MissingHours(g) -> Outcomes] : Record(r, g, verdict)
    BY <2>1, VerdictsTyped
  <2>3. /\ WellFormed(saved') /\ DOMAIN run' = Runs
        /\ \A q \in Runs : Shape(run'[q])
    BY <2>2, RecordTyped
  <2>4. errors' = errors \/ (errors < MaxErrors /\ errors' = errors + 1)
    BY <2>1 DEF FetchFails
  <2>5. errors' \in 0..MaxErrors BY <1>0, <2>4, HistoryAssumption
  <2> QED BY <1>0, <1>4, <2>3, <2>5, Typed DEF AnalyzeGap
<1>5. ASSUME NEW r \in Runs, ReuseCached(r) PROVE TypeInv'
  <2>1. PICK g \in run[r].rows, e \in run[r].memory :
          run' = [run EXCEPT ![r] = Auditing(run[r].rows \ {g}, run[r].memory,
                                             run[r].report \cup {e})]
    BY <1>5 DEF ReuseCached
  <2> DEFINE x == Auditing(run[r].rows \ {g}, run[r].memory, run[r].report \cup {e})
  <2>2. Shape(x)
    <3>1. run[r].rows \ {g} \in SUBSET GapRecords BY <1>0 DEF Shape
    <3>2. WellFormed(run[r].memory) BY <1>0 DEF Shape
    <3>3. WellFormed(run[r].report \cup {e}) BY <1>0 DEF Shape, WellFormed
    <3> QED BY <3>1, <3>2, <3>3, AuditingShape
  <2>3. run' = [run EXCEPT ![r] = x] BY <2>1
  <2>4. DOMAIN run' = Runs /\ \A q \in Runs : Shape(run'[q])
    BY <2>2, <2>3, RunTyped
  <2> QED BY <1>0, <1>5, <2>4, Typed DEF ReuseCached
<1>6. ASSUME NEW r \in Runs, Leave(r) PROVE TypeInv'
  <2>1. DOMAIN run' = Runs /\ \A q \in Runs : Shape(run'[q])
    BY <1>6, IdleShape, RunTyped DEF Leave
  <2> QED BY <1>0, <1>6, <2>1, Typed DEF Leave
<1>7. ASSUME NEW r \in Runs, ReadExisting(r) PROVE TypeInv'
  <2> DEFINE x == Writing(run[r].report, Stored)
  <2>1. Shape(x)
    <3>1. WellFormed(run[r].report) BY <1>0 DEF Shape
    <3>2. Stored \in SUBSET Hours BY DEF Stored
    <3> QED BY <3>1, <3>2, WritingShape
  <2>2. run' = [run EXCEPT ![r] = x] BY <1>7 DEF ReadExisting
  <2>3. DOMAIN run' = Runs /\ \A q \in Runs : Shape(run'[q])
    BY <2>1, <2>2, RunTyped
  <2> QED BY <1>0, <1>7, <2>3, Typed DEF ReadExisting
<1>8. ASSUME NEW r \in Runs, StoreRecovered(r) PROVE TypeInv'
  <2> DEFINE rebuilt == Rebuilt(run[r].report)
             old == {e.gap : e \in run[r].report}
  <2>1. run[r].seen \cup rebuilt \in SUBSET Hours
    BY <1>0, RebuiltTyped DEF Shape
  <2>2. Without(gaps, old) \subseteq GapRecords BY <1>0 DEF Without
  <2>3. gaps' = Upserted(Without(gaps, old), Gaps(run[r].seen \cup rebuilt))
    BY <1>8 DEF StoreRecovered
  <2>4. gaps' \subseteq GapRecords BY <2>1, <2>2, <2>3, GapsTyped, UpsertedTyped
  <2>5. candle' \in [Hours -> {"none", "fetched", "rebuilt"}]
    BY <1>0, <1>8 DEF StoreRecovered, Put
  <2>6. DOMAIN run' = Runs /\ \A q \in Runs : Shape(run'[q])
    BY <1>8, IdleShape, RunTyped DEF StoreRecovered
  <2> QED BY <1>0, <1>8, <2>4, <2>5, <2>6, Typed DEF StoreRecovered
<1>9. CASE UNCHANGED vars BY <1>9, <1>0, Typed DEF vars
<1> QED
  BY <1>1, <1>2, <1>3, <1>4, <1>5, <1>6, <1>7, <1>8, <1>9 DEF Next

\* The state keeps its types: among them, that the verdicts of the checkpoint
\* and of every report are given for exactly the hours of their gap.
THEOREM HistoryTypeCorrect == Spec => []TypeOK
<1>1. TypeInv => TypeOK BY DEF TypeInv
<1> QED BY InitTyped, NextTyped, <1>1, PTL DEF Spec

-----------------------------------------------------------------------------
Sound(entries) == \A e \in entries : Truthful(e.verdict)

\* Verdicts are true wherever they are kept: in the file, in a command's
\* memory of it, and in its report.
SoundInv ==
  /\ Sound(saved)
  /\ \A r \in Runs : Sound(run[r].memory) /\ Sound(run[r].report)

\* A rebuilt candle comes from a true report.
HistoryInv == TypeInv /\ SoundInv /\ RebuiltIsComplete

LEMMA RebuiltTruthful ==
  ASSUME NEW report, Sound(report), NEW h \in Rebuilt(report)
  PROVE  IsComplete(h) /\ h < Cutoff
BY DEF Rebuilt, Sound, Truthful

\* Nothing is forgotten of what the exchange has, so truths stay true.
LEMMA SoundStays ==
  ASSUME NEW entries, Sound(entries), UNCHANGED minutes
  PROVE  Sound(entries)'
BY DEF Sound, Truthful, IsComplete, MinutesOf

LEMMA IdleSound == /\ Sound({})
                   /\ Sound(Idle.memory) /\ Sound(Idle.report)
<1>1. Idle.memory = {} /\ Idle.report = {} BY DEF Idle
<1> QED BY <1>1 DEF Sound

LEMMA InitSound == Init => SoundInv /\ RebuiltIsComplete
<1> SUFFICES ASSUME Init PROVE SoundInv /\ RebuiltIsComplete OBVIOUS
<1>1. Sound(saved) BY IdleSound DEF Init
<1>2. \A r \in Runs : Sound(run[r].memory) /\ Sound(run[r].report)
  BY IdleSound DEF Init
<1>3. RebuiltIsComplete BY DEF Init, RebuiltIsComplete
<1> QED BY <1>1, <1>2, <1>3 DEF SoundInv

\* A command changes its own memory only.
LEMMA SoundRun ==
  ASSUME TypeInv, SoundInv, UNCHANGED minutes,
         NEW r \in Runs, NEW x, run' = [run EXCEPT ![r] = x],
         Sound(x.memory), Sound(x.report), Sound(saved')
  PROVE  SoundInv'
<1>1. \A q \in Runs : run'[q] = IF q = r THEN x ELSE run[q]
  BY DEF TypeInv, TypeOK
<1>2. \A q \in Runs : Sound(run'[q].memory) /\ Sound(run'[q].report)
  BY <1>1 DEF SoundInv
<1> QED BY <1>2 DEF SoundInv, Sound, Truthful, IsComplete, MinutesOf

LEMMA NextSound == HistoryInv /\ [Next]_vars => SoundInv'
<1> SUFFICES ASSUME HistoryInv, [Next]_vars PROVE SoundInv' OBVIOUS
<1>0. TypeInv /\ SoundInv /\ minutes \subseteq Minutes
  BY DEF HistoryInv, TypeInv, TypeOK
<1>a. ASSUME UNCHANGED <<minutes, saved, run>> PROVE SoundInv'
  BY <1>0, <1>a DEF SoundInv, Sound, Truthful, IsComplete, MinutesOf
<1> USE DEF external, store
<1>1. ASSUME NEW there, FetchData(there) PROVE SoundInv'
  BY <1>1, <1>a DEF FetchData
<1>2. ASSUME NEW h \in Hours, Backfill(h) PROVE SoundInv'
  BY <1>2, <1>a DEF Backfill
<1>3. ASSUME NEW r \in Runs, NEW reset \in BOOLEAN, Start(r, reset) PROVE SoundInv'
  <2>1. Sound(saved') BY <1>0, <1>3, IdleSound DEF Start, SoundInv
  <2> DEFINE x == Auditing(gaps, saved', {})
  <2>2. Sound(x.memory) /\ Sound(x.report) BY <2>1, IdleSound DEF Auditing
  <2>3. run' = [run EXCEPT ![r] = x] /\ UNCHANGED minutes BY <1>3 DEF Start
  <2> QED BY <1>0, <2>1, <2>2, <2>3, SoundRun
<1>4. ASSUME NEW r \in Runs, AnalyzeGap(r) PROVE SoundInv'
  <2>1. PICK g \in run[r].rows, answered \in CrossChecks :
          \/ Record(r, g, Verdicts(g, FALSE, EndOfFetch(g), answered))
          \/ \E reached \in BreakingPoints(g.first * MinutesPerHour, EndOfFetch(g)) :
               Record(r, g, Verdicts(g, TRUE, reached, answered))
    BY <1>4 DEF AnalyzeGap
  <2>2. g \in GapRecords BY <1>0 DEF TypeInv, Shape
  <2>3. EndOfFetch(g) \in Int
    BY <2>2, HistoryAssumption DEF EndOfFetch, GapRecords, Hours
  <2>4. Truthful(Verdicts(g, FALSE, EndOfFetch(g), answered))
    BY <1>0, <2>2, <2>3, VerdictsTruthful
  <2>5. \A reached \in BreakingPoints(g.first * MinutesPerHour, EndOfFetch(g)) :
          Truthful(Verdicts(g, TRUE, reached, answered))
    <3> TAKE reached \in BreakingPoints(g.first * MinutesPerHour, EndOfFetch(g))
    <3>1. reached \in Int BY DEF BreakingPoints
    <3> QED BY <1>0, <2>2, <3>1, VerdictsTruthful
  <2>6. PICK verdict : Truthful(verdict) /\ Record(r, g, verdict)
    BY <2>1, <2>4, <2>5
  <2> DEFINE entry == [gap |-> g, verdict |-> verdict]
             x == Auditing(run[r].rows \ {g}, saved', run[r].report \cup {entry})
  <2>7. Sound({entry}) BY <2>6 DEF Sound
  <2>8. Sound(run[r].memory \cup {entry}) /\ Sound(run[r].report \cup {entry})
    BY <1>0, <2>7 DEF SoundInv, Sound
  <2>9. saved' = run[r].memory \cup {entry} /\ run' = [run EXCEPT ![r] = x]
    BY <2>6 DEF Record
  <2>10. Sound(x.memory) /\ Sound(x.report) /\ Sound(saved')
    BY <2>8, <2>9 DEF Auditing
  <2>11. UNCHANGED minutes BY <1>4 DEF AnalyzeGap
  <2> QED BY <1>0, <2>9, <2>10, <2>11, SoundRun
<1>5. ASSUME NEW r \in Runs, ReuseCached(r) PROVE SoundInv'
  <2>1. PICK g \in run[r].rows, e \in run[r].memory :
          run' = [run EXCEPT ![r] = Auditing(run[r].rows \ {g}, run[r].memory,
                                             run[r].report \cup {e})]
    BY <1>5 DEF ReuseCached
  <2>2. Sound(run[r].memory) /\ Sound(run[r].report \cup {e}) /\ Sound(saved)
    BY <1>0 DEF SoundInv, Sound
  <2>3. UNCHANGED <<minutes, saved>> BY <1>5 DEF ReuseCached
  <2> DEFINE x == Auditing(run[r].rows \ {g}, run[r].memory, run[r].report \cup {e})
  <2>4. Sound(x.memory) /\ Sound(x.report) BY <2>2 DEF Auditing
  <2> QED BY <1>0, <2>1, <2>2, <2>3, <2>4, SoundRun
<1>6. ASSUME NEW r \in Runs, Leave(r) PROVE SoundInv'
  <2>1. run' = [run EXCEPT ![r] = Idle] /\ UNCHANGED <<minutes, saved>>
    BY <1>6 DEF Leave
  <2>2. Sound(saved') BY <1>0, <2>1 DEF SoundInv
  <2> QED BY <1>0, <2>1, <2>2, IdleSound, SoundRun
<1>7. ASSUME NEW r \in Runs, ReadExisting(r) PROVE SoundInv'
  <2> DEFINE x == Writing(run[r].report, Stored)
  <2>1. run' = [run EXCEPT ![r] = x] /\ UNCHANGED <<minutes, saved>>
    BY <1>7 DEF ReadExisting
  <2>2. Sound(saved') /\ Sound(run[r].report) BY <1>0, <2>1 DEF SoundInv
  <2>3. Sound(x.memory) /\ Sound(x.report) BY <2>2, IdleSound DEF Writing
  <2> QED BY <1>0, <2>1, <2>2, <2>3, SoundRun
<1>8. ASSUME NEW r \in Runs, StoreRecovered(r) PROVE SoundInv'
  <2>1. run' = [run EXCEPT ![r] = Idle] /\ UNCHANGED <<minutes, saved>>
    BY <1>8 DEF StoreRecovered
  <2>2. Sound(saved') BY <1>0, <2>1 DEF SoundInv
  <2> QED BY <1>0, <2>1, <2>2, IdleSound, SoundRun
<1>9. CASE UNCHANGED vars BY <1>9, <1>a DEF vars
<1> QED
  BY <1>1, <1>2, <1>3, <1>4, <1>5, <1>6, <1>7, <1>8, <1>9 DEF Next

LEMMA NextRebuilt == HistoryInv /\ [Next]_vars => RebuiltIsComplete'
<1> SUFFICES ASSUME HistoryInv, [Next]_vars PROVE RebuiltIsComplete' OBVIOUS
<1>0. TypeInv /\ SoundInv /\ RebuiltIsComplete BY DEF HistoryInv
<1> USE DEF external, store
<1>1. ASSUME UNCHANGED minutes,
             \A h \in Hours : candle'[h] = "rebuilt" =>
               candle[h] = "rebuilt" \/ (IsComplete(h) /\ h < Cutoff)
      PROVE  RebuiltIsComplete'
  BY <1>0, <1>1 DEF RebuiltIsComplete, IsComplete, MinutesOf
<1>2. ASSUME NEW there, FetchData(there) PROVE RebuiltIsComplete'
  BY <1>1, <1>2 DEF FetchData, Put
<1>3. ASSUME NEW r \in Runs, StoreRecovered(r) PROVE RebuiltIsComplete'
  <2>1. \A h \in Rebuilt(run[r].report) : IsComplete(h) /\ h < Cutoff
    BY <1>0, RebuiltTruthful DEF SoundInv
  <2> QED BY <1>1, <1>3, <2>1 DEF StoreRecovered, Put
<1>4. ASSUME UNCHANGED <<minutes, candle>> PROVE RebuiltIsComplete'
  BY <1>1, <1>4
<1>5. ASSUME NEW h \in Hours, Backfill(h) PROVE RebuiltIsComplete'
  BY <1>4, <1>5 DEF Backfill
<1>6. ASSUME NEW r \in Runs, NEW reset \in BOOLEAN, Start(r, reset)
      PROVE  RebuiltIsComplete'
  BY <1>4, <1>6 DEF Start
<1>7. ASSUME NEW r \in Runs, AnalyzeGap(r) \/ ReuseCached(r) PROVE RebuiltIsComplete'
  BY <1>4, <1>7 DEF AnalyzeGap, ReuseCached
<1>8. ASSUME NEW r \in Runs, Leave(r) \/ ReadExisting(r) PROVE RebuiltIsComplete'
  BY <1>4, <1>8 DEF Leave, ReadExisting
<1>9. CASE UNCHANGED vars BY <1>4, <1>9 DEF vars
<1> QED BY <1>2, <1>3, <1>5, <1>6, <1>7, <1>8, <1>9 DEF Next

LEMMA HistoryInvariant == Spec => []HistoryInv
<1>1. Init => HistoryInv BY InitTyped, InitSound DEF HistoryInv
<1>2. HistoryInv /\ [Next]_vars => HistoryInv'
  BY NextTyped, NextSound, NextRebuilt DEF HistoryInv
<1> QED BY <1>1, <1>2, PTL DEF Spec

\* Whatever broke off, was resumed or was taken from the checkpoint, an hour
\* is called an outage only if the exchange has no minute of it, and fit to be
\* rebuilt only if it has them all and the cutoff allows it.
THEOREM VerdictsAreSound == Spec => []VerdictsSound
<1>1. HistoryInv => VerdictsSound
  BY DEF HistoryInv, SoundInv, Sound, Truthful, VerdictsSound
<1> QED BY <1>1, HistoryInvariant, PTL

\* No candle is stored for an hour with a missing minute, or past the cutoff.
THEOREM RebuiltAreComplete == Spec => []RebuiltIsComplete
<1>1. HistoryInv => RebuiltIsComplete BY DEF HistoryInv
<1> QED BY <1>1, HistoryInvariant, PTL

-----------------------------------------------------------------------------
\* When no row was added meanwhile, the manifest is what partition_into_segments
\* finds in the candles now stored: no row stays of a gap that was filled.
THEOREM RecoveryLeavesExactGaps == Spec => UndisturbedRecoveryExact
<1>1. ASSUME TypeInv, NEW r \in Runs, StoreRecovered(r), run[r].seen = Stored,
             gaps \subseteq {e.gap : e \in run[r].report}
      PROVE  gaps' = Gaps(Stored')
  <2> DEFINE rebuilt == Rebuilt(run[r].report)
             old == {e.gap : e \in run[r].report}
  <2>1. gaps' = Upserted(Without(gaps, old), Gaps(Stored \cup rebuilt))
    BY <1>1 DEF StoreRecovered
  <2>2. Without(gaps, old) = {} BY <1>1 DEF Without
  <2>3. gaps' = Gaps(Stored \cup rebuilt) BY <2>1, <2>2 DEF Upserted
  <2>4. rebuilt \subseteq Hours BY <1>1, RebuiltTyped DEF TypeInv, Shape
  <2>5. Stored' = Stored \cup rebuilt
    BY <1>1, <2>4 DEF StoreRecovered, Put, Stored
  <2> QED BY <2>3, <2>5
<1>2. TypeInv /\ [Next]_vars =>
        [\A r \in Runs :
           StoreRecovered(r) /\ run[r].seen = Stored
                             /\ gaps \subseteq {e.gap : e \in run[r].report}
             => gaps' = Gaps(Stored')]_vars
  BY <1>1
<1>3. Spec => []TypeInv BY InitTyped, NextTyped, PTL DEF Spec
<1> QED BY <1>2, <1>3, PTL DEF Spec, UndisturbedRecoveryExact

-----------------------------------------------------------------------------
(* As long as nothing failed, the checkpoint is not only true but exact.   *)

ExactVerdict(verdict) ==
  \A h \in DOMAIN verdict :
    /\ verdict[h] # "unchecked"
    /\ verdict[h] = "partial" => ~IsComplete(h)

Exact(entries) == \A e \in entries : ExactVerdict(e.verdict)

\* A later command may start from what an earlier one remembers of the file.
QuietInv ==
  errors = 0 => Exact(saved) /\ \A r \in Runs : Exact(run[r].memory)

\* A fetch that came to its end has read every minute there is before the cutoff.
LEMMA UnbrokenIsExact ==
  ASSUME NEW g \in GapRecords, NEW answered
  PROVE  ExactVerdict(Verdicts(g, FALSE, EndOfFetch(g), answered))
<1> DEFINE v == Verdicts(g, FALSE, EndOfFetch(g), answered)
<1> SUFFICES ASSUME NEW h \in DOMAIN v
             PROVE  v[h] # "unchecked" /\ (v[h] = "partial" => ~IsComplete(h))
  BY DEF ExactVerdict
<1>1. h \in MissingHours(g) BY DEF Verdicts
<1>2. h \in Nat /\ h >= g.first /\ h < g.next BY <1>1, MissingAreHours
<1>3. v[h] = IF h >= Cutoff THEN "excluded" ELSE Classified(h, EndOfFetch(g), answered)
  BY <1>1 DEF Verdicts
<1> HIDE DEF v
<1>4. v[h] # "unchecked" BY <1>3 DEF Classified
<1>5. ASSUME v[h] = "partial", IsComplete(h) PROVE FALSE
  <2> DEFINE last == IF g.next <= Cutoff THEN g.next ELSE Cutoff
             found == {m \in minutes \cap MinutesOf(h) : m < EndOfFetch(g)}
  <2>1. ~(h >= Cutoff) /\ Classified(h, EndOfFetch(g), answered) = "partial"
    BY <1>3, <1>5
  <2>2. last \in Nat /\ h + 1 <= last
    BY <1>2, <2>1, HistoryAssumption DEF GapRecords, Hours
  <2>3. (h + 1) * MinutesPerHour <= last * MinutesPerHour
    BY <2>2, <1>2, Monotone, HistoryAssumption
  <2>4. EndOfFetch(g) = last * MinutesPerHour BY DEF EndOfFetch
  <2>5. /\ h * MinutesPerHour \in Int /\ (h + 1) * MinutesPerHour \in Int
        /\ last * MinutesPerHour \in Int
    BY <1>2, <2>2, HistoryAssumption
  <2>6. \A m \in MinutesOf(h) : m < EndOfFetch(g)
    BY <2>3, <2>4, <2>5 DEF MinutesOf
  <2>7. found = MinutesOf(h) BY <1>5, <2>6 DEF IsComplete
  <2> QED BY <2>1, <2>7 DEF Classified
<1> QED BY <1>4, <1>5

LEMMA ExactStays ==
  ASSUME NEW entries, Exact(entries), UNCHANGED minutes
  PROVE  Exact(entries)'
BY DEF Exact, ExactVerdict, IsComplete, MinutesOf

LEMMA NothingIsExact == Exact({}) /\ Exact(Idle.memory) /\ Idle.memory = {}
BY DEF Exact, Idle

\* A command changes its own memory only.
LEMMA ExactRun ==
  ASSUME TypeInv, QuietInv, UNCHANGED <<minutes, errors>>,
         NEW r \in Runs, NEW x, run' = [run EXCEPT ![r] = x],
         errors = 0 => Exact(x.memory) /\ Exact(saved')
  PROVE  QuietInv'
<1> SUFFICES ASSUME errors = 0
             PROVE  Exact(saved)' /\ \A q \in Runs : Exact(run[q].memory)'
  BY DEF QuietInv
<1>1. \A q \in Runs : run'[q] = IF q = r THEN x ELSE run[q]
  BY DEF TypeInv, TypeOK
<1>2. \A q \in Runs : Exact(run'[q].memory) BY <1>1 DEF QuietInv
<1> QED BY <1>2 DEF Exact, ExactVerdict, IsComplete, MinutesOf

LEMMA NextQuiet == TypeInv /\ QuietInv /\ [Next]_vars => QuietInv'
<1> SUFFICES ASSUME TypeInv, QuietInv, [Next]_vars PROVE QuietInv' OBVIOUS
<1>0. errors \in Nat /\ \A q \in Runs : Shape(run[q])
  BY HistoryAssumption DEF TypeInv, TypeOK
<1>a. ASSUME UNCHANGED <<minutes, saved, run>>, errors' = 0 => errors = 0 PROVE QuietInv'
  BY <1>a DEF QuietInv, Exact, ExactVerdict, IsComplete, MinutesOf
<1> USE DEF external, store
<1>1. ASSUME NEW there, FetchData(there) PROVE QuietInv'
  <2>1. UNCHANGED <<minutes, saved, run>> /\ errors' \in {errors, errors + 1}
    BY <1>1 DEF FetchData
  <2> QED BY <1>0, <1>a, <2>1
<1>2. ASSUME NEW h \in Hours, Backfill(h) PROVE QuietInv'
  BY <1>2, <1>a DEF Backfill
<1>3. ASSUME NEW r \in Runs, NEW reset \in BOOLEAN, Start(r, reset) PROVE QuietInv'
  <2> DEFINE x == Auditing(gaps, saved', {})
  <2>1. errors = 0 => Exact(saved') BY <1>3, NothingIsExact DEF Start, QuietInv
  <2>2. x.memory = saved' BY DEF Auditing
  <2>3. run' = [run EXCEPT ![r] = x] /\ UNCHANGED <<minutes, errors>> BY <1>3 DEF Start
  <2> HIDE DEF x
  <2> QED BY <2>1, <2>2, <2>3, ExactRun
<1>4. ASSUME NEW r \in Runs, AnalyzeGap(r) PROVE QuietInv'
  <2>1. PICK g \in run[r].rows, answered \in CrossChecks :
          \/ /\ Record(r, g, Verdicts(g, FALSE, EndOfFetch(g), answered))
             /\ errors' = errors
          \/ FetchFails
    BY <1>4 DEF AnalyzeGap
  <2>2. CASE FetchFails
    BY <1>0, <2>2 DEF FetchFails, QuietInv
  <2>3. CASE /\ Record(r, g, Verdicts(g, FALSE, EndOfFetch(g), answered))
             /\ errors' = errors
    <3> DEFINE verdict == Verdicts(g, FALSE, EndOfFetch(g), answered)
               entry == [gap |-> g, verdict |-> verdict]
               x == Auditing(run[r].rows \ {g}, saved', run[r].report \cup {entry})
    <3>1. g \in GapRecords BY <1>0 DEF Shape
    <3>2. ExactVerdict(verdict) BY <3>1, UnbrokenIsExact
    <3>3. saved' = run[r].memory \cup {entry} /\ run' = [run EXCEPT ![r] = x]
      BY <2>3 DEF Record
    <3>4. entry.verdict = verdict /\ x.memory = saved' BY DEF Auditing
    <3>5. UNCHANGED <<minutes, errors>> BY <1>4, <2>3 DEF AnalyzeGap
    <3> HIDE DEF verdict, entry, x
    <3>6. errors = 0 => Exact(saved')
      BY <3>2, <3>3, <3>4 DEF QuietInv, Exact
    <3> QED BY <3>3, <3>4, <3>5, <3>6, ExactRun
  <2> QED BY <2>1, <2>2, <2>3
<1>5. ASSUME NEW r \in Runs, NEW x, run' = [run EXCEPT ![r] = x],
             x.memory = run[r].memory \/ x.memory = {},
             UNCHANGED <<minutes, errors, saved>>
      PROVE  QuietInv'
  <2>1. errors = 0 => Exact(x.memory) /\ Exact(saved')
    BY <1>5, NothingIsExact DEF QuietInv
  <2> QED BY <1>5, <2>1, ExactRun
<1>6. ASSUME NEW r \in Runs, ReuseCached(r) PROVE QuietInv'
  <2>1. PICK g \in run[r].rows, e \in run[r].memory :
          run' = [run EXCEPT ![r] = Auditing(run[r].rows \ {g}, run[r].memory,
                                             run[r].report \cup {e})]
    BY <1>6 DEF ReuseCached
  <2> DEFINE x == Auditing(run[r].rows \ {g}, run[r].memory, run[r].report \cup {e})
  <2>2. x.memory = run[r].memory BY DEF Auditing
  <2>3. run' = [run EXCEPT ![r] = x] /\ UNCHANGED <<minutes, errors, saved>>
    BY <1>6, <2>1 DEF ReuseCached
  <2> HIDE DEF x
  <2> QED BY <1>5, <2>2, <2>3
<1>7. ASSUME NEW r \in Runs, Leave(r) \/ StoreRecovered(r) PROVE QuietInv'
  <2>1. run' = [run EXCEPT ![r] = Idle] /\ UNCHANGED <<minutes, errors, saved>>
    BY <1>7 DEF Leave, StoreRecovered
  <2> QED BY <1>5, <2>1, NothingIsExact
<1>8. ASSUME NEW r \in Runs, ReadExisting(r) PROVE QuietInv'
  <2> DEFINE x == Writing(run[r].report, Stored)
  <2>1. x.memory = {} BY DEF Writing
  <2>2. run' = [run EXCEPT ![r] = x] /\ UNCHANGED <<minutes, errors, saved>>
    BY <1>8 DEF ReadExisting
  <2> HIDE DEF x
  <2> QED BY <1>5, <2>1, <2>2
<1>9. CASE UNCHANGED vars BY <1>9, <1>a DEF vars
<1> QED
  BY <1>1, <1>2, <1>3, <1>4, <1>6, <1>7, <1>8, <1>9 DEF Next

\* Without failures _fetch_1m_range reads up to the cutoff or the end of the gap,
\* so no hour stays unchecked and none is called partial that has its minutes,
\* whichever runs resumed from the checkpoint or wrote it beside each other.
THEOREM QuietAuditsAreExact == Spec => []QuietAuditExact
<1>1. Init => QuietInv BY NothingIsExact DEF Init, QuietInv
<1>2. QuietInv => QuietAuditExact
  BY DEF QuietInv, QuietAuditExact, Exact, ExactVerdict
<1>3. TypeInv /\ QuietInv /\ [Next]_vars => (TypeInv /\ QuietInv)'
  BY NextTyped, NextQuiet
<1> QED BY InitTyped, <1>1, <1>2, <1>3, PTL DEF Spec

-----------------------------------------------------------------------------
\* A command at rest has no list of rows.
AnswerInv == TypeInv /\ \A r \in Runs : run[r].pc = "idle" => run[r].rows = {}

LEMMA NextAnswer == AnswerInv /\ [Next]_vars => AnswerInv'
<1> SUFFICES ASSUME AnswerInv, [Next]_vars PROVE AnswerInv' OBVIOUS
<1>0. TypeInv /\ TypeInv' BY NextTyped DEF AnswerInv
<1>1. ASSUME NEW r \in Runs, NEW x, run' = [run EXCEPT ![r] = x],
             x.pc = "idle" => x.rows = {}
      PROVE  AnswerInv'
  <2>1. \A q \in Runs : run'[q] = IF q = r THEN x ELSE run[q]
    BY <1>0, <1>1 DEF TypeInv, TypeOK
  <2> QED BY <1>0, <1>1, <2>1 DEF AnswerInv
<1>2. ASSUME UNCHANGED run PROVE AnswerInv'
  BY <1>0, <1>2 DEF AnswerInv
<1>3. ASSUME NEW r \in Runs, NEW rows, NEW memory, NEW report,
             run' = [run EXCEPT ![r] = Auditing(rows, memory, report)]
      PROVE  AnswerInv'
  <2>1. Auditing(rows, memory, report).pc = "audit" BY DEF Auditing
  <2> QED BY <1>1, <1>3, <2>1
<1>4. ASSUME NEW there, FetchData(there) PROVE AnswerInv'
  BY <1>2, <1>4 DEF FetchData
<1>5. ASSUME NEW h \in Hours, Backfill(h) PROVE AnswerInv'
  BY <1>2, <1>5 DEF Backfill
<1>6. ASSUME NEW r \in Runs, NEW reset \in BOOLEAN, Start(r, reset) PROVE AnswerInv'
  BY <1>3, <1>6 DEF Start
<1>7. ASSUME NEW r \in Runs, AnalyzeGap(r) PROVE AnswerInv'
  <2>1. \E rows, memory, report : run' = [run EXCEPT ![r] = Auditing(rows, memory, report)]
    BY <1>7 DEF AnalyzeGap, Record
  <2> QED BY <1>3, <2>1
<1>8. ASSUME NEW r \in Runs, ReuseCached(r) PROVE AnswerInv'
  <2>1. PICK rows, report : run' = [run EXCEPT ![r] = Auditing(rows, run[r].memory, report)]
    BY <1>8 DEF ReuseCached
  <2> QED BY <1>3, <2>1
<1>9. ASSUME NEW r \in Runs, Leave(r) \/ StoreRecovered(r) PROVE AnswerInv'
  <2>1. run' = [run EXCEPT ![r] = Idle] BY <1>9 DEF Leave, StoreRecovered
  <2>2. Idle.rows = {} BY DEF Idle
  <2> QED BY <1>1, <2>1, <2>2
<1>10. ASSUME NEW r \in Runs, ReadExisting(r) PROVE AnswerInv'
  <2>1. run' = [run EXCEPT ![r] = Writing(run[r].report, Stored)]
    BY <1>10 DEF ReadExisting
  <2>2. Writing(run[r].report, Stored).rows = {} BY DEF Writing
  <2> QED BY <1>1, <2>1, <2>2
<1>11. CASE UNCHANGED vars BY <1>2, <1>11 DEF vars
<1> QED
  BY <1>4, <1>5, <1>6, <1>7, <1>8, <1>9, <1>10, <1>11 DEF Next

\* Rows with the same key are the same row.
LEMMA KeyIdentifies ==
  ASSUME NEW g \in GapRecords, NEW o \in GapRecords, Key(o) = Key(g)
  PROVE  o = g
BY DEF GapRecords, Key

\* What the audit takes off a command's list, its report answers.
Answered(r) ==
  \A g \in run[r].rows \ run'[r].rows :
    run'[r].pc = "audit" =>
      \E e \in run'[r].report : e.gap = g /\ DOMAIN e.verdict = MissingHours(g)

LEMMA StepAnswers == AnswerInv /\ [Next]_vars => \A r \in Runs : Answered(r)
<1> SUFFICES ASSUME AnswerInv, [Next]_vars, NEW r \in Runs PROVE Answered(r)
  OBVIOUS
<1>0. DOMAIN run = Runs /\ \A q \in Runs : Shape(run[q])
  BY DEF AnswerInv, TypeInv, TypeOK
<1>1. ASSUME run'[r] = run[r] PROVE Answered(r)
  BY <1>1 DEF Answered
\* Only the command that steps changes its list.
<1>2. ASSUME NEW q \in Runs, NEW x, run' = [run EXCEPT ![q] = x]
      PROVE  run'[r] = IF r = q THEN x ELSE run[r]
  BY <1>0, <1>2
<1>3. ASSUME NEW q \in Runs, NEW x, run' = [run EXCEPT ![q] = x],
             x.pc # "audit" \/ run[q].rows = {}
      PROVE  Answered(r)
  <2>1. CASE r = q BY <1>2, <1>3, <2>1 DEF Answered
  <2>2. CASE r # q BY <1>1, <1>2, <1>3, <2>2
  <2> QED BY <2>1, <2>2
\* One row is taken, with an entry for its gap.
<1>4. ASSUME NEW q \in Runs, NEW g \in run[q].rows, NEW e, NEW memory,
             e.gap = g, DOMAIN e.verdict = MissingHours(g),
             run' = [run EXCEPT ![q] = Auditing(run[q].rows \ {g}, memory,
                                                run[q].report \cup {e})]
      PROVE  Answered(r)
  <2> DEFINE x == Auditing(run[q].rows \ {g}, memory, run[q].report \cup {e})
  <2>1. x.rows = run[q].rows \ {g} /\ e \in x.report BY DEF Auditing
  <2>2. run' = [run EXCEPT ![q] = x] BY <1>4
  <2> HIDE DEF x
  <2>3. CASE r = q BY <1>2, <1>4, <2>1, <2>2, <2>3 DEF Answered
  <2>4. CASE r # q BY <1>1, <1>2, <2>2, <2>4
  <2> QED BY <2>3, <2>4
<1>5. ASSUME NEW there, FetchData(there) PROVE Answered(r)
  BY <1>1, <1>5 DEF FetchData
<1>6. ASSUME NEW h \in Hours, Backfill(h) PROVE Answered(r)
  BY <1>1, <1>6 DEF Backfill
<1>7. ASSUME NEW q \in Runs, NEW reset \in BOOLEAN, Start(q, reset) PROVE Answered(r)
  BY <1>3, <1>7 DEF Start, AnswerInv
<1>8. ASSUME NEW q \in Runs, AnalyzeGap(q) PROVE Answered(r)
  <2>1. PICK g \in run[q].rows, answered \in CrossChecks :
          \/ Record(q, g, Verdicts(g, FALSE, EndOfFetch(g), answered))
          \/ \E reached \in BreakingPoints(g.first * MinutesPerHour, EndOfFetch(g)) :
               Record(q, g, Verdicts(g, TRUE, reached, answered))
    BY <1>8 DEF AnalyzeGap
  <2>2. PICK verdict \in [MissingHours(g) -> Outcomes] : Record(q, g, verdict)
    BY <2>1, VerdictsTyped
  <2> DEFINE e == [gap |-> g, verdict |-> verdict]
  <2>3. e.gap = g /\ DOMAIN e.verdict = MissingHours(g) BY <2>2
  <2>4. run' = [run EXCEPT ![q] = Auditing(run[q].rows \ {g}, saved',
                                           run[q].report \cup {e})]
    BY <2>2 DEF Record
  <2> HIDE DEF e
  <2> QED BY <1>4, <2>3, <2>4
<1>9. ASSUME NEW q \in Runs, ReuseCached(q) PROVE Answered(r)
  <2>1. PICK g \in run[q].rows, e \in run[q].memory :
          /\ Key(e.gap) = Key(g)
          /\ run' = [run EXCEPT ![q] = Auditing(run[q].rows \ {g}, run[q].memory,
                                                run[q].report \cup {e})]
    BY <1>9 DEF ReuseCached
  <2>2. g \in GapRecords /\ e.gap \in GapRecords /\ DOMAIN e.verdict = MissingHours(e.gap)
    BY <1>0 DEF Shape, WellFormed
  <2>3. e.gap = g BY <2>1, <2>2, KeyIdentifies
  <2> QED BY <1>4, <2>1, <2>2, <2>3
<1>10. ASSUME NEW q \in Runs, Leave(q) \/ StoreRecovered(q) PROVE Answered(r)
  <2>1. run' = [run EXCEPT ![q] = Idle] /\ Idle.pc # "audit"
    BY <1>10 DEF Leave, StoreRecovered, Idle
  <2> QED BY <1>3, <2>1
<1>11. ASSUME NEW q \in Runs, ReadExisting(q) PROVE Answered(r)
  <2>1. /\ run' = [run EXCEPT ![q] = Writing(run[q].report, Stored)]
        /\ Writing(run[q].report, Stored).pc # "audit"
    BY <1>11 DEF ReadExisting, Writing
  <2> QED BY <1>3, <2>1
<1>12. CASE UNCHANGED vars BY <1>1, <1>12 DEF vars
<1> QED
  BY <1>5, <1>6, <1>7, <1>8, <1>9, <1>10, <1>11, <1>12 DEF Next

\* audit_gaps answers every row of the manifest for exactly its own hours, from
\* the exchange or from a checkpoint entry of the same identity, never from that
\* of another gap that began at the same hour.
THEOREM RowsAreAnswered == Spec => EveryRowAnswered
<1>1. Init => AnswerInv BY InitTyped DEF Init, AnswerInv, Idle
<1>2. AnswerInv /\ [Next]_vars => [\A r \in Runs : Answered(r)]_vars
  BY StepAnswers
<1>3. EveryRowAnswered <=> [][\A r \in Runs : Answered(r)]_vars
  BY DEF EveryRowAnswered, Answered
<1> QED BY <1>1, <1>2, <1>3, NextAnswer, PTL DEF Spec
=============================================================================
