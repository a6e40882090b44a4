--------------------------- MODULE ShadowCycleProofs ---------------------------
(***************************************************************************)
(* Theorems about ShadowCycle, for every value of its constants: what is   *)
(* recorded is one run of the engine over the segment, however the cycles  *)
(* that recorded it were cut, crashed or overlapped.                       *)
(***************************************************************************)
EXTENDS ShadowCycle, Induction, FiniteSetTheorems

(***************************************************************************)
(* The run of a segment, over a market given as an argument, so that two   *)
(* states can be compared.                                                 *)
(***************************************************************************)

EntersIn(m, h, first, f) ==
  h > first /\ (m[h] \in {"enter", "round"} \/ (m[h] = "small" /\ f = "loose"))

ExitsIn(m, h) == m[h] \in {"exit", "round"}

HeldAfter(m, first, f, held, h) ==
  IF h < first THEN 0
  ELSE IF held[h - 1] # 0 THEN (IF ExitsIn(m, h) THEN 0 ELSE held[h - 1])
  ELSE IF EntersIn(m, h, first, f) /\ ~ExitsIn(m, h) THEN h ELSE 0

HeldIn(m, first, f) ==
  CHOOSE held : held = [h \in (first - 1)..MaxHour |-> HeldAfter(m, first, f, held, h)]

LEMMA HeldIsHeldIn ==
  ASSUME NEW first, NEW f
  PROVE  Held(first, f) = HeldIn(market, first, f)
  BY DEF Held, HeldIn, HeldAfter, Enters, Exits, EntersIn, ExitsIn

\* The recursion over the hours of a segment defines a function.
LEMMA HeldDefined ==
  ASSUME NEW m, NEW first \in Hours, NEW f
  PROVE  HeldIn(m, first, f) =
           [h \in (first - 1)..MaxHour |-> HeldAfter(m, first, f, HeldIn(m, first, f), h)]
<1>. DEFINE Runs(n) == (first - 1)..(first - 1 + n)
            S == {n \in Nat : \E g : g = [h \in Runs(n) |-> HeldAfter(m, first, f, g, h)]}
<1>0. first \in Nat \ {0} /\ MaxHour \in Nat /\ MaxHour - first + 1 \in Nat
  BY ShadowAssumption DEF Hours
<1>1. 0 \in S
  <2>. DEFINE g == [h \in Runs(0) |-> 0]
  <2>1. g = [h \in Runs(0) |-> HeldAfter(m, first, f, g, h)]
    BY <1>0 DEF HeldAfter
  <2>. QED  BY <2>1
<1>2. ASSUME NEW n \in S  PROVE n + 1 \in S
  <2>1. PICK g : g = [h \in Runs(n) |-> HeldAfter(m, first, f, g, h)]
    OBVIOUS
  <2>. DEFINE last == first + n
              k == [h \in Runs(n + 1) |-> IF h = last THEN HeldAfter(m, first, f, g, h) ELSE g[h]]
  <2>2. ASSUME NEW h \in Runs(n + 1)  PROVE k[h] = HeldAfter(m, first, f, k, h)
    <3>1. CASE h = first - 1
      <4>1. g[h] = 0 /\ h # last
        BY <1>0, <2>1, <3>1 DEF HeldAfter
      <4>. QED  BY <1>0, <3>1, <4>1 DEF HeldAfter
    <3>2. CASE h # first - 1
      <4>1. h - 1 \in Runs(n) /\ h - 1 # last /\ h - 1 \in Runs(n + 1)
        BY <1>0, <3>2
      <4>2. k[h - 1] = g[h - 1]
        BY <4>1
      <4>3. HeldAfter(m, first, f, k, h) = HeldAfter(m, first, f, g, h)
        BY <4>2 DEF HeldAfter
      <4>4. ASSUME h # last  PROVE g[h] = HeldAfter(m, first, f, g, h)
        <5>1. h \in Runs(n)
          BY <1>0, <4>4
        <5>. QED  BY <2>1, <5>1
      <4>. QED  BY <4>3, <4>4
    <3>. QED  BY <3>1, <3>2
  <2>3. k = [h \in Runs(n + 1) |-> HeldAfter(m, first, f, k, h)]
    BY <2>2
  <2>4. n + 1 \in Nat
    OBVIOUS
  <2>. HIDE DEF k
  <2>. QED  BY <2>3, <2>4
<1>3. S = Nat
  <2>1. S \in SUBSET Nat
    OBVIOUS
  <2>. HIDE DEF S
  <2>. QED  BY <1>1, <1>2, <2>1, InductionOnNaturals
<1>4. \E g : g = [h \in (first - 1)..MaxHour |-> HeldAfter(m, first, f, g, h)]
  <2>. DEFINE n == MaxHour - first + 1
  <2>1. n \in S
    <3>. HIDE DEF S, n
    <3>. QED  BY <1>0, <1>3 DEF n
  <2>2. first - 1 + n = MaxHour
    BY <1>0
  <2>3. PICK g : g = [h \in Runs(n) |-> HeldAfter(m, first, f, g, h)]
    BY <2>1
  <2>. QED  BY <2>2, <2>3
<1>. QED  BY <1>4 DEF HeldIn

LEMMA HeldFirst ==
  ASSUME NEW m, NEW first \in Hours, NEW f
  PROVE  HeldIn(m, first, f)[first - 1] = 0
<1>1. first - 1 \in (first - 1)..MaxHour /\ first - 1 < first
  BY ShadowAssumption DEF Hours
<1>. DEFINE held == HeldIn(m, first, f)
<1>2. held = [x \in (first - 1)..MaxHour |-> HeldAfter(m, first, f, held, x)]
  BY HeldDefined
<1>. HIDE DEF held
<1>3. held[first - 1] = HeldAfter(m, first, f, held, first - 1)
  BY <1>1, <1>2
<1>4. held[first - 1] = 0
  BY <1>1, <1>3 DEF HeldAfter
<1>. QED  BY <1>4 DEF held

LEMMA HeldNext ==
  ASSUME NEW m, NEW first \in Hours, NEW f, NEW h \in first..MaxHour
  PROVE  LET held == HeldIn(m, first, f)
         IN  held[h] = IF held[h - 1] # 0 THEN (IF ExitsIn(m, h) THEN 0 ELSE held[h - 1])
                       ELSE IF EntersIn(m, h, first, f) /\ ~ExitsIn(m, h) THEN h ELSE 0
<1>. DEFINE held == HeldIn(m, first, f)
<1>1. h \in (first - 1)..MaxHour /\ ~(h < first)
  BY ShadowAssumption DEF Hours
<1>2. held = [x \in (first - 1)..MaxHour |-> HeldAfter(m, first, f, held, x)]
  BY HeldDefined
<1>. HIDE DEF held
<1>3. held[h] = HeldAfter(m, first, f, held, h)
  BY <1>1, <1>2
<1>4. held[h] = IF held[h - 1] # 0 THEN (IF ExitsIn(m, h) THEN 0 ELSE held[h - 1])
                ELSE IF EntersIn(m, h, first, f) /\ ~ExitsIn(m, h) THEN h ELSE 0
  BY <1>1, <1>3 DEF HeldAfter
<1>. QED  BY <1>4 DEF held

\* The position after an hour depends on no later hour, and on the market only
\* through what enters and exits.
LEMMA HeldAgrees ==
  ASSUME NEW m1, NEW m2, NEW f1, NEW f2, NEW first \in Hours, NEW last \in 0..MaxHour,
         \A h \in first..last : /\ EntersIn(m1, h, first, f1) <=> EntersIn(m2, h, first, f2)
                                /\ ExitsIn(m1, h) <=> ExitsIn(m2, h)
  PROVE  \A h \in (first - 1)..last : HeldIn(m1, first, f1)[h] = HeldIn(m2, first, f2)[h]
<1>. DEFINE S == {h \in Int : HeldIn(m1, first, f1)[h] = HeldIn(m2, first, f2)[h]}
<1>0. first \in Nat \ {0} /\ last \in Nat /\ MaxHour \in Nat
  BY ShadowAssumption DEF Hours
<1>1. first - 1 \in S
  BY <1>0, HeldFirst
<1>2. ASSUME NEW h \in (first - 1)..(last - 1), h \in S  PROVE h + 1 \in S
  <2>1. h + 1 \in first..last /\ h + 1 \in first..MaxHour /\ (h + 1) - 1 = h
    BY <1>0
  <2>2. HeldIn(m1, first, f1)[h] = HeldIn(m2, first, f2)[h]
    BY <1>2
  <2>3. HeldIn(m1, first, f1)[h + 1] = HeldIn(m2, first, f2)[h + 1]
    BY <2>1, <2>2, HeldNext
  <2>. QED  BY <1>0, <2>3
<1>3. \A h \in (first - 1)..last : h \in S
  <2>1. first - 1 \in Int /\ last \in Int
    BY <1>0
  <2>. HIDE DEF S
  <2>. QED  BY <1>1, <1>2, <2>1, InductionOnInterval
<1>. QED  BY <1>3

\* A position held was entered after the first hour and has been held since.
LEMMA HeldSince ==
  ASSUME NEW m, NEW first \in Hours, NEW f, NEW h \in (first - 1)..MaxHour,
         HeldIn(m, first, f)[h] # 0
  PROVE  LET held == HeldIn(m, first, f)
         IN  /\ held[h] \in (first + 1)..h
             /\ \A x \in held[h]..h : held[x] = held[h]
<1>. DEFINE held == HeldIn(m, first, f)
            Since(x) == held[x] # 0 =>
                          /\ held[x] \in (first + 1)..x
                          /\ \A y \in held[x]..x : held[y] = held[x]
            S == {x \in Int : Since(x)}
<1>0. first \in Nat \ {0} /\ MaxHour \in Nat
  BY ShadowAssumption DEF Hours
<1>1. first - 1 \in S
  BY <1>0, HeldFirst
<1>2. ASSUME NEW x \in (first - 1)..(MaxHour - 1), x \in S  PROVE x + 1 \in S
  <2>1. x + 1 \in first..MaxHour /\ (x + 1) - 1 = x
    BY <1>0
  <2>2. held[x + 1] = IF held[x] # 0 THEN (IF ExitsIn(m, x + 1) THEN 0 ELSE held[x])
                      ELSE IF EntersIn(m, x + 1, first, f) /\ ~ExitsIn(m, x + 1) THEN x + 1 ELSE 0
    BY <2>1, HeldNext
  <2>. HIDE DEF held
  <2>3. Since(x)
    BY <1>2
  <2>4. CASE held[x + 1] = 0
    BY <1>0, <2>4
  <2>5. CASE held[x] # 0 /\ held[x + 1] = held[x]
    BY <1>0, <2>1, <2>3, <2>5
  <2>6. CASE held[x + 1] = x + 1 /\ EntersIn(m, x + 1, first, f)
    BY <1>0, <2>1, <2>6 DEF EntersIn
  <2>. QED  BY <2>2, <2>4, <2>5, <2>6
<1>3. \A x \in (first - 1)..MaxHour : x \in S
  <2>1. first - 1 \in Int /\ MaxHour \in Int
    BY <1>0
  <2>. HIDE DEF S
  <2>. QED  BY <1>1, <1>2, <2>1, InductionOnInterval
<1>4. Since(h)
  BY <1>3
<1>. QED  BY <1>4

\* A position is held on until an hour in which it is exited.
LEMMA HeldUntil ==
  ASSUME NEW m, NEW first \in Hours, NEW f, NEW a \in (first - 1)..MaxHour, NEW b \in a..MaxHour,
         HeldIn(m, first, f)[a] # 0
  PROVE  LET held == HeldIn(m, first, f)
         IN  \/ held[b] = held[a]
             \/ \E x \in (a + 1)..b : ExitsIn(m, x) /\ held[x - 1] = held[a]
<1>. DEFINE held == HeldIn(m, first, f)
            Until(x) == \/ held[x] = held[a]
                        \/ \E y \in (a + 1)..x : ExitsIn(m, y) /\ held[y - 1] = held[a]
            S == {x \in Int : Until(x)}
<1>0. first \in Nat \ {0} /\ MaxHour \in Nat /\ a \in Int
  BY ShadowAssumption DEF Hours
<1>1. a \in S
  BY <1>0
<1>2. ASSUME NEW x \in a..(b - 1), x \in S  PROVE x + 1 \in S
  <2>1. x + 1 \in first..MaxHour /\ (x + 1) - 1 = x /\ x + 1 \in (a + 1)..(x + 1)
    BY <1>0
  <2>2. held[x + 1] = IF held[x] # 0 THEN (IF ExitsIn(m, x + 1) THEN 0 ELSE held[x])
                      ELSE IF EntersIn(m, x + 1, first, f) /\ ~ExitsIn(m, x + 1) THEN x + 1 ELSE 0
    BY <2>1, HeldNext
  <2>3. held[a] # 0
    OBVIOUS
  <2>. HIDE DEF held
  <2>4. Until(x)
    BY <1>2
  <2>. QED  BY <2>1, <2>2, <2>3, <2>4
<1>3. \A x \in a..b : x \in S
  <2>1. a \in Int /\ b \in Int
    BY <1>0
  <2>. HIDE DEF S
  <2>. QED  BY <1>1, <1>2, <2>1, InductionOnInterval
<1>4. Until(b)
  BY <1>0, <1>3
<1>. QED  BY <1>4

-----------------------------------------------------------------------------
(* The trades of a run.                                                    *)

TradesIn(m, first, last, f) ==
  LET held == HeldIn(m, first, f)
  IN  {<<IF held[h - 1] # 0 THEN held[h - 1] ELSE h, h>> :
         h \in {x \in first..last :
                  ExitsIn(m, x) /\ (held[x - 1] # 0 \/ EntersIn(m, x, first, f))}}

LEMMA TradesAreTradesIn ==
  ASSUME NEW first, NEW last, NEW f
  PROVE  TradesOf(first, last, f) = TradesIn(market, first, last, f)
  BY HeldIsHeldIn DEF TradesOf, TradesIn, Enters, Exits, EntersIn, ExitsIn

\* A trade is told by the hour of its exit.
EntryOf(m, first, f, h) ==
  IF HeldIn(m, first, f)[h - 1] # 0 THEN HeldIn(m, first, f)[h - 1] ELSE h

Closes(m, first, f, h) ==
  ExitsIn(m, h) /\ (HeldIn(m, first, f)[h - 1] # 0 \/ EntersIn(m, h, first, f))

LEMMA TradesByExit ==
  ASSUME NEW m, NEW first \in Hours, NEW last, NEW f
  PROVE  TradesIn(m, first, last, f) =
           {<<EntryOf(m, first, f, h), h>> : h \in {x \in first..last : Closes(m, first, f, x)}}
  BY DEF TradesIn, EntryOf, Closes

LEMMA TradeShape ==
  ASSUME NEW m, NEW first \in Hours, NEW last \in 0..MaxHour, NEW f,
         NEW t \in TradesIn(m, first, last, f)
  PROVE  /\ t = <<t[1], t[2]>> /\ t[2] \in first..last /\ t[1] \in (first + 1)..t[2]
         /\ t[1] = EntryOf(m, first, f, t[2]) /\ Closes(m, first, f, t[2])
<1>0. first \in Nat \ {0} /\ MaxHour \in Nat /\ last \in Nat
  BY ShadowAssumption DEF Hours
<1>1. PICK h \in first..last : Closes(m, first, f, h) /\ t = <<EntryOf(m, first, f, h), h>>
  BY TradesByExit
<1>2. EntryOf(m, first, f, h) \in (first + 1)..h
  <2>1. CASE HeldIn(m, first, f)[h - 1] # 0
    <3>1. h - 1 \in (first - 1)..MaxHour
      BY <1>0
    <3>2. HeldIn(m, first, f)[h - 1] \in (first + 1)..(h - 1)
      BY <2>1, <3>1, HeldSince
    <3>. QED  BY <1>0, <2>1, <3>2 DEF EntryOf
  <2>2. CASE HeldIn(m, first, f)[h - 1] = 0
    BY <1>0, <1>1, <2>2 DEF EntryOf, Closes, EntersIn
  <2>. QED  BY <2>1, <2>2
<1>. QED  BY <1>1, <1>2

\* A longer run has the same trades up to where the shorter one ends.
LEMMA TradesExtend ==
  ASSUME NEW m, NEW first \in Hours, NEW last \in 0..MaxHour, NEW more \in last..MaxHour, NEW f
  PROVE  TradesIn(m, first, last, f) = {t \in TradesIn(m, first, more, f) : t[2] <= last}
<1>0. first \in Nat \ {0} /\ MaxHour \in Nat /\ last \in Nat /\ more \in Nat
  BY ShadowAssumption DEF Hours
<1>1. ASSUME NEW t \in TradesIn(m, first, last, f)
      PROVE  t \in TradesIn(m, first, more, f) /\ t[2] <= last
  <2>1. /\ t = <<EntryOf(m, first, f, t[2]), t[2]>> /\ t[2] \in first..last
        /\ Closes(m, first, f, t[2])
    BY TradeShape
  <2>2. t[2] \in first..more
    BY <1>0, <2>1
  <2>. QED  BY <1>0, <2>1, <2>2, TradesByExit
<1>2. ASSUME NEW t \in TradesIn(m, first, more, f), t[2] <= last
      PROVE  t \in TradesIn(m, first, last, f)
  <2>1. more \in 0..MaxHour
    BY <1>0
  <2>2. /\ t = <<EntryOf(m, first, f, t[2]), t[2]>> /\ t[2] \in first..more
        /\ Closes(m, first, f, t[2])
    BY <2>1, TradeShape
  <2>3. t[2] \in first..last
    BY <1>0, <1>2, <2>2
  <2>. QED  BY <2>2, <2>3, TradesByExit
<1>. QED  BY <1>1, <1>2

\* Trades depend on no later hour, and on the market only through what enters
\* and exits.
LEMMA TradesAgree ==
  ASSUME NEW m1, NEW m2, NEW f1, NEW f2, NEW first \in Hours, NEW last \in 0..MaxHour,
         \A h \in first..last : /\ EntersIn(m1, h, first, f1) <=> EntersIn(m2, h, first, f2)
                                /\ ExitsIn(m1, h) <=> ExitsIn(m2, h)
  PROVE  TradesIn(m1, first, last, f1) = TradesIn(m2, first, last, f2)
<1>0. first \in Nat \ {0} /\ MaxHour \in Nat /\ last \in Nat
  BY ShadowAssumption DEF Hours
<1>1. \A h \in (first - 1)..last : HeldIn(m1, first, f1)[h] = HeldIn(m2, first, f2)[h]
  BY HeldAgrees
<1>2. \A h \in first..last : /\ Closes(m1, first, f1, h) <=> Closes(m2, first, f2, h)
                             /\ EntryOf(m1, first, f1, h) = EntryOf(m2, first, f2, h)
  <2>1. SUFFICES ASSUME NEW h \in first..last
                 PROVE  /\ Closes(m1, first, f1, h) <=> Closes(m2, first, f2, h)
                        /\ EntryOf(m1, first, f1, h) = EntryOf(m2, first, f2, h)
    OBVIOUS
  <2>2. h - 1 \in (first - 1)..last
    BY <1>0
  <2>3. HeldIn(m1, first, f1)[h - 1] = HeldIn(m2, first, f2)[h - 1]
    BY <1>1, <2>2
  <2>. QED  BY <2>3 DEF Closes, EntryOf
<1>3. {x \in first..last : Closes(m1, first, f1, x)} = {x \in first..last : Closes(m2, first, f2, x)}
  BY <1>2
<1>4. TradesIn(m1, first, last, f1) =
        {<<EntryOf(m1, first, f1, h), h>> : h \in {x \in first..last : Closes(m2, first, f2, x)}}
  BY <1>3, TradesByExit
<1>5. TradesIn(m2, first, last, f2) =
        {<<EntryOf(m2, first, f2, h), h>> : h \in {x \in first..last : Closes(m2, first, f2, x)}}
  BY TradesByExit
<1>. QED  BY <1>2, <1>4, <1>5

-----------------------------------------------------------------------------
(* Segments.                                                               *)

Begins(stored, s, h) == s \in 1..h /\ s..h \subseteq stored /\ (s = 1 \/ s - 1 \notin stored)

StartIn(stored, h) ==
  CHOOSE s \in 1..h : s..h \subseteq stored /\ (s = 1 \/ s - 1 \notin stored)

FirstIn(stored, h) ==
  IF StartIn(stored, h) = 1 THEN 1 + Settle ELSE StartIn(stored, h) + Required - 1

LEMMA FirstIsFirstIn ==
  ASSUME NEW h
  PROVE  SegmentStart(h) = StartIn(candles, h) /\ FirstScored(h) = FirstIn(candles, h)
  BY DEF SegmentStart, StartIn, FirstScored, FirstIn

\* A stored hour lies in a segment, which begins somewhere.
LEMMA StartBegins ==
  ASSUME NEW stored, NEW h \in Nat \ {0}, h \in stored
  PROVE  Begins(stored, StartIn(stored, h), h)
<1>. DEFINE S == {k \in Int : k \in stored => \E s \in 1..k : Begins(stored, s, k)}
<1>1. 1 \in S
  BY DEF Begins
<1>2. ASSUME NEW k \in 1..(h - 1), k \in S  PROVE k + 1 \in S
  <2>1. SUFFICES ASSUME k + 1 \in stored  PROVE \E s \in 1..(k + 1) : Begins(stored, s, k + 1)
    OBVIOUS
  <2>2. CASE k \in stored
    <3>1. PICK s \in 1..k : Begins(stored, s, k)
      BY <1>2, <2>2
    <3>2. s..(k + 1) \subseteq stored
      BY <2>1, <3>1 DEF Begins
    <3>3. s \in 1..(k + 1)
      OBVIOUS
    <3>. QED  BY <3>1, <3>2, <3>3 DEF Begins
  <2>3. CASE k \notin stored
    <3>1. Begins(stored, k + 1, k + 1)
      BY <2>1, <2>3 DEF Begins
    <3>. QED  BY <3>1
  <2>. QED  BY <2>2, <2>3
<1>3. \A k \in 1..h : k \in S
  <2>. HIDE DEF S
  <2>. QED  BY <1>1, <1>2, InductionOnInterval
<1>4. \E s \in 1..h : Begins(stored, s, h)
  BY <1>3
<1>. QED  BY <1>4 DEF Begins, StartIn

LEMMA BeginsOnce ==
  ASSUME NEW stored, NEW h \in Nat \ {0}, NEW s \in 1..h, NEW r \in 1..h,
         Begins(stored, s, h), Begins(stored, r, h)
  PROVE  s = r
  BY DEF Begins

\* Segments agree where the stored hours do.
LEMMA StartAgrees ==
  ASSUME NEW stored, NEW more, NEW h \in Nat \ {0}, h \in stored,
         \A x \in 1..h : x \in stored <=> x \in more
  PROVE  StartIn(more, h) = StartIn(stored, h) /\ FirstIn(more, h) = FirstIn(stored, h)
<1>1. Begins(stored, StartIn(stored, h), h) /\ Begins(more, StartIn(more, h), h)
  BY StartBegins
<1>2. /\ StartIn(stored, h) \in 1..h /\ StartIn(more, h) \in 1..h
      /\ Begins(stored, StartIn(more, h), h)
  BY <1>1 DEF Begins
<1>3. StartIn(more, h) = StartIn(stored, h)
  BY <1>1, <1>2, BeginsOnce
<1>. QED  BY <1>3 DEF FirstIn

\* Two hours of one segment are scored from the same hour on.
LEMMA StartShared ==
  ASSUME NEW stored, NEW h \in Nat \ {0}, h \in stored, NEW k \in 1..h,
         StartIn(stored, h) <= k
  PROVE  k \in stored /\ StartIn(stored, k) = StartIn(stored, h)
         /\ FirstIn(stored, k) = FirstIn(stored, h)
<1>1. Begins(stored, StartIn(stored, h), h)
  BY StartBegins
<1>2. k \in stored /\ Begins(stored, StartIn(stored, h), k) /\ StartIn(stored, h) \in 1..k
  BY <1>1 DEF Begins
<1>3. Begins(stored, StartIn(stored, k), k) /\ StartIn(stored, k) \in 1..k
  BY <1>2, StartBegins DEF Begins
<1>4. StartIn(stored, k) = StartIn(stored, h)
  BY <1>2, <1>3, BeginsOnce
<1>. QED  BY <1>2, <1>4 DEF FirstIn

LEMMA FirstBounds ==
  ASSUME NEW stored, NEW h \in Nat \ {0}, h \in stored
  PROVE  /\ StartIn(stored, h) \in 1..h /\ FirstIn(stored, h) \in Nat \ {0}
         /\ FirstIn(stored, h) >= StartIn(stored, h)
<1>1. StartIn(stored, h) \in 1..h
  BY StartBegins DEF Begins
<1>. QED  BY <1>1, ShadowAssumption DEF FirstIn

-----------------------------------------------------------------------------
(* The inductive invariant.                                                *)

LockInv == \A c, d \in Cycles : pc[c] # "idle" /\ pc[d] # "idle" => c = d

\* What a cycle has read is still so when it decides, because it holds the lock.
SeenInv ==
  \A c \in Cycles : pc[c] = "decide" => seen[c].latest = Latest /\ seen[c].mark = processed

\* The mark is a stored and scorable hour, and nothing is recorded past it.
MarkInv ==
  /\ processed \in candles \cup {0}
  /\ processed # 0 => FirstScored(processed) <= processed
  /\ \A t \in trades : t[2] <= processed
  /\ equity \subseteq 1..processed

ShadowInv == TypeOK /\ LockInv /\ SeenInv /\ MarkInv

LEMMA LatestFacts ==
  ASSUME TypeOK
  PROVE  Latest \in candles \cup {0} /\ Latest \in 0..hour /\ \A g \in candles : g <= Latest
<1>1. \E h \in candles \cup {0} : \A g \in candles : g <= h
  <2>1. hour \in Nat /\ candles \subseteq 1..hour
    BY DEF TypeOK
  <2>. QED  BY <2>1, BoundedSetHasMaximum
<1>2. Latest \in candles \cup {0} /\ \A g \in candles : g <= Latest
  BY <1>1 DEF Latest
<1>. QED  BY <1>2 DEF TypeOK

LEMMA ShadowInit == Init => ShadowInv
<1> SUFFICES ASSUME Init  PROVE ShadowInv
  OBVIOUS
<1>1. TypeOK
  BY ShadowAssumption DEF Init, TypeOK, Hours, AllMoves, Filters
<1>. QED  BY <1>1 DEF Init, ShadowInv, LockInv, SeenInv, MarkInv

\* What record_cycle_atomically commits, when nothing but this process has moved
\* the mark since it was read.
LEMMA RecordEffect ==
  ASSUME ShadowInv, NEW c \in Cycles, RecordCycle(c)
  PROVE  LET first == FirstScored(Latest)
             held  == HeldIn(market, first, filters)
             new   == {t \in TradesIn(market, first, Latest, filters) : t[2] > processed}
         IN  /\ Latest \in candles /\ Latest \in Hours /\ processed < Latest
             /\ first \in Hours /\ SegmentStart(Latest) <= first /\ first <= Latest
             /\ trades' = trades \cup new
             /\ equity' = equity \cup {h \in first..Latest : h > processed}
             /\ outbox' = outbox \cup Events(new, held[Latest], processed)
             /\ position' = held[Latest]
             /\ processed' = Latest
<1>. DEFINE first == FirstScored(Latest)
            held  == HeldIn(market, first, filters)
            new   == {t \in TradesIn(market, first, Latest, filters) : t[2] > processed}
<1>1. /\ seen[c].latest = Latest /\ seen[c].mark = processed
      /\ Latest \notin {0, processed} /\ Latest >= first
  BY DEF RecordCycle, Scorable, ShadowInv, SeenInv
<1>2. Latest \in candles /\ Latest \in 1..hour /\ hour \in 0..MaxHour /\ processed < Latest
  BY <1>1, LatestFacts DEF ShadowInv, MarkInv, TypeOK
<1>3. first = FirstIn(candles, Latest) /\ SegmentStart(Latest) = StartIn(candles, Latest)
  BY FirstIsFirstIn
<1>4. first \in Nat \ {0} /\ first >= SegmentStart(Latest)
  <2>1. Latest \in Nat \ {0}
    BY <1>2
  <2>. QED  BY <1>2, <1>3, <2>1, FirstBounds
<1>5. first \in Hours /\ Latest \in Hours /\ first <= Latest
  <2>1. Latest \in Int /\ Latest <= MaxHour /\ Latest >= 1
    BY <1>2, ShadowAssumption
  <2>. HIDE DEF first
  <2>. QED  BY <1>1, <1>4, <2>1, ShadowAssumption DEF Hours
<1>6. /\ Held(first, filters) = held
      /\ TradesOf(first, Latest, filters) = TradesIn(market, first, Latest, filters)
  BY HeldIsHeldIn, TradesAreTradesIn
<1>. HIDE DEF first, held
<1>7. /\ trades' = trades \cup {t \in new : \A u \in trades : u[2] # t[2]}
      /\ equity' = equity \cup {h \in first..Latest : h > processed}
      /\ outbox' = outbox \cup Events(new, held[Latest], processed)
      /\ position' = held[Latest]
      /\ processed' = Latest
  BY <1>1, <1>6 DEF RecordCycle, IsNew, first
<1>8. {t \in new : \A u \in trades : u[2] # t[2]} = new
  <2>1. SUFFICES ASSUME NEW t \in new, NEW u \in trades  PROVE u[2] # t[2]
    OBVIOUS
  <2>2. u[2] <= processed /\ t[2] > processed
    BY DEF ShadowInv, MarkInv
  <2>3. t[2] \in first..Latest
    BY <1>2, <1>5, TradeShape DEF Hours
  <2>4. u[2] \in Int /\ processed \in Int /\ t[2] \in Int
    BY <2>3, <1>2, <1>5 DEF ShadowInv, TypeOK, Hours
  <2>. QED  BY <2>2, <2>4
<1>9. trades' = trades \cup new
  BY <1>7, <1>8
<1>. QED  BY <1>2, <1>4, <1>5, <1>7, <1>9 DEF first, held

\* The segment scored is the one scored last, from the same hour on, or it lies
\* past the mark altogether.
LEMMA SameOrLaterSegment ==
  ASSUME ShadowInv, Latest \in candles, processed < Latest
  PROVE  \/ processed # 0 /\ FirstScored(Latest) = FirstScored(processed)
         \/ processed < SegmentStart(Latest)
<1>1. /\ Latest \in Nat \ {0} /\ Latest \in candles /\ processed \in Nat
      /\ processed \in candles \cup {0}
  BY LatestFacts DEF ShadowInv, TypeOK, MarkInv
<1>2. CASE SegmentStart(Latest) <= processed
  <2>1. StartIn(candles, Latest) \in 1..Latest /\ StartIn(candles, Latest) <= processed
    BY <1>1, <1>2, FirstBounds, FirstIsFirstIn
  <2>2. processed \in 1..Latest
    BY <1>1, <2>1
  <2>. QED  BY <1>1, <2>1, <2>2, StartShared, FirstIsFirstIn
<1>3. CASE ~(SegmentStart(Latest) <= processed)
  <2>1. SegmentStart(Latest) \in Int
    BY <1>1, FirstBounds, FirstIsFirstIn
  <2>. QED  BY <1>1, <1>3, <2>1
<1>. QED  BY <1>2, <1>3

LEMMA RecordTypes ==
  ASSUME ShadowInv, NEW c \in Cycles, RecordCycle(c)
  PROVE  TypeOK'
<1>. DEFINE first == FirstScored(Latest)
            held  == HeldIn(market, first, filters)
            new   == {t \in TradesIn(market, first, Latest, filters) : t[2] > processed}
<1>1. /\ Latest \in candles /\ Latest \in Hours /\ first \in Hours /\ first <= Latest
      /\ trades' = trades \cup new
      /\ equity' = equity \cup {h \in first..Latest : h > processed}
      /\ outbox' = outbox \cup Events(new, held[Latest], processed)
      /\ position' = held[Latest] /\ processed' = Latest
  BY RecordEffect
<1>2. /\ hour' = hour /\ market' = market /\ filters' = filters /\ bootstrap' = bootstrap
      /\ seen' = seen /\ candles' = candles
      /\ pc' \in [Cycles -> {"idle", "fetch", "read", "decide", "deliver"}]
  BY DEF RecordCycle, ShadowInv, TypeOK
<1>3. TypeOK /\ first \in Nat \ {0} /\ Latest \in 0..MaxHour /\ MaxHour \in Nat
  BY <1>1, ShadowAssumption DEF ShadowInv, Hours
<1>4. held[Latest] \in 0..MaxHour
  <2>1. Latest \in (first - 1)..MaxHour
    BY <1>1, <1>3
  <2>2. CASE held[Latest] # 0
    <3>1. held[Latest] \in (first + 1)..Latest
      BY <1>1, <2>1, <2>2, HeldSince
    <3>. HIDE DEF held
    <3>. QED  BY <1>3, <3>1
  <2>3. CASE held[Latest] = 0
    BY <1>3, <2>3
  <2>. QED  BY <2>2, <2>3
<1>5. new \subseteq Hours \X Hours
  <2>1. SUFFICES ASSUME NEW t \in new  PROVE t \in Hours \X Hours
    OBVIOUS
  <2>2. t = <<t[1], t[2]>> /\ t[2] \in first..Latest /\ t[1] \in (first + 1)..t[2]
    BY <1>1, <1>3, TradeShape
  <2>. QED  BY <1>3, <2>2 DEF Hours
<1>6. {h \in first..Latest : h > processed} \subseteq Hours
  BY <1>3 DEF Hours
<1>7. Events(new, held[Latest], processed) \subseteq {"entry", "exit"} \X Hours
  <2>1. {held[Latest]} \ 0..processed \subseteq Hours
    <3>. HIDE DEF held
    <3>. QED  BY <1>3, <1>4 DEF Hours, TypeOK
  <2>2. \A t \in new : t[1] \in Hours /\ t[2] \in Hours
    BY <1>5
  <2>. HIDE DEF new, held
  <2>. QED  BY <2>1, <2>2 DEF Events
<1>8. candles \subseteq 1..hour /\ Latest \in 0..hour
  BY <1>1, <1>3 DEF TypeOK
<1>. HIDE DEF first, held, new
<1>9. trades' \subseteq Hours \X Hours /\ equity' \subseteq Hours
  BY <1>1, <1>3, <1>5, <1>6 DEF TypeOK
<1>10. outbox' \subseteq {"entry", "exit"} \X Hours
  BY <1>1, <1>3, <1>7 DEF TypeOK
<1>11. position' \in 0..MaxHour /\ processed' \in 0..hour
  BY <1>1, <1>4, <1>8
<1>. QED  BY <1>2, <1>3, <1>9, <1>10, <1>11 DEF TypeOK

\* A step that commits no cycle leaves what it finds, but for hours that complete
\* and candles past the newest one.
QuietStep ==
  /\ UNCHANGED <<processed, trades, equity, position, outbox>>
  /\ \A h \in 1..hour : market'[h] = market[h]
  /\ candles \subseteq candles' /\ \A h \in candles' \ candles : h > Latest

LEMMA NextSplits ==
  ASSUME TypeOK, [Next]_vars
  PROVE  QuietStep \/ \E c \in Cycles : RecordCycle(c)
<1>. USE DEF disk
<1>1. CASE UNCHANGED vars
  BY <1>1 DEF vars, QuietStep
<1>2. CASE Tick
  <2>1. PICK m \in Moves : market' = [market EXCEPT ![hour'] = m]
    BY <1>2 DEF Tick
  <2>2. \A h \in 1..hour : market'[h] = market[h]
    BY <1>2, <2>1, ShadowAssumption DEF Tick, TypeOK, Hours
  <2>. QED  BY <1>2, <2>2 DEF Tick, QuietStep
<1>3. CASE ChangeFilters \/ StoreWarmup \/ RecordBootstrap
  BY <1>3 DEF ChangeFilters, StoreWarmup, RecordBootstrap, QuietStep
<1>4. ASSUME NEW c \in Cycles, Cycle(c) \/ Crash(c)  PROVE QuietStep \/ RecordCycle(c)
  <2>1. CASE StoreCandles(c)
    <3>1. \A h \in Fetched : h > Latest
      <4>1. Latest \in Int /\ hour \in Int
        BY LatestFacts, ShadowAssumption DEF TypeOK
      <4>. QED  BY <4>1 DEF Fetched, Completed
    <3>. QED  BY <2>1, <3>1 DEF StoreCandles, QuietStep
  <2>2. CASE BeginCycle(c) \/ ReadState(c) \/ SkipCycle(c) \/ Deliver(c) \/ Crash(c)
    BY <2>2 DEF BeginCycle, ReadState, SkipCycle, Deliver, Crash, QuietStep
  <2>. QED  BY <1>4, <2>1, <2>2 DEF Cycle
<1>. QED  BY <1>1, <1>2, <1>3, <1>4 DEF Next

LEMMA ShadowTypeStep == ShadowInv /\ [Next]_vars => TypeOK'
<1> SUFFICES ASSUME ShadowInv, [Next]_vars  PROVE TypeOK'
  OBVIOUS
<1>. USE DEF disk
<1>0. TypeOK /\ MaxHour \in Nat
  BY ShadowAssumption DEF ShadowInv
<1>1. CASE UNCHANGED vars
  BY <1>0, <1>1 DEF vars, TypeOK
<1>2. CASE Tick
  <2>1. PICK m \in Moves : market' = [market EXCEPT ![hour'] = m]
    BY <1>2 DEF Tick
  <2>2. m \in AllMoves
    BY ShadowAssumption
  <2>3. market' \in [Hours -> AllMoves]
    BY <1>0, <2>1, <2>2 DEF TypeOK
  <2>4. hour' \in 0..MaxHour /\ candles \subseteq 1..hour' /\ processed \in 0..hour'
    BY <1>0, <1>2 DEF Tick, TypeOK
  <2>. QED  BY <1>0, <1>2, <2>3, <2>4 DEF Tick, TypeOK
<1>3. CASE ChangeFilters \/ StoreWarmup \/ RecordBootstrap
  BY <1>0, <1>3 DEF ChangeFilters, StoreWarmup, RecordBootstrap, TypeOK, Filters
<1>4. ASSUME NEW c \in Cycles, Cycle(c) \/ Crash(c)  PROVE TypeOK'
  <2>1. CASE StoreCandles(c)
    <3>1. Fetched \subseteq 1..hour
      <4>1. Latest \in 0..hour /\ hour \in Int
        BY <1>0, LatestFacts DEF TypeOK
      <4>. QED  BY <4>1 DEF Fetched, Completed
    <3>. QED  BY <1>0, <2>1, <3>1 DEF StoreCandles, TypeOK
  <2>2. CASE ReadState(c)
    <3>1. Latest \in 0..MaxHour /\ processed \in 0..MaxHour
      BY <1>0, LatestFacts DEF TypeOK
    <3>2. seen' \in [Cycles -> [latest : 0..MaxHour, mark : 0..MaxHour]]
      BY <1>0, <2>2, <3>1 DEF ReadState, TypeOK
    <3>. QED  BY <1>0, <2>2, <3>2 DEF ReadState, TypeOK
  <2>3. CASE BeginCycle(c) \/ SkipCycle(c) \/ Deliver(c) \/ Crash(c)
    BY <1>0, <2>3 DEF BeginCycle, SkipCycle, Deliver, Crash, TypeOK
  <2>4. CASE RecordCycle(c)
    BY <2>4, RecordTypes
  <2>. QED  BY <1>4, <2>1, <2>2, <2>3, <2>4 DEF Cycle
<1>. QED  BY <1>1, <1>2, <1>3, <1>4 DEF Next

\* The lock is taken by one process at a time.
LEMMA LockStep == TypeOK /\ LockInv /\ [Next]_vars => LockInv'
<1> SUFFICES ASSUME TypeOK, LockInv, [Next]_vars  PROVE LockInv'
  OBVIOUS
<1>1. CASE UNCHANGED vars \/ Tick \/ ChangeFilters \/ StoreWarmup \/ RecordBootstrap
  BY <1>1 DEF vars, Tick, ChangeFilters, StoreWarmup, RecordBootstrap, LockInv
<1>2. ASSUME NEW c \in Cycles, Cycle(c) \/ Crash(c)  PROVE LockInv'
  <2>1. CASE BeginCycle(c)
    BY <2>1 DEF BeginCycle, LockFree, LockInv, TypeOK
  <2>2. CASE ~BeginCycle(c)
    <3>1. pc[c] # "idle" /\ \A d \in Cycles : d # c => pc'[d] = pc[d]
      BY <1>2, <2>2 DEF Cycle, Crash, StoreCandles, ReadState, SkipCycle, RecordCycle, Deliver, TypeOK
    <3>. QED  BY <3>1 DEF LockInv
  <2>. QED  BY <2>1, <2>2
<1>. QED  BY <1>1, <1>2 DEF Next

LEMMA SeenStep == ShadowInv /\ [Next]_vars => SeenInv'
<1> SUFFICES ASSUME ShadowInv, [Next]_vars, NEW d \in Cycles, pc'[d] = "decide"
             PROVE  seen'[d].latest = Latest' /\ seen'[d].mark = processed'
  BY DEF SeenInv
<1>. USE DEF disk
<1>0. TypeOK /\ (pc[d] = "decide" => seen[d].latest = Latest /\ seen[d].mark = processed)
  BY DEF ShadowInv, SeenInv
<1>1. CASE UNCHANGED vars \/ Tick \/ ChangeFilters \/ StoreWarmup \/ RecordBootstrap
  BY <1>0, <1>1 DEF vars, Tick, ChangeFilters, StoreWarmup, RecordBootstrap, Latest
<1>2. ASSUME NEW c \in Cycles, Cycle(c) \/ Crash(c)
      PROVE  seen'[d].latest = Latest' /\ seen'[d].mark = processed'
  <2>1. CASE ReadState(c)
    <3>1. CASE d = c
      BY <1>0, <2>1, <3>1 DEF ReadState, Latest, TypeOK
    <3>2. CASE d # c
      BY <1>0, <2>1, <3>2 DEF ReadState, Latest, TypeOK
    <3>. QED  BY <3>1, <3>2
  <2>2. CASE StoreCandles(c) \/ RecordCycle(c)
    <3>1. pc[c] # "idle" /\ pc'[c] # "decide" /\ (d # c => pc'[d] = pc[d])
      BY <1>0, <2>2 DEF StoreCandles, RecordCycle, TypeOK
    <3>2. d # c /\ pc[d] # "idle"
      BY <3>1
    <3>. QED  BY <3>1, <3>2 DEF ShadowInv, LockInv
  <2>3. CASE BeginCycle(c) \/ SkipCycle(c) \/ Deliver(c) \/ Crash(c)
    <3>1. pc[d] = "decide" /\ UNCHANGED <<seen, candles, processed>>
      BY <1>0, <2>3 DEF BeginCycle, SkipCycle, Deliver, Crash, TypeOK
    <3>. QED  BY <1>0, <3>1 DEF Latest
  <2>. QED  BY <1>2, <2>1, <2>2, <2>3 DEF Cycle
<1>. QED  BY <1>1, <1>2 DEF Next

\* Candles past the newest one leave a segment already scored where it was.
LEMMA FirstStays ==
  ASSUME TypeOK, QuietStep, NEW h \in candles
  PROVE  /\ FirstScored(h)' = FirstScored(h)
         /\ \A x \in 1..h : x \in candles <=> x \in candles'
<1>1. h \in Nat \ {0} /\ h <= Latest /\ Latest \in Int
  BY LatestFacts DEF TypeOK
<1>2. \A x \in 1..h : x \in candles <=> x \in candles'
  BY <1>1 DEF QuietStep
<1>3. FirstIn(candles', h) = FirstIn(candles, h)
  BY <1>1, <1>2, StartAgrees
<1>4. FirstScored(h)' = FirstIn(candles', h) /\ FirstScored(h) = FirstIn(candles, h)
  BY DEF FirstScored, SegmentStart, FirstIn, StartIn
<1>. QED  BY <1>2, <1>3, <1>4

LEMMA MarkStep == ShadowInv /\ [Next]_vars => MarkInv'
<1> SUFFICES ASSUME ShadowInv, [Next]_vars  PROVE MarkInv'
  OBVIOUS
<1>0. TypeOK /\ MarkInv
  BY DEF ShadowInv
<1>1. CASE QuietStep
  <2>1. /\ processed' = processed /\ trades' = trades /\ equity' = equity
        /\ processed' \in candles' \cup {0}
    BY <1>0, <1>1 DEF QuietStep, MarkInv
  <2>2. ASSUME processed # 0  PROVE FirstScored(processed)' <= processed
    <3>1. PICK h \in candles : h = processed
      BY <1>0, <2>2 DEF MarkInv
    <3>2. FirstScored(h)' = FirstScored(h)
      BY <1>0, <1>1, FirstStays
    <3>3. FirstScored(processed)' = FirstScored(h)'
      BY <2>1, <3>1 DEF FirstScored, SegmentStart
    <3>. QED  BY <1>0, <2>2, <3>1, <3>2, <3>3 DEF MarkInv
  <2>. QED  BY <1>0, <2>1, <2>2 DEF MarkInv
<1>2. ASSUME NEW c \in Cycles, RecordCycle(c)  PROVE MarkInv'
  <2>. DEFINE first == FirstScored(Latest)
              new == {t \in TradesIn(market, first, Latest, filters) : t[2] > processed}
  <2>1. /\ Latest \in candles /\ Latest \in Hours /\ processed < Latest
        /\ first \in Hours /\ first <= Latest
        /\ trades' = trades \cup new
        /\ equity' = equity \cup {h \in first..Latest : h > processed}
        /\ processed' = Latest /\ candles' = candles
    BY <1>2, RecordEffect DEF RecordCycle
  <2>2. FirstScored(processed)' = first
    BY <2>1 DEF FirstScored, SegmentStart
  <2>3. \A t \in new : t[2] <= Latest
    <3>1. Latest \in 0..MaxHour
      BY <2>1, ShadowAssumption DEF Hours
    <3>. QED  BY <2>1, <3>1, TradeShape
  <2>4. \A t \in trades : t[2] <= Latest
    <3>1. \A t \in trades : t[2] \in Int /\ t[2] <= processed
      BY <1>0 DEF TypeOK, Hours, MarkInv
    <3>2. processed \in Int /\ Latest \in Int
      BY <1>0, <2>1 DEF TypeOK, Hours
    <3>. QED  BY <2>1, <3>1, <3>2
  <2>5. equity' \subseteq 1..Latest
    <3>1. first \in Nat \ {0} /\ processed \in Int /\ Latest \in Int
      BY <1>0, <2>1 DEF TypeOK, Hours
    <3>. HIDE DEF first
    <3>2. equity \subseteq 1..Latest
      BY <1>0, <2>1, <3>1 DEF MarkInv
    <3>3. {h \in first..Latest : h > processed} \subseteq 1..Latest
      BY <3>1
    <3>. QED  BY <2>1, <3>2, <3>3
  <2>. HIDE DEF new, first
  <2>. QED  BY <2>1, <2>2, <2>3, <2>4, <2>5 DEF MarkInv
<1>. QED  BY <1>0, <1>1, <1>2, NextSplits

LEMMA ShadowStep == ShadowInv /\ [Next]_vars => ShadowInv'
  BY ShadowTypeStep, LockStep, SeenStep, MarkStep DEF ShadowInv

\* The shadow engine's tables, its processes and the market keep their types,
\* whatever the limits: no cycle records an hour outside those that completed.
THEOREM ShadowTyped == Spec => []TypeOK
<1>1. ShadowInv => TypeOK
  BY DEF ShadowInv
<1>. QED  BY ShadowInit, ShadowStep, <1>1, PTL DEF Spec

-----------------------------------------------------------------------------
(* Hours are scored with the history the strategy needs.                   *)

LEMMA HistoryStep == ShadowInv /\ ScoredWithHistory /\ [Next]_vars => ScoredWithHistory'
<1> SUFFICES ASSUME ShadowInv, ScoredWithHistory, [Next]_vars  PROVE ScoredWithHistory'
  OBVIOUS
<1>0. TypeOK /\ MarkInv
  BY DEF ShadowInv
<1>1. CASE QuietStep
  <2>1. SUFFICES ASSUME NEW h \in equity
                 PROVE  IF 1..h \subseteq candles' THEN h > Settle
                        ELSE (h - Required + 1)..h \subseteq candles'
    BY <1>1 DEF QuietStep, ScoredWithHistory
  <2>2. h \in Int /\ h <= processed /\ processed <= Latest /\ processed \in Int /\ Latest \in Int
    BY <1>0, LatestFacts DEF MarkInv, TypeOK
  <2>3. candles \subseteq candles' /\ \A x \in 1..h : x \in candles' => x \in candles
    BY <1>1, <2>2 DEF QuietStep
  <2>4. 1..h \subseteq candles' <=> 1..h \subseteq candles
    BY <2>3
  <2>5. (h - Required + 1)..h \subseteq candles => (h - Required + 1)..h \subseteq candles'
    BY <2>3
  <2>6. IF 1..h \subseteq candles THEN h > Settle ELSE (h - Required + 1)..h \subseteq candles
    BY DEF ScoredWithHistory
  <2>. QED  BY <2>4, <2>5, <2>6
<1>2. ASSUME NEW c \in Cycles, RecordCycle(c)  PROVE ScoredWithHistory'
  <2>. DEFINE first == FirstScored(Latest)
              start == SegmentStart(Latest)
  <2>1. /\ Latest \in candles /\ Latest \in Hours /\ first \in Hours /\ first <= Latest
        /\ equity' = equity \cup {h \in first..Latest : h > processed}
        /\ candles' = candles
    BY <1>2, RecordEffect DEF RecordCycle
  <2>2. /\ start \in 1..Latest /\ start..Latest \subseteq candles
        /\ start = 1 \/ start - 1 \notin candles
        /\ first = IF start = 1 THEN 1 + Settle ELSE start + Required - 1
    <3>1. Latest \in Nat \ {0}
      BY <2>1 DEF Hours
    <3>. QED  BY <2>1, <3>1, StartBegins, FirstIsFirstIn DEF Begins, FirstIn
  <2>. HIDE DEF first, start
  <2>3. ASSUME NEW h \in first..Latest
        PROVE  IF 1..h \subseteq candles THEN h > Settle ELSE (h - Required + 1)..h \subseteq candles
    <3>1. first \in Int /\ first >= 1 /\ Latest \in Int /\ start \in Int /\ Settle \in Nat /\ Required \in Nat \ {0}
      BY <2>1, <2>2, ShadowAssumption DEF Hours
    <3>2. CASE start = 1
      BY <2>2, <3>1, <3>2
    <3>3. CASE start # 1
      <4>1. start - 1 \in 1..h /\ start - 1 \notin candles
        BY <2>2, <3>1, <3>3
      <4>2. h - Required + 1 >= start
        BY <2>2, <3>1, <3>3
      <4>3. (h - Required + 1)..h \subseteq start..Latest
        BY <3>1, <4>2
      <4>. QED  BY <2>2, <4>1, <4>3
    <3>. QED  BY <3>2, <3>3
  <2>. QED  BY <2>1, <2>3 DEF ScoredWithHistory
<1>. QED  BY <1>0, <1>1, <1>2, NextSplits

\* run_segment is given a later segment only with its required candles, and the
\* segment at the boundary only after the settling buffer; a fetch stores nothing
\* behind the newest candle, so no hour already scored joins another segment.
THEOREM ScoredAlwaysWithHistory == Spec => []ScoredWithHistory
<1>1. Init => ShadowInv /\ ScoredWithHistory
  BY ShadowInit DEF Init, ScoredWithHistory
<1>2. (ShadowInv /\ ScoredWithHistory) /\ [Next]_vars => (ShadowInv /\ ScoredWithHistory)'
  BY ShadowStep, HistoryStep
<1>. QED  BY <1>1, <1>2, PTL DEF Spec

-----------------------------------------------------------------------------
(* What is recorded is one run.                                            *)

\* No change of the filters can change what a signal does.
SteadyFilters == FilterChanges => "small" \notin Moves

FiltersInv ==
  /\ \A h \in Hours : market[h] \in Moves \cup {"quiet"}
  /\ ~FilterChanges => filters = "loose"

LEMMA FiltersInit == Init => FiltersInv
  BY DEF Init, FiltersInv, Hours

LEMMA FiltersStep == TypeOK /\ FiltersInv /\ [Next]_vars => FiltersInv'
<1> SUFFICES ASSUME TypeOK, FiltersInv, [Next]_vars  PROVE FiltersInv'
  OBVIOUS
<1>1. CASE UNCHANGED vars \/ StoreWarmup \/ RecordBootstrap \/ ChangeFilters
  BY <1>1 DEF vars, StoreWarmup, RecordBootstrap, ChangeFilters, FiltersInv
<1>2. CASE Tick
  <2>1. PICK m \in Moves : market' = [market EXCEPT ![hour'] = m]
    BY <1>2 DEF Tick
  <2>2. \A h \in Hours : market'[h] \in Moves \cup {"quiet"}
    BY <2>1 DEF FiltersInv, TypeOK
  <2>. QED  BY <1>2, <2>2 DEF Tick, FiltersInv
<1>3. ASSUME NEW c \in Cycles, Cycle(c) \/ Crash(c)  PROVE FiltersInv'
  BY <1>3 DEF Cycle, Crash, BeginCycle, StoreCandles, ReadState, SkipCycle, RecordCycle, Deliver,
       FiltersInv
<1>. QED  BY <1>1, <1>2, <1>3 DEF Next

\* The run as it would be with the filters the first cycle saw.
RunHeld(first)        == HeldIn(market, first, "loose")
RunTrades(first, last) == TradesIn(market, first, last, "loose")

LEMMA RunIgnoresFilters ==
  ASSUME SteadyFilters, TypeOK, FiltersInv, NEW first \in Hours, NEW last \in first..MaxHour
  PROVE  /\ HeldIn(market, first, filters)[last] = RunHeld(first)[last]
         /\ TradesIn(market, first, last, filters) = RunTrades(first, last)
<1>0. last \in 0..MaxHour /\ last \in (first - 1)..last /\ first \in Nat \ {0} /\ MaxHour \in Nat
  BY ShadowAssumption DEF Hours
<1>1. \A h \in first..last : EntersIn(market, h, first, filters) <=> EntersIn(market, h, first, "loose")
  <2>1. SUFFICES ASSUME NEW h \in first..last
                 PROVE  EntersIn(market, h, first, filters) <=> EntersIn(market, h, first, "loose")
    OBVIOUS
  <2>2. h \in Hours
    BY <1>0 DEF Hours
  <2>3. filters = "loose" \/ market[h] # "small"
    BY <2>2 DEF SteadyFilters, FiltersInv
  <2>. QED  BY <2>3 DEF EntersIn
<1>2. HeldIn(market, first, filters)[last] = HeldIn(market, first, "loose")[last]
  BY <1>0, <1>1, HeldAgrees
<1>3. TradesIn(market, first, last, filters) = TradesIn(market, first, last, "loose")
  BY <1>0, <1>1, TradesAgree
<1>. QED  BY <1>2, <1>3 DEF RunHeld, RunTrades

RowsInv ==
  /\ processed = 0 => position = 0
  /\ processed # 0 =>
       /\ FirstScored(processed)..processed \subseteq equity
       /\ {t \in trades : t[2] >= FirstScored(processed)} =
            RunTrades(FirstScored(processed), processed)
       /\ position = RunHeld(FirstScored(processed))[processed]

LEMMA RowsQuiet ==
  ASSUME ShadowInv, RowsInv, QuietStep
  PROVE  RowsInv'
<1>0. TypeOK /\ MarkInv
  BY DEF ShadowInv
<1>1. /\ processed' = processed /\ trades' = trades /\ equity' = equity /\ position' = position
  BY DEF QuietStep
<1>2. CASE processed = 0
  BY <1>1, <1>2 DEF RowsInv
<1>3. CASE processed # 0
  <2>1. PICK last \in candles : last = processed
    BY <1>0, <1>3 DEF MarkInv
  <2>. DEFINE first == FirstScored(last)
  <2>2. FirstScored(last)' = first
    BY <1>0, FirstStays
  <2>3. last \in 1..hour /\ hour \in 0..MaxHour /\ first <= last
    BY <1>0, <2>1 DEF TypeOK, MarkInv
  <2>4. first \in Nat \ {0}
    <3>1. last \in Nat \ {0}
      BY <2>3
    <3>. QED  BY <2>1, <3>1, FirstBounds, FirstIsFirstIn
  <2>. HIDE DEF first
  <2>5. PICK from \in Hours : from = first
    BY <2>3, <2>4, ShadowAssumption DEF Hours
  <2>6. \A h \in from..last : /\ EntersIn(market', h, from, "loose") <=> EntersIn(market, h, from, "loose")
                              /\ ExitsIn(market', h) <=> ExitsIn(market, h)
    BY <2>3, <2>4, <2>5 DEF QuietStep, EntersIn, ExitsIn
  <2>7. last \in 0..MaxHour /\ last \in (from - 1)..last
    BY <2>3, <2>4, <2>5, ShadowAssumption
  <2>8. HeldIn(market', from, "loose")[last] = HeldIn(market, from, "loose")[last]
    BY <2>6, <2>7, HeldAgrees
  <2>9. TradesIn(market', from, last, "loose") = TradesIn(market, from, last, "loose")
    BY <2>6, <2>7, TradesAgree
  <2>10. /\ from..last \subseteq equity
         /\ {t \in trades : t[2] >= from} = TradesIn(market, from, last, "loose")
         /\ position = HeldIn(market, from, "loose")[last]
    BY <1>3, <2>1, <2>5 DEF RowsInv, RunHeld, RunTrades, first
  <2>11. FirstScored(processed)' = from
    BY <1>1, <2>1, <2>2, <2>5 DEF FirstScored, SegmentStart
  <2>. QED
    BY <1>1, <1>3, <2>1, <2>8, <2>9, <2>10, <2>11 DEF RowsInv, RunHeld, RunTrades
<1>. QED  BY <1>2, <1>3

LEMMA RowsRecorded ==
  ASSUME SteadyFilters, ShadowInv, FiltersInv, RowsInv, NEW c \in Cycles, RecordCycle(c)
  PROVE  RowsInv'
<1>. DEFINE new(first) == {t \in RunTrades(first, Latest) : t[2] > processed}
<1>0. TypeOK /\ MarkInv
  BY DEF ShadowInv
<1>1. PICK first \in Hours :
        /\ first = FirstScored(Latest)
        /\ Latest \in candles /\ Latest \in Hours /\ processed < Latest
        /\ SegmentStart(Latest) <= first /\ first <= Latest
        /\ trades' = trades \cup {t \in TradesIn(market, first, Latest, filters) : t[2] > processed}
        /\ equity' = equity \cup {h \in first..Latest : h > processed}
        /\ position' = HeldIn(market, first, filters)[Latest]
        /\ processed' = Latest
  BY RecordEffect
<1>2. /\ HeldIn(market, first, filters)[Latest] = RunHeld(first)[Latest]
      /\ TradesIn(market, first, Latest, filters) = RunTrades(first, Latest)
  <2>1. Latest \in first..MaxHour
    BY <1>1, ShadowAssumption DEF Hours
  <2>. QED  BY <1>0, <2>1, RunIgnoresFilters
<1>3. /\ Latest \in 0..MaxHour /\ Latest \in Nat \ {0} /\ first \in Nat \ {0} /\ processed \in Nat
      /\ processed \in 0..MaxHour /\ MaxHour \in Nat
  BY <1>0, <1>1, ShadowAssumption DEF Hours, TypeOK
<1>4. \A t \in RunTrades(first, Latest) : t[2] \in first..Latest
  BY <1>3, TradeShape DEF RunTrades
<1>5. \A t \in trades : t[2] \in Int /\ t[2] <= processed
  BY <1>0 DEF MarkInv, TypeOK, Hours
<1>6. /\ first..Latest \subseteq equity'
      /\ {t \in trades' : t[2] >= first} = RunTrades(first, Latest)
  <2>1. trades' = trades \cup new(first)
    BY <1>1, <1>2
  <2>2. CASE processed # 0 /\ first = FirstScored(processed)
    <3>1. first..processed \subseteq equity
      BY <2>2 DEF RowsInv
    <3>2. {t \in trades : t[2] >= first} = RunTrades(first, processed)
      BY <2>2 DEF RowsInv
    <3>3. RunTrades(first, processed) = {t \in RunTrades(first, Latest) : t[2] <= processed}
      <4>1. Latest \in processed..MaxHour
        BY <1>1, <1>3
      <4>. QED  BY <1>3, <4>1, TradesExtend DEF RunTrades
    <3>4. first..Latest \subseteq equity'
      BY <1>1, <1>3, <3>1
    <3>5. {t \in trades' : t[2] >= first} = RunTrades(first, Latest)
      <4>1. ASSUME NEW t \in trades', t[2] >= first  PROVE t \in RunTrades(first, Latest)
        BY <2>1, <3>2, <3>3, <4>1
      <4>2. ASSUME NEW t \in RunTrades(first, Latest)  PROVE t \in trades' /\ t[2] >= first
        <5>1. t[2] \in first..Latest
          BY <1>4
        <5>2. CASE t[2] <= processed
          BY <2>1, <3>2, <3>3, <5>2
        <5>3. CASE t[2] > processed
          BY <1>3, <2>1, <5>1, <5>3
        <5>. QED  BY <1>3, <5>1, <5>2, <5>3
      <4>. QED  BY <4>1, <4>2
    <3>. QED  BY <3>4, <3>5
  <2>3. CASE processed < SegmentStart(Latest)
    <3>1. processed < first
      <4>1. SegmentStart(Latest) \in Int
        BY <1>1, <1>3, FirstBounds, FirstIsFirstIn
      <4>. QED  BY <1>1, <1>3, <2>3, <4>1
    <3>2. first..Latest \subseteq equity'
      BY <1>1, <1>3, <3>1
    <3>3. \A t \in RunTrades(first, Latest) : t[2] > processed /\ t[2] >= first
      BY <1>3, <1>4, <3>1
    <3>4. \A t \in trades : ~(t[2] >= first)
      BY <1>3, <1>5, <3>1
    <3>. QED  BY <2>1, <3>2, <3>3, <3>4
  <2>. QED  BY <1>1, <2>2, <2>3, SameOrLaterSegment
<1>7. processed' # 0 /\ FirstScored(processed)' = first
  <2>1. candles' = candles
    BY DEF RecordCycle
  <2>. QED  BY <1>1, <1>3, <2>1 DEF FirstScored, SegmentStart
<1>8. market' = market
  BY DEF RecordCycle
<1>. QED  BY <1>1, <1>2, <1>6, <1>7, <1>8 DEF RowsInv, RunHeld, RunTrades

LEMMA RowsStep ==
  ASSUME SteadyFilters, ShadowInv, FiltersInv, RowsInv, [Next]_vars
  PROVE  RowsInv'
<1>1. TypeOK
  BY DEF ShadowInv
<1>. QED  BY <1>1, NextSplits, RowsQuiet, RowsRecorded

LEMMA RowsAreOneRun == ShadowInv /\ RowsInv => RowsFollowOneRun
<1> SUFFICES ASSUME ShadowInv, RowsInv, processed # 0
             PROVE  LET first == FirstScored(processed)
                    IN  /\ {h \in equity : h >= first} = first..processed
                        /\ \E f \in Filters :
                             /\ {t \in trades : t[2] >= first} = TradesOf(first, processed, f)
                             /\ position = Held(first, f)[processed]
  BY DEF RowsFollowOneRun
<1>. DEFINE first == FirstScored(processed)
<1>1. /\ first..processed \subseteq equity /\ equity \subseteq 1..processed
      /\ {t \in trades : t[2] >= first} = RunTrades(first, processed)
      /\ position = RunHeld(first)[processed]
  BY DEF RowsInv, ShadowInv, MarkInv
<1>2. first \in Int /\ processed \in Int
  <2>1. processed \in Nat \ {0} /\ processed \in candles
    BY DEF ShadowInv, TypeOK, MarkInv
  <2>. QED  BY <2>1, FirstBounds, FirstIsFirstIn
<1>3. Held(first, "loose") = HeldIn(market, first, "loose")
      /\ TradesOf(first, processed, "loose") = TradesIn(market, first, processed, "loose")
  BY HeldIsHeldIn, TradesAreTradesIn
<1>. HIDE DEF first
<1>4. {h \in equity : h >= first} = first..processed
  <2>1. \A h \in equity : h \in Int /\ h <= processed
    BY <1>1, <1>2
  <2>2. \A h \in first..processed : h \in equity /\ h >= first
    BY <1>1, <1>2
  <2>. QED  BY <1>2, <2>1, <2>2
<1>5. /\ {t \in trades : t[2] >= first} = TradesOf(first, processed, "loose")
      /\ position = Held(first, "loose")[processed]
  BY <1>1, <1>3 DEF RunHeld, RunTrades
<1>. QED  BY <1>4, <1>5 DEF first, Filters

\* shadow/store.py promises that re-running the engine reproduces what was
\* observed up to the mark.  With filters that do not matter to the run, the
\* equity, trade and position rows of record_cycle_atomically are at all times
\* one run over the segment, whatever crashed, overlapped or caught up.
THEOREM RowsAlwaysFollowOneRun == SteadyFilters => (Spec => []RowsFollowOneRun)
<1> SUFFICES ASSUME SteadyFilters  PROVE Spec => []RowsFollowOneRun
  OBVIOUS
<1>. DEFINE Inv == ShadowInv /\ FiltersInv /\ RowsInv
<1>1. Init => Inv
  BY ShadowInit, FiltersInit DEF Init, RowsInv
<1>2. Inv /\ [Next]_vars => Inv'
  BY ShadowStep, FiltersStep, RowsStep DEF ShadowInv
<1>3. Inv => RowsFollowOneRun
  BY RowsAreOneRun
<1>. QED  BY <1>1, <1>2, <1>3, PTL DEF Spec

-----------------------------------------------------------------------------
(* What is recorded is announced.                                          *)

\* An entry behind the mark that a run past the mark still holds is the recorded
\* position.
LEMMA HeldPastMark ==
  ASSUME ShadowInv, RowsInv, Latest \in candles, processed < Latest,
         NEW first \in Hours, first = FirstScored(Latest), SegmentStart(Latest) <= first,
         NEW x \in (first - 1)..Latest, processed <= x,
         RunHeld(first)[x] # 0, RunHeld(first)[x] <= processed
  PROVE  position = RunHeld(first)[x]
<1>1. /\ Latest \in 0..MaxHour /\ Latest \in Nat \ {0} /\ processed \in Nat /\ MaxHour \in Nat
      /\ first \in Nat \ {0}
  BY LatestFacts, ShadowAssumption DEF ShadowInv, TypeOK, Hours
<1>2. x \in (first - 1)..MaxHour
  BY <1>1
<1>3. PICK e : e = RunHeld(first)[x]
  OBVIOUS
<1>4. e \in (first + 1)..x /\ \A y \in e..x : RunHeld(first)[y] = e
  BY <1>2, <1>3, HeldSince DEF RunHeld
<1>5. e <= processed /\ processed \in e..x /\ first < processed
  BY <1>1, <1>2, <1>3, <1>4
<1>6. RunHeld(first)[processed] = e
  BY <1>4, <1>5
<1>7. processed # 0 /\ FirstScored(processed) = first
  <2>1. SegmentStart(Latest) \in Int
    BY <1>1, FirstBounds, FirstIsFirstIn
  <2>. QED  BY <1>1, <1>5, <2>1, SameOrLaterSegment
<1>. QED  BY <1>3, <1>6, <1>7 DEF RowsInv

LEMMA AnnouncedStep ==
  ASSUME SteadyFilters, ShadowInv, FiltersInv, RowsInv, EveryTradeAnnounced, [Next]_vars
  PROVE  EveryTradeAnnounced'
<1>0. TypeOK /\ MarkInv
  BY DEF ShadowInv
<1>1. CASE QuietStep
  BY <1>1 DEF QuietStep, EveryTradeAnnounced
<1>2. ASSUME NEW c \in Cycles, RecordCycle(c)  PROVE EveryTradeAnnounced'
  <2>1. PICK first \in Hours :
          /\ first = FirstScored(Latest)
          /\ Latest \in candles /\ Latest \in Hours /\ processed < Latest
          /\ SegmentStart(Latest) <= first /\ first <= Latest
          /\ trades' = trades \cup {t \in TradesIn(market, first, Latest, filters) : t[2] > processed}
          /\ outbox' = outbox \cup Events({t \in TradesIn(market, first, Latest, filters) :
                                             t[2] > processed},
                                          HeldIn(market, first, filters)[Latest], processed)
          /\ position' = HeldIn(market, first, filters)[Latest]
    BY <1>2, RecordEffect
  <2>2. /\ HeldIn(market, first, filters)[Latest] = RunHeld(first)[Latest]
        /\ TradesIn(market, first, Latest, filters) = RunTrades(first, Latest)
    <3>1. Latest \in first..MaxHour
      BY <2>1, ShadowAssumption DEF Hours
    <3>. QED  BY <1>0, <3>1, RunIgnoresFilters
  <2>3. /\ Latest \in 0..MaxHour /\ first \in Nat \ {0} /\ processed \in Nat /\ MaxHour \in Nat
        /\ Latest \in (first - 1)..Latest
    BY <1>0, <2>1, ShadowAssumption DEF Hours, TypeOK
  <2>. DEFINE new  == {t \in RunTrades(first, Latest) : t[2] > processed}
              open == RunHeld(first)[Latest]
  <2>4. /\ trades' = trades \cup new /\ position' = open
        /\ outbox' = outbox \cup Events(new, open, processed)
    BY <2>1, <2>2
  <2>5. ASSUME NEW e, e \in {open} \cup {t[1] : t \in new}, e # 0, e \in Int
        PROVE  <<"entry", e>> \in outbox'
    <3>1. CASE e > processed
      <4>1. e \notin 0..processed
        BY <2>3, <2>5, <3>1
      <4>2. <<"entry", e>> \in Events(new, open, processed)
        <5>. HIDE DEF new, open
        <5>. QED  BY <2>5, <4>1 DEF Events
      <4>. QED  BY <2>4, <4>2
    <3>2. CASE e <= processed
      <4>1. position = e
        <5>1. CASE e = open
          BY <2>1, <2>3, <2>5, <3>2, <5>1, HeldPastMark
        <5>2. ASSUME NEW t \in new, e = t[1]  PROVE position = e
          <6>1. t[2] \in first..Latest /\ t[2] > processed
                /\ t[1] = EntryOf(market, first, "loose", t[2])
            BY <2>3, <5>2, TradeShape DEF RunTrades
          <6>2. t[1] # t[2]
            BY <2>3, <2>5, <3>2, <5>2, <6>1
          <6>3. RunHeld(first)[t[2] - 1] = e /\ e # 0
            BY <2>5, <5>2, <6>1, <6>2 DEF EntryOf, RunHeld
          <6>4. t[2] - 1 \in (first - 1)..Latest /\ processed <= t[2] - 1
            BY <2>3, <6>1
          <6>. HIDE DEF new, open
          <6>. QED  BY <2>1, <3>2, <6>3, <6>4, HeldPastMark
        <5>. QED  BY <2>5, <5>1, <5>2
      <4>. QED  BY <2>4, <2>5, <4>1 DEF EveryTradeAnnounced
    <3>. QED  BY <2>3, <2>5, <3>1, <3>2
  <2>6. \A t \in new : t[1] # 0 /\ t[1] \in Int /\ <<"exit", t[2]>> \in outbox'
    <3>1. SUFFICES ASSUME NEW t \in new
                   PROVE  t[1] # 0 /\ t[1] \in Int /\ <<"exit", t[2]>> \in outbox'
      OBVIOUS
    <3>2. t[1] \in (first + 1)..t[2] /\ t[2] \in first..Latest
      BY <2>3, TradeShape DEF RunTrades
    <3>3. <<"exit", t[2]>> \in Events(new, open, processed)
      <4>. HIDE DEF new, open
      <4>. QED  BY DEF Events
    <3>. HIDE DEF new, open
    <3>. QED  BY <2>3, <2>4, <3>2, <3>3
  <2>7. open # 0 => open \in Int
    <3>1. Latest \in (first - 1)..MaxHour
      BY <2>3
    <3>2. open # 0 => open \in (first + 1)..Latest
      BY <3>1, HeldSince DEF RunHeld
    <3>. HIDE DEF open
    <3>. QED  BY <3>2
  <2>. HIDE DEF new, open
  <2>. QED  BY <2>4, <2>5, <2>6, <2>7 DEF EveryTradeAnnounced
<1>. QED  BY <1>0, <1>1, <1>2, NextSplits

\* record_cycle_atomically enqueues an event for each entry past the mark and
\* each new exit, in the transaction that records them.  A trade found in one catch-up
\* cycle may have been entered behind the mark: that entry is then the position
\* recorded there, and announced already.
THEOREM EveryTradeAlwaysAnnounced == SteadyFilters => (Spec => []EveryTradeAnnounced)
<1> SUFFICES ASSUME SteadyFilters  PROVE Spec => []EveryTradeAnnounced
  OBVIOUS
<1>. DEFINE Inv == ShadowInv /\ FiltersInv /\ RowsInv /\ EveryTradeAnnounced
<1>1. Init => Inv
  BY ShadowInit, FiltersInit DEF Init, RowsInv, EveryTradeAnnounced
<1>2. Inv /\ [Next]_vars => Inv'
  BY ShadowStep, FiltersStep, RowsStep, AnnouncedStep DEF ShadowInv
<1>3. Inv => EveryTradeAnnounced
  OBVIOUS
<1>. QED  BY <1>1, <1>2, <1>3, PTL DEF Spec

-----------------------------------------------------------------------------
(* An entry announced does not vanish.                                     *)

\* Every hour's candle appears.
NoGaps == "missing" \notin Moves

NoGapInv == candles = 1..Latest

LEMMA LatestOfInterval ==
  ASSUME NEW n \in Nat, candles = 1..n
  PROVE  Latest = n
<1>1. n \in candles \cup {0} /\ \A g \in candles : g <= n
  OBVIOUS
<1>2. Latest \in candles \cup {0} /\ \A g \in candles : g <= Latest
  BY <1>1 DEF Latest
<1>. QED  BY <1>1, <1>2

LEMMA NoGapInit == Init => NoGapInv
<1> SUFFICES ASSUME Init  PROVE NoGapInv
  OBVIOUS
<1>1. 0 \in Nat /\ candles = 1..0
  BY DEF Init
<1>. QED  BY <1>1, LatestOfInterval DEF NoGapInv

LEMMA NoGapStep ==
  ASSUME NoGaps, TypeOK, FiltersInv, NoGapInv, [Next]_vars
  PROVE  NoGapInv'
<1>. USE DEF disk
<1>0. Latest \in 0..hour /\ hour \in 0..MaxHour /\ MaxHour \in Nat
  BY LatestFacts, ShadowAssumption DEF TypeOK
<1>1. CASE candles' = candles
  BY <1>1 DEF NoGapInv, Latest
<1>2. ASSUME NEW c \in Cycles, StoreCandles(c)  PROVE NoGapInv'
  <2>. DEFINE n == IF hour <= Latest + PageSize THEN hour ELSE Latest + PageSize
  <2>1. PageSize \in Nat \ {0} /\ n \in Nat /\ n >= Latest /\ n <= hour
    BY <1>0, ShadowAssumption
  <2>2. \A h \in (Latest + 1)..hour : Completed(Latest + 1, h) = (Latest + 1)..h
    <3>1. \A h \in 1..hour : market[h] # "missing"
      BY <1>0 DEF NoGaps, FiltersInv, Hours
    <3>. QED  BY <1>0, <3>1 DEF Completed
  <2>3. \A h \in (Latest + 1)..hour : Cardinality((Latest + 1)..h) = h - Latest
    <3>1. SUFFICES ASSUME NEW h \in (Latest + 1)..hour
                   PROVE  Cardinality((Latest + 1)..h) = h - Latest
      OBVIOUS
    <3>2. Latest + 1 \in Int /\ h \in Int /\ Latest + 1 <= h
      BY <1>0
    <3>3. Cardinality((Latest + 1)..h) = h - (Latest + 1) + 1
      BY <3>2, FS_Interval
    <3>. QED  BY <1>0, <3>2, <3>3
  <2>4. Completed(Latest + 1, hour) = (Latest + 1)..hour
    <3>1. CASE hour \in (Latest + 1)..hour
      BY <2>2, <3>1
    <3>2. CASE hour \notin (Latest + 1)..hour
      BY <1>0, <3>2 DEF Completed
    <3>. QED  BY <3>1, <3>2
  <2>5. Fetched = {h \in (Latest + 1)..hour : h - Latest <= PageSize}
    BY <2>2, <2>3, <2>4 DEF Fetched
  <2>6. Fetched = (Latest + 1)..n
    <3>1. \A h \in (Latest + 1)..hour : h - Latest <= PageSize <=> h <= n
      BY <1>0, <2>1
    <3>. HIDE DEF n
    <3>. QED  BY <1>0, <2>1, <2>5, <3>1
  <2>. HIDE DEF n
  <2>7. candles' = 1..n
    BY <1>0, <1>2, <2>1, <2>6 DEF StoreCandles, NoGapInv
  <2>8. n \in candles' \cup {0} /\ \A g \in candles' : g <= n
    BY <2>1, <2>7
  <2>9. Latest' \in candles' \cup {0} /\ \A g \in candles' : g <= Latest'
    BY <2>8 DEF Latest
  <2>10. Latest' = n
    BY <2>1, <2>7, <2>8, <2>9
  <2>. QED  BY <2>7, <2>10 DEF NoGapInv
<1>3. candles' = candles \/ \E c \in Cycles : StoreCandles(c)
  BY DEF Next, vars, Tick, ChangeFilters, StoreWarmup, RecordBootstrap, Cycle, Crash, BeginCycle,
     ReadState, SkipCycle, RecordCycle, Deliver
<1>. QED  BY <1>1, <1>2, <1>3

LEMMA AccountedStep ==
  ASSUME SteadyFilters, ShadowInv, FiltersInv, RowsInv, NoGapInv, EntryAccounted, [Next]_vars
  PROVE  EntryAccounted'
<1>0. TypeOK /\ MarkInv
  BY DEF ShadowInv
<1>1. CASE QuietStep
  BY <1>1 DEF QuietStep, EntryAccounted
<1>2. ASSUME NEW c \in Cycles, RecordCycle(c)  PROVE EntryAccounted'
  <2>1. PICK first \in Hours :
          /\ first = FirstScored(Latest)
          /\ Latest \in candles /\ Latest \in Hours /\ processed < Latest
          /\ SegmentStart(Latest) <= first /\ first <= Latest
          /\ trades' = trades \cup {t \in TradesIn(market, first, Latest, filters) : t[2] > processed}
          /\ outbox' = outbox \cup Events({t \in TradesIn(market, first, Latest, filters) :
                                             t[2] > processed},
                                          HeldIn(market, first, filters)[Latest], processed)
          /\ position' = HeldIn(market, first, filters)[Latest]
    BY <1>2, RecordEffect
  <2>2. /\ HeldIn(market, first, filters)[Latest] = RunHeld(first)[Latest]
        /\ TradesIn(market, first, Latest, filters) = RunTrades(first, Latest)
    <3>1. Latest \in first..MaxHour
      BY <2>1, ShadowAssumption DEF Hours
    <3>. QED  BY <1>0, <3>1, RunIgnoresFilters
  <2>3. /\ Latest \in 0..MaxHour /\ Latest \in Nat \ {0} /\ first \in Nat \ {0}
        /\ processed \in Nat /\ MaxHour \in Nat
    BY <1>0, <2>1, ShadowAssumption DEF Hours, TypeOK
  <2>. DEFINE new  == {t \in RunTrades(first, Latest) : t[2] > processed}
              open == RunHeld(first)[Latest]
  <2>4. /\ trades' = trades \cup new /\ position' = open
        /\ outbox' = outbox \cup Events(new, open, processed)
    BY <2>1, <2>2
  <2>5. SegmentStart(Latest) = 1
    <3>1. /\ SegmentStart(Latest) \in 1..Latest
          /\ SegmentStart(Latest) = 1 \/ SegmentStart(Latest) - 1 \notin candles
      BY <2>1, <2>3, StartBegins, FirstIsFirstIn DEF Begins
    <3>. QED  BY <2>3, <3>1 DEF NoGapInv
  <2>6. SUFFICES ASSUME NEW e \in outbox', e[1] = "entry"
                 PROVE  position' = e[2] \/ \E t \in trades' : t[1] = e[2]
    BY DEF EntryAccounted
  <2>7. CASE e \in Events(new, open, processed)
    <3>1. e[2] \in {open} \cup {t[1] : t \in new}
      <4>. HIDE DEF new, open
      <4>. QED  BY <2>6, <2>7 DEF Events
    <3>. HIDE DEF new, open
    <3>. QED  BY <2>4, <3>1
  <2>8. CASE e \in outbox /\ \E t \in trades : t[1] = e[2]
    BY <2>1, <2>8
  <2>9. CASE e \in outbox /\ position = e[2]
    <3>1. e[2] # 0
      BY <1>0, <2>9 DEF TypeOK, Hours
    <3>2. processed # 0 /\ first = FirstScored(processed)
      <4>1. processed # 0
        BY <2>9, <3>1 DEF RowsInv
      <4>. QED  BY <2>1, <2>3, <2>5, <4>1, SameOrLaterSegment
    <3>3. RunHeld(first)[processed] = e[2] /\ first <= processed
      BY <1>0, <2>9, <3>2 DEF RowsInv, MarkInv
    <3>4. processed \in (first - 1)..MaxHour /\ Latest \in processed..MaxHour
      BY <2>1, <2>3, <3>3
    <3>5. \/ open = e[2]
          \/ \E x \in (processed + 1)..Latest :
               ExitsIn(market, x) /\ RunHeld(first)[x - 1] = e[2]
      BY <3>1, <3>3, <3>4, HeldUntil DEF RunHeld
    <3>6. ASSUME NEW x \in (processed + 1)..Latest, ExitsIn(market, x), RunHeld(first)[x - 1] = e[2]
          PROVE  <<e[2], x>> \in new
      <4>1. Closes(market, first, "loose", x) /\ EntryOf(market, first, "loose", x) = e[2]
        BY <3>1, <3>6 DEF Closes, EntryOf, RunHeld
      <4>2. x \in first..Latest /\ x > processed
        BY <2>3, <3>3
      <4>. QED  BY <4>1, <4>2, TradesByExit DEF RunTrades
    <3>. HIDE DEF new, open
    <3>7. CASE open = e[2]
      BY <2>4, <3>7
    <3>8. CASE \E x \in (processed + 1)..Latest :
                 ExitsIn(market, x) /\ RunHeld(first)[x - 1] = e[2]
      <4>1. PICK x \in (processed + 1)..Latest :
                   ExitsIn(market, x) /\ RunHeld(first)[x - 1] = e[2]
        BY <3>8
      <4>2. <<e[2], x>> \in trades'
        BY <2>4, <3>6, <4>1
      <4>3. <<e[2], x>>[1] = e[2]
        OBVIOUS
      <4>. QED  BY <4>2, <4>3
    <3>. QED  BY <3>5, <3>7, <3>8
  <2>. HIDE DEF new, open
  <2>10. e \in outbox \/ e \in Events(new, open, processed)
    BY <2>4
  <2>. QED  BY <2>6, <2>7, <2>8, <2>9, <2>10 DEF EntryAccounted
<1>. QED  BY <1>0, <1>1, <1>2, NextSplits

\* An entry once announced is the recorded position or has become a trade: the
\* segment that continues the warm-up is always the one run again, and a run holds
\* a position until the hour that exits it.  A gap would start another segment
\* without the position, and a change of the filters another run.
THEOREM EntryAlwaysAccounted == SteadyFilters /\ NoGaps => (Spec => []EntryAccounted)
<1> SUFFICES ASSUME SteadyFilters, NoGaps  PROVE Spec => []EntryAccounted
  OBVIOUS
<1>. DEFINE Inv == ShadowInv /\ FiltersInv /\ RowsInv /\ NoGapInv /\ EntryAccounted
<1>1. Init => Inv
  BY ShadowInit, FiltersInit, NoGapInit DEF Init, RowsInv, EntryAccounted
<1>2. Inv /\ [Next]_vars => Inv'
  BY ShadowStep, FiltersStep, RowsStep, NoGapStep, AccountedStep DEF ShadowInv
<1>3. Inv => EntryAccounted
  OBVIOUS
<1>. QED  BY <1>1, <1>2, <1>3, PTL DEF Spec
=============================================================================
