--------------------------- MODULE BurstStepProofs ---------------------------
(***************************************************************************)
(* What step() and stepTimes() of burst.cpp return, for every time a host  *)
(* can send.                                                               *)
(***************************************************************************)
EXTENDS BurstStep, TLAPS

-----------------------------------------------------------------------------
(* The table. *)

\* The eleven rungs of legalValues, burst.cpp's table of times up to a minute.
LEMMA Rungs ==
  /\ DOMAIN legalValues = 1 .. 11
  /\ legalValues[1] = 1600     /\ legalValues[2] = 3200
  /\ legalValues[3] = 8000     /\ legalValues[4] = 16000
  /\ legalValues[5] = 32000    /\ legalValues[6] = 64000
  /\ legalValues[7] = 128000   /\ legalValues[8] = 256000
  /\ legalValues[9] = 512000   /\ legalValues[10] = 1024000
  /\ legalValues[11] = 1920000
BY SMT DEF legalValues

\* Every rung is a whole number of milliseconds and of 50 ms turns.
LEMMA RungValue ==
  ASSUME NEW i \in 1 .. 11
  PROVE  /\ legalValues[i] \in Nat
         /\ 1600 <= legalValues[i] /\ legalValues[i] <= 1920000
         /\ legalValues[i] % 32 = 0
         /\ legalValues[i] % 1600 = 0
BY SMT, Rungs

\* The table is in ascending order.
LEMMA RungsAscend ==
  ASSUME NEW i \in 1 .. 11, NEW j \in 1 .. 11, i < j
  PROVE  legalValues[i] < legalValues[j]
BY SMT, Rungs

\* The loop of step() stops at one rung for every time up to one minute.
LEMMA RungFound ==
  ASSUME NEW t \in Nat, t <= 1920000
  PROVE  /\ Rung(t) \in 1 .. 11
         /\ t <= legalValues[Rung(t)]
         /\ Rung(t) > 1 => legalValues[Rung(t) - 1] < t
<1> DEFINE P(i) == /\ t <= legalValues[i]
                   /\ i > 1 => legalValues[i - 1] < t
<1>1. \E i \in 1 .. 11 : P(i)
  <2>1. /\ t <= 1600 => P(1)
        /\ 1600 < t /\ t <= 3200 => P(2)
        /\ 3200 < t /\ t <= 8000 => P(3)
        /\ 8000 < t /\ t <= 16000 => P(4)
        /\ 16000 < t /\ t <= 32000 => P(5)
        /\ 32000 < t /\ t <= 64000 => P(6)
        /\ 64000 < t /\ t <= 128000 => P(7)
        /\ 128000 < t /\ t <= 256000 => P(8)
        /\ 256000 < t /\ t <= 512000 => P(9)
        /\ 512000 < t /\ t <= 1024000 => P(10)
        /\ 1024000 < t => P(11)
    BY SMT, Rungs
  <2> HIDE DEF P
  <2>2. \/ P(1) \/ P(2) \/ P(3) \/ P(4) \/ P(5) \/ P(6) \/ P(7) \/ P(8)
        \/ P(9) \/ P(10) \/ P(11)
    BY SMT, <2>1
  <2> QED
    BY SMT, <2>2
<1>2. Rung(t) = CHOOSE i \in 1 .. 11 : P(i)
  BY SMT, Rungs DEF Rung
<1> HIDE DEF P
<1>3. Rung(t) \in 1 .. 11 /\ P(Rung(t))
  BY SMT, <1>1, <1>2
<1> QED
  BY SMT, <1>3 DEF P

-----------------------------------------------------------------------------
(* The legal times. *)

\* A legal time is a rung, or a whole number of seconds above them all.
LEMMA LegalCases ==
  ASSUME NEW v \in LegalTimes
  PROVE  /\ v \in Nat
         /\ \/ \E i \in 1 .. 11 : v = legalValues[i]
            \/ \E n \in Nat : 60 <= n /\ n <= 3600 /\ v = n * 32000
<1>1. CASE v \in {legalValues[i] : i \in DOMAIN legalValues}
  BY SMT, <1>1, Rungs, RungValue
<1>2. CASE v \in {n * 32000 : n \in 60 .. 3600}
  <2>1. PICK n \in 60 .. 3600 : v = n * 32000
    BY <1>2
  <2>2. n \in Nat /\ 60 <= n /\ n <= 3600
    BY SMT, <2>1
  <2> QED
    BY SMT, <2>1, <2>2
<1> QED
  BY SMT, <1>1, <1>2 DEF LegalTimes, ONE_SECOND

\* No legal time lies between two neighbouring rungs.
LEMMA NoneBetweenRungs ==
  ASSUME NEW v \in LegalTimes, NEW i \in 1 .. 11
  PROVE  /\ v < legalValues[i] => i > 1 /\ v <= legalValues[i - 1]
         /\ i > 1 /\ v > legalValues[i - 1] => v >= legalValues[i]
<1>1. CASE \E j \in 1 .. 11 : v = legalValues[j]
  <2>1. PICK j \in 1 .. 11 : v = legalValues[j]
    BY <1>1
  <2> QED
    BY SMT, <2>1, Rungs
<1>2. CASE \E n \in Nat : 60 <= n /\ n <= 3600 /\ v = n * 32000
  <2>1. v \in Nat /\ v >= 1920000
    BY SMT, <1>2
  <2> QED
    BY SMT, <2>1, Rungs
<1> QED
  BY SMT, <1>1, <1>2, LegalCases

\* Every rung is legal, and every whole second from a minute to an hour.
LEMMA RungIsLegal ==
  ASSUME NEW i \in 1 .. 11
  PROVE  legalValues[i] \in LegalTimes
<1>1. i \in DOMAIN legalValues
  BY Rungs
<1>2. legalValues[i] \in {legalValues[j] : j \in DOMAIN legalValues}
  BY <1>1, Zenon
<1> QED
  BY SMT, <1>2 DEF LegalTimes

LEMMA SecondIsLegal ==
  ASSUME NEW n \in Nat, 60 <= n, n <= 3600
  PROVE  n * 32000 \in LegalTimes
<1> DEFINE Seconds == 60 .. 3600
           whole(k) == k * 32000
<1>1. n \in Seconds
  BY SMT
<1>2. LegalTimes = {legalValues[i] : i \in DOMAIN legalValues}
                     \union {whole(k) : k \in Seconds}
  BY SMT DEF LegalTimes, ONE_SECOND
<1> HIDE DEF Seconds, whole
<1>3. whole(n) \in LegalTimes
  BY SMT, <1>1, <1>2
<1> QED
  BY SMT, <1>3 DEF whole

-----------------------------------------------------------------------------
(* step(): what it does with one time. *)

\* The time step() settles on, t, is separated from every other legal time v
\* by the point half way between the two: this is "the closest, and the higher
\* of two that are equally close" without the absolute values.
Nearest(t, a) == \A v \in LegalTimes : /\ v > a => 2 * t < a + v
                                       /\ v < a => 2 * t >= a + v

\* Up to one minute step() settles on a rung.
LEMMA ClosestRungIsNearest ==
  ASSUME NEW t \in Nat, t <= 1920000
  PROVE  /\ ClosestRung(t) * 32 \in LegalTimes
         /\ ClosestRung(t) \in Nat
         /\ Nearest(t, ClosestRung(t) * 32)
<1> DEFINE i == Rung(t)
           h == legalValues[i]
           l == IF i = 1 THEN 0 ELSE legalValues[i - 1]
           a == IF l # 0 /\ t # h /\ t - l < h - t THEN l ELSE h
<1>1. i \in 1 .. 11 /\ t <= h /\ (i > 1 => legalValues[i - 1] < t)
  BY SMT, RungFound
<1>2. h \in Nat /\ 1600 <= h /\ h <= 1920000 /\ h % 32 = 0
  BY SMT, <1>1, RungValue
<1>3. /\ i = 1 => l = 0
      /\ i > 1 => /\ i - 1 \in 1 .. 11 /\ l = legalValues[i - 1]
                  /\ l \in Nat /\ 1600 <= l /\ l % 32 = 0 /\ l < t
  <2>1. CASE i = 1
    BY SMT, <2>1
  <2>2. CASE i > 1
    <3>1. i - 1 \in 1 .. 11
      BY SMT, <1>1, <2>2
    <3> QED
      BY SMT, <1>1, <2>2, <3>1, RungValue
  <2> QED
    BY SMT, <1>1, <2>1, <2>2
<1>4. ClosestRung(t) = a \div 32
  BY SMT DEF ClosestRung, setStep
<1> HIDE DEF i
<1>5. l < h /\ l \in Nat
  BY SMT, <1>1, <1>2, <1>3
<1>6. a \in Nat /\ a % 32 = 0 /\ (a = h \/ (i > 1 /\ a = l))
  BY SMT, <1>1, <1>2, <1>3, <1>5
<1>7. a \in LegalTimes
  BY SMT, <1>1, <1>3, <1>6, RungIsLegal
<1>8. ASSUME NEW v \in LegalTimes
      PROVE  /\ v > a => 2 * t < a + v
             /\ v < a => 2 * t >= a + v
  <2>1. /\ v \in Nat
        /\ v < h => i > 1 /\ v <= l
        /\ i > 1 /\ v > l => v >= h
    BY SMT, <1>1, <1>3, LegalCases, NoneBetweenRungs
  <2>2. CASE l # 0 /\ t # h /\ t - l < h - t
    BY SMT, <1>1, <1>2, <1>3, <1>5, <2>1, <2>2
  <2>3. CASE ~ (l # 0 /\ t # h /\ t - l < h - t)
    BY SMT, <1>1, <1>2, <1>3, <1>5, <2>1, <2>3
  <2> QED
    BY SMT, <2>2, <2>3
<1> HIDE DEF a
<1>9. ClosestRung(t) * 32 = a /\ ClosestRung(t) \in Nat
  BY SMT, <1>4, <1>6
<1> QED
  BY SMT, <1>7, <1>8, <1>9 DEF Nearest

\* Above one minute it settles on a whole second.
LEMMA WholeSecondsIsNearest ==
  ASSUME NEW t \in Nat, t > 1920000
  PROVE  /\ WholeSeconds(t) * 32 \in LegalTimes
         /\ WholeSeconds(t) \in Nat
         /\ Nearest(t, WholeSeconds(t) * 32)
<1> DEFINE capped == IF t > 115200000 THEN 115200000 ELSE t
           rounded == IF capped % 32000 >= 16000
                      THEN capped + 16000
                      ELSE capped
           k == rounded \div 32000
<1>1. WholeSeconds(t) = k * 1000
  BY SMT DEF WholeSeconds, MAX_LEGAL_CNTS, ONE_SECOND, HALF_A_SEC
<1>2. /\ k \in Nat /\ 60 <= k /\ k <= 3600
      /\ k * 32000 <= capped + 16000 /\ capped < k * 32000 + 16000
  <2>1. capped \in Nat /\ 1920000 < capped /\ capped <= 115200000
    BY SMT
  <2> HIDE DEF capped
  <2> DEFINE q == capped \div 32000
             r == capped % 32000
  <2>2. /\ q \in Nat /\ r \in Nat /\ capped = q * 32000 + r /\ r < 32000
        /\ 60 <= q /\ q <= 3600 /\ (q = 3600 => r = 0)
    BY SMT, <2>1
  <2>3. k = IF r >= 16000 THEN q + 1 ELSE q
    BY SMT, <2>1, <2>2
  <2> HIDE DEF q, r, k
  <2> QED
    BY SMT, <2>2, <2>3
<1> HIDE DEF k
<1>3. WholeSeconds(t) \in Nat /\ WholeSeconds(t) * 32 = k * 32000
  BY SMT, <1>1, <1>2
<1>4. ASSUME NEW v \in LegalTimes
      PROVE  /\ v > k * 32000 => 2 * t < k * 32000 + v
             /\ v < k * 32000 => 2 * t >= k * 32000 + v
  <2>1. CASE \E i \in 1 .. 11 : v = legalValues[i]
    <3>1. v \in Nat /\ v <= 1920000
      BY SMT, <2>1, RungValue
    <3> QED
      BY SMT, <1>2, <3>1
  <2>2. CASE \E n \in Nat : 60 <= n /\ n <= 3600 /\ v = n * 32000
    <3>1. PICK n \in Nat : 60 <= n /\ n <= 3600 /\ v = n * 32000
      BY <2>2
    <3> QED
      BY SMT, <1>2, <3>1
  <2> QED
    BY SMT, <2>1, <2>2, LegalCases
<1> QED
  BY SMT, <1>2, <1>3, <1>4, SecondIsLegal DEF Nearest

\* A time step() leaves alone is legal, and it is the one step() settles on.
LEMMA UnchangedIsLegal ==
  ASSUME NEW t \in Nat, ~ stepChanges(t)
  PROVE  t \in LegalTimes /\ step(t).ret * 32 = t /\ step(t).ret \in Nat
<1>1. CASE t <= 1920000
  <2>1. t = legalValues[Rung(t)] /\ Rung(t) \in 1 .. 11
    BY SMT, <1>1, RungFound DEF stepChanges, ONE_MINUTE
  <2>2. t % 32 = 0 /\ t \in LegalTimes
    BY SMT, <2>1, RungValue, RungIsLegal
  <2>3. ClosestRung(t) = t \div 32
    BY SMT, <2>1 DEF ClosestRung, setStep
  <2> QED
    BY SMT, <1>1, <2>2, <2>3 DEF step, ONE_MINUTE
<1>2. CASE t > 1920000
  <2> DEFINE n == t \div 32000
  <2>1. /\ t <= 115200000 /\ t % 32000 = 0
    BY SMT, <1>2 DEF stepChanges, ONE_MINUTE, MAX_LEGAL_CNTS, ONE_SECOND
  <2>2. n \in Nat /\ 60 <= n /\ n <= 3600 /\ t = n * 32000
    BY SMT, <1>2, <2>1
  <2>3. WholeSeconds(t) = n * 1000
    BY SMT, <2>1 DEF WholeSeconds, MAX_LEGAL_CNTS, ONE_SECOND, HALF_A_SEC
  <2>4. step(t).ret = n * 1000
    BY SMT, <1>2, <2>3 DEF step, ONE_MINUTE
  <2> HIDE DEF n
  <2> QED
    BY SMT, <2>2, <2>4, SecondIsLegal
<1> QED
  BY SMT, <1>1, <1>2

\* What step() writes back is a legal time, none is closer to what it was
\* given, and the milliseconds to use are those of the time written back.
THEOREM StepIsNearest ==
  ASSUME NEW t \in Nat
  PROVE  /\ step(t).aTime \in LegalTimes
         /\ Nearest(t, step(t).aTime)
         /\ step(t).ret \in Nat
         /\ step(t).ret * 32 = step(t).aTime
         /\ step(t).rc = IF step(t).aTime = t THEN RC_SUCCESS ELSE RC_WARN_8
<1>1. /\ step(t).ret * 32 \in LegalTimes
      /\ step(t).ret \in Nat
      /\ Nearest(t, step(t).ret * 32)
  <2>1. CASE t <= 1920000
    BY SMT, <2>1, ClosestRungIsNearest DEF step, ONE_MINUTE
  <2>2. CASE t > 1920000
    BY SMT, <2>2, WholeSecondsIsNearest DEF step, ONE_MINUTE
  <2> QED
    BY SMT, <2>1, <2>2
<1>2. CASE ~ stepChanges(t)
  <2>1. step(t).aTime = t /\ step(t).rc = RC_SUCCESS
    BY SMT, <1>2 DEF step
  <2> QED
    BY SMT, <1>1, <1>2, <2>1, UnchangedIsLegal
<1>3. CASE stepChanges(t)
  <2>1. step(t).aTime = step(t).ret * 32 /\ step(t).rc = RC_WARN_8
    BY SMT, <1>3 DEF step
  <2>2. ASSUME t \in LegalTimes PROVE FALSE
    <3>1. CASE t <= 1920000
      <4> DEFINE i == Rung(t)
      <4>1. /\ i \in 1 .. 11 /\ t <= legalValues[i]
            /\ i > 1 => legalValues[i - 1] < t
        BY SMT, <3>1, RungFound
      <4>2. t # legalValues[i] /\ legalValues[i] \in Nat
        BY SMT, <1>3, <3>1, <4>1, RungValue DEF stepChanges, ONE_MINUTE
      <4> HIDE DEF i
      <4>3. /\ t < legalValues[i] => i > 1
            /\ i > 1 /\ t > legalValues[i - 1] => t >= legalValues[i]
        BY <2>2, <4>1, NoneBetweenRungs
      <4> QED
        BY SMT, <4>1, <4>2, <4>3
    <3>2. CASE t > 1920000
      <4>1. PICK n \in Nat : 60 <= n /\ n <= 3600 /\ t = n * 32000
        BY SMT, <2>2, <3>2, LegalCases, RungValue
      <4> QED
        BY SMT, <1>3, <3>2, <4>1
        DEF stepChanges, ONE_MINUTE, MAX_LEGAL_CNTS, ONE_SECOND
    <3> QED
      BY SMT, <3>1, <3>2
  <2> QED
    BY SMT, <1>1, <2>1, <2>2
<1> QED
  BY SMT, <1>2, <1>3

\* A time of the table is left alone: stepping twice changes nothing more.
THEOREM StepKeepsLegal ==
  ASSUME NEW t \in LegalTimes
  PROVE  step(t).aTime = t /\ step(t).rc = RC_SUCCESS
<1>1. t \in Nat /\ step(t).aTime \in Nat
  BY SMT, LegalCases, StepIsNearest
<1> DEFINE a == step(t).aTime
<1>2. Nearest(t, a) /\ step(t).rc = IF a = t THEN RC_SUCCESS ELSE RC_WARN_8
  BY <1>1, StepIsNearest
<1> HIDE DEF a
<1>3. /\ t > a => 2 * t < a + t
      /\ t < a => 2 * t >= a + t
  BY <1>2 DEF Nearest
<1>4. a = t
  BY SMT, <1>1, <1>3 DEF a
<1> QED
  BY <1>2, <1>4 DEF a

\* Stepping keeps the order of two times.
THEOREM StepIsMonotone ==
  ASSUME NEW t \in Nat, NEW u \in Nat, t <= u
  PROVE  step(t).aTime <= step(u).aTime
<1> DEFINE a == step(t).aTime
           b == step(u).aTime
<1>1. /\ a \in LegalTimes /\ a \in Nat /\ Nearest(t, a)
      /\ b \in LegalTimes /\ b \in Nat /\ Nearest(u, b)
  BY SMT, StepIsNearest, LegalCases
<1> HIDE DEF a, b
<1>2. /\ b < a => 2 * t >= a + b
      /\ a > b => 2 * u < b + a
  BY <1>1 DEF Nearest
<1>3. a <= b
  BY SMT, <1>1, <1>2
<1> QED
  BY <1>3 DEF a, b

\* stepTimes(): both times come from the table and in order, the counts are
\* their milliseconds, and the warning is given exactly when one was changed.
THEOREM StepTimesSettles ==
  ASSUME NEW p \in Nat, NEW m \in Nat
  PROVE  LET r == stepTimes(p, m)
             clamped == IF p > m THEN m ELSE p
         IN  /\ r.Period \in LegalTimes /\ Nearest(clamped, r.Period)
             /\ r.MaxPer \in LegalTimes /\ Nearest(m, r.MaxPer)
             /\ r.Period <= r.MaxPer
             /\ r.ticks \in Nat /\ r.ticks * 32 = r.Period
             /\ r.maxTicks \in Nat /\ r.maxTicks * 32 = r.MaxPer
             /\ r.rc \in {RC_SUCCESS, RC_WARN_8}
             /\ r.rc = RC_WARN_8 <=> <<p, m>> # <<r.Period, r.MaxPer>>
<1> DEFINE r == stepTimes(p, m)
           clamped == IF p > m THEN m ELSE p
<1>1. clamped \in Nat /\ clamped <= m /\ (clamped = p \/ clamped < p)
  BY SMT
<1>2. /\ r.Period = step(clamped).aTime /\ r.MaxPer = step(m).aTime
      /\ r.ticks = step(clamped).ret /\ r.maxTicks = step(m).ret
      /\ r.rc = IF step(clamped).rc = 0 /\ step(m).rc = 0 /\ clamped = p
                THEN RC_SUCCESS ELSE RC_WARN_8
  BY SMT DEF stepTimes
<1>3. /\ step(clamped).rc = IF step(clamped).aTime = clamped THEN 0 ELSE 8
      /\ step(m).rc = IF step(m).aTime = m THEN 0 ELSE 8
  BY SMT, <1>1, StepIsNearest DEF RC_SUCCESS, RC_WARN_8
<1>4. r.Period <= r.MaxPer
  BY SMT, <1>1, <1>2, StepIsMonotone
<1>5. r.rc = 8 <=> <<p, m>> # <<r.Period, r.MaxPer>>
  <2>1. CASE clamped = p
    BY SMT, <1>2, <1>3, <2>1 DEF RC_SUCCESS, RC_WARN_8
  <2>2. CASE clamped # p
    \* Then the period was above the maximum period, and is not any more.
    <3>1. clamped = m /\ m < p
      BY SMT, <2>2
    <3>2. r.Period = r.MaxPer /\ r.rc = 8
      BY SMT, <1>2, <2>2, <3>1 DEF RC_SUCCESS, RC_WARN_8
    <3> QED
      BY SMT, <3>1, <3>2
  <2> QED
    BY <2>1, <2>2
<1>6. r.rc \in {0, 8}
  BY SMT, <1>2 DEF RC_SUCCESS, RC_WARN_8
<1> HIDE DEF r
<1> QED
  BY SMT, <1>1, <1>2, <1>4, <1>5, <1>6, StepIsNearest
  DEF r, RC_SUCCESS, RC_WARN_8
=============================================================================
