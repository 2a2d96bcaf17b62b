-------------------------- MODULE BurstTimesProofs --------------------------
(***************************************************************************)
(* The properties of BurstTimes, for every pair of times a host sends and  *)
(* every pair the factory writes.                                          *)
(***************************************************************************)
EXTENDS BurstTimes, BurstStepProofs

\* A legal time is one or more whole turns of the 50 ms loop.
LEMMA LegalIsWholeTurns ==
  ASSUME NEW v \in LegalTimes
  PROVE  /\ v \in Nat /\ v \div 1600 \in Nat
         /\ v \div 1600 >= 1
         /\ (v \div 1600) * 1600 = v
<1>1. CASE \E i \in 1 .. 11 : v = legalValues[i]
  BY SMT, <1>1, RungValue
<1>2. CASE \E n \in Nat : 60 <= n /\ n <= 3600 /\ v = n * 32000
  <2>1. PICK n \in Nat : 60 <= n /\ n <= 3600 /\ v = n * 32000
    BY <1>2
  <2> QED
    BY SMT, <2>1
<1> QED
  BY SMT, <1>1, <1>2, LegalCases

-----------------------------------------------------------------------------
(* The inductive invariant: what the last command 103 was asked, and the times
   it settled on; and once the message is on, its counts. *)

Settled ==
  asked # <<>> =>
    /\ asked \in Nat \X Nat
    /\ Period \in LegalTimes /\ MaxPer \in LegalTimes /\ Period <= MaxPer
    /\ Nearest(IF asked[1] > asked[2] THEN asked[2] ELSE asked[1], Period)
    /\ Nearest(asked[2], MaxPer)

Warned ==
  stage = "settled" => /\ asked # <<>>
                       /\ rc = RC_WARN_8 <=> asked # <<Period, MaxPer>>

Counted ==
  stage = "on" => /\ ticks = Period \div ticksPer50mS
                  /\ maxTicks = MaxPer \div ticksPer50mS

SettleInv == TypeOK /\ Settled /\ Warned /\ Counted

\* Command 103 establishes the invariant whatever it is sent.
LEMMA SettleEstablishes ==
  ASSUME NEW p \in Nat, NEW m \in Nat, Settle(p, m)
  PROVE  SettleInv'
<1> DEFINE r == stepTimes(p, m)
           clamped == IF p > m THEN m ELSE p
<1>1. /\ r.Period \in LegalTimes /\ Nearest(clamped, r.Period)
      /\ r.MaxPer \in LegalTimes /\ Nearest(m, r.MaxPer)
      /\ r.Period <= r.MaxPer
      /\ r.ticks \in Nat
      /\ r.maxTicks \in Nat
      /\ r.rc \in {RC_SUCCESS, RC_WARN_8}
      /\ r.rc = RC_WARN_8 <=> <<p, m>> # <<r.Period, r.MaxPer>>
  BY StepTimesSettles
<1>2. r.Period \in Nat /\ r.MaxPer \in Nat
  BY <1>1, LegalCases
<1>3. /\ Period' = r.Period /\ MaxPer' = r.MaxPer
      /\ ticks' = r.ticks /\ maxTicks' = r.maxTicks /\ rc' = r.rc
      /\ asked' = <<p, m>> /\ stage' = "settled"
  BY DEF Settle
<1> HIDE DEF r
<1>4. asked' # <<>> /\ asked' \in Nat \X Nat
      /\ asked'[1] = p /\ asked'[2] = m
  BY SMT, <1>3
<1>5. TypeOK'
  BY SMT, <1>1, <1>2, <1>3, <1>4 DEF TypeOK
<1>6. Settled'
  BY SMT, <1>1, <1>3, <1>4 DEF Settled
<1>7. Warned'
  BY <1>1, <1>3, <1>4 DEF Warned
<1>8. Counted'
  BY SMT, <1>3 DEF Counted
<1> QED
  BY <1>5, <1>6, <1>7, <1>8 DEF SettleInv

\* The invariant holds at the factory settings and no command breaks it.
THEOREM SettleInvariant == Spec => []SettleInv
<1>1. Init => SettleInv
  BY SMT, FactoryAssumption
  DEF Init, SettleInv, TypeOK, Settled, Warned, Counted
<1>2. SettleInv /\ [Next]_vars => SettleInv'
  <2> SUFFICES ASSUME SettleInv, [Next]_vars
               PROVE  SettleInv'
    OBVIOUS
  <2>1. CASE \E p, m \in RawTimes : Cmd103(p, m)
    BY <2>1, RawTimesAssumption, SettleEstablishes DEF Cmd103
  <2>2. CASE Cmd103Again
    BY <2>2, SettleEstablishes DEF Cmd103Again, SettleInv, TypeOK
  <2>3. CASE Cmd109On
    <3>1. TypeOK'
      BY SMT, <2>3 DEF SettleInv, TypeOK, Cmd109On, ticksPer50mS
    <3>2. Settled' /\ Warned' /\ Counted'
      BY SMT, <2>3 DEF SettleInv, Settled, Warned, Counted, Nearest, Cmd109On
    <3> QED
      BY <3>1, <3>2 DEF SettleInv
  <2>4. CASE UNCHANGED vars
    BY <2>4
    DEF vars, SettleInv, TypeOK, Settled, Warned, Counted, Nearest
  <2> QED
    BY <2>1, <2>2, <2>3, <2>4 DEF Next
<1> QED
  BY <1>1, <1>2, PTL DEF Spec

-----------------------------------------------------------------------------
(* What follows from it. *)

\* Command 103 keeps the types of the two periods, the counts and the code.
THEOREM TimesTypeOK == Spec => []TypeOK
<1>1. SettleInv => TypeOK
  BY DEF SettleInv
<1> QED
  BY <1>1, SettleInvariant, PTL

\* The device settles on times of burst.cpp's table, in order.
THEOREM TimesOnTheTable == Spec => []SettledOnTheTable
<1>1. SettleInv => SettledOnTheTable
  BY DEF SettleInv, Settled, SettledOnTheTable
<1> QED
  BY <1>1, SettleInvariant, PTL

\* No time of the table is closer to what was asked for.
THEOREM TimesOnTheClosest == Spec => []SettledOnTheClosest
<1>1. ASSUME NEW t \in Nat, NEW a \in LegalTimes, Nearest(t, a),
             NEW v \in LegalTimes
      PROVE  Distance(t, a) <= Distance(t, v)
  <2>1. /\ a \in Nat /\ v \in Nat
        /\ v > a => 2 * t < a + v
        /\ v < a => 2 * t >= a + v
    BY <1>1, LegalCases DEF Nearest
  <2> QED
    BY SMT, <2>1 DEF Distance
<1>2. SettleInv => SettledOnTheClosest
  <2> SUFFICES ASSUME SettleInv, asked # <<>>, NEW v \in LegalTimes
               PROVE  LET p == IF asked[1] > asked[2] THEN asked[2]
                                                      ELSE asked[1]
                      IN  /\ Distance(p, Period) <= Distance(p, v)
                          /\ Distance(asked[2], MaxPer)
                               <= Distance(asked[2], v)
    BY DEF SettledOnTheClosest
  <2>1. asked[1] \in Nat /\ asked[2] \in Nat
    BY SMT DEF SettleInv, Settled
  <2> QED
    BY <1>1, <2>1 DEF SettleInv, Settled
<1> QED
  BY <1>2, SettleInvariant, PTL

\* Response code 8 is given exactly when a time was changed.
THEOREM TimesWarned == Spec => []WarnsIffChanged
<1>1. SettleInv => WarnsIffChanged
  BY DEF SettleInv, Warned, WarnsIffChanged
<1> QED
  BY <1>1, SettleInvariant, PTL

\* The counts of a message that is on are its times, with nothing dropped.
THEOREM TimesWholeTicks == Spec => []WholeTicks
<1>1. SettleInv => WholeTicks
  <2> SUFFICES ASSUME SettleInv, stage = "on", asked # <<>>
               PROVE  /\ ticks >= 1
                      /\ ticks <= maxTicks
                      /\ ticks * ticksPer50mS = Period
                      /\ maxTicks * ticksPer50mS = MaxPer
    BY DEF WholeTicks
  <2>1. /\ Period \in LegalTimes /\ MaxPer \in LegalTimes
        /\ Period <= MaxPer
        /\ ticks = Period \div 1600 /\ maxTicks = MaxPer \div 1600
    BY DEF SettleInv, Settled, Counted, ticksPer50mS
  <2> QED
    BY SMT, <2>1, LegalIsWholeTurns DEF ticksPer50mS
<1> QED
  BY <1>1, SettleInvariant, PTL

\* Sending back what the device answered changes nothing and draws no warning.
THEOREM TimesStable == Spec => SettledIsStable
<1>1. SettleInv /\ [Next]_vars =>
        [Cmd103Again /\ asked # <<>> => /\ UNCHANGED <<Period, MaxPer>>
                                        /\ rc' = RC_SUCCESS]_vars
  <2> SUFFICES ASSUME SettleInv, Cmd103Again, asked # <<>>
               PROVE  Period' = Period /\ MaxPer' = MaxPer /\ rc' = RC_SUCCESS
    BY DEF vars
  <2>1. /\ Period \in LegalTimes /\ MaxPer \in LegalTimes
        /\ Period \in Nat /\ MaxPer \in Nat /\ Period <= MaxPer
    BY DEF SettleInv, Settled, TypeOK
  <2>2. /\ step(Period).aTime = Period /\ step(Period).rc = 0
        /\ step(MaxPer).aTime = MaxPer /\ step(MaxPer).rc = 0
    BY <2>1, StepKeepsLegal DEF RC_SUCCESS
  <2>3. /\ Period' = stepTimes(Period, MaxPer).Period
        /\ MaxPer' = stepTimes(Period, MaxPer).MaxPer
        /\ rc' = stepTimes(Period, MaxPer).rc
    BY DEF Cmd103Again, Settle
  <2> QED
    BY SMT, <2>1, <2>2, <2>3 DEF stepTimes, RC_SUCCESS
<1> QED
  BY <1>1, SettleInvariant, PTL DEF Spec, SettledIsStable
=============================================================================
