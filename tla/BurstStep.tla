------------------------------ MODULE BurstStep ------------------------------
(***************************************************************************)
(* The burst time arithmetic of Hip_Native/burst.cpp, as pure operators.   *)
(* A burst message keeps its two update periods in counts of 1/32 ms; the  *)
(* host may send any 32-bit value and step() moves it to the closest time  *)
(* the HART-IP table allows.  burst.cpp returns the adjusted time in the   *)
(* argument and the time "to use" in milliseconds beside it.               *)
(***************************************************************************)
EXTENDS Integers, Sequences

\* Counts of 1/32 ms in one turn of the burst thread's 50 ms loop.
ticksPer50mS == 1600

ONE_SECOND     == 32000
HALF_A_SEC     == 16000
ONE_MINUTE     == 1920000
MAX_LEGAL_CNTS == 115200000

RC_SUCCESS == 0
RC_WARN_8  == 8

\* The rungs of the table up to one minute (the 0 that ends the C array is
\* the end of the sequence).
legalValues == <<1600, 3200, 8000, 16000, 32000, 64000, 128000, 256000,
                 512000, 1024000, 1920000>>

\* Above one minute every whole second up to one hour is legal.
LegalTimes == {legalValues[i] : i \in DOMAIN legalValues}
                \union {n * ONE_SECOND : n \in 60 .. 3600}

\* The loop of step(): the first rung that is not below aTime.
Rung(aTime) == CHOOSE i \in DOMAIN legalValues :
                 /\ aTime <= legalValues[i]
                 /\ i > 1 => legalValues[i - 1] < aTime

\* setStep() with its comparison turned round.
setStep_Farther(value, lower, higher) ==
  LET use == IF lower # 0 /\ value # higher /\ value - lower > higher - value
             THEN lower
             ELSE higher
  IN  use \div 32

\* Of the two rungs around value the closer one, the higher on a tie; in ms.
setStep(value, lower, higher) ==
  LET use == IF lower # 0 /\ value # higher /\ value - lower < higher - value
             THEN lower
             ELSE higher
  IN  use \div 32

\* step() up to one minute: the time to use, in ms.
ClosestRung(aTime) ==
  LET i == Rung(aTime)
  IN  setStep(aTime, IF i = 1 THEN 0 ELSE legalValues[i - 1], legalValues[i])

\* step() above one minute: the time to use, in ms.  Half a second and more
\* is added before the division that drops the rest.
WholeSeconds(aTime) ==
  LET capped  == IF aTime > MAX_LEGAL_CNTS THEN MAX_LEGAL_CNTS ELSE aTime
      rounded == IF capped % ONE_SECOND >= HALF_A_SEC
                 THEN capped + HALF_A_SEC
                 ELSE capped
  IN  (rounded \div ONE_SECOND) * 1000

\* stepChanges() with an off-by-one at the cap.
stepChanges_CapToo(aTime) ==
  IF aTime <= ONE_MINUTE
  THEN aTime # legalValues[Rung(aTime)]
  ELSE aTime >= MAX_LEGAL_CNTS \/ aTime % ONE_SECOND # 0

\* Whether step() adjusts aTime, and so warns.
stepChanges(aTime) ==
  IF aTime <= ONE_MINUTE
  THEN aTime # legalValues[Rung(aTime)]
  ELSE aTime > MAX_LEGAL_CNTS \/ aTime % ONE_SECOND # 0

\* burstMessage::step: the milliseconds to use, the time written back and the
\* response code.
step(aTime) ==
  LET ret    == IF aTime <= ONE_MINUTE
                THEN ClosestRung(aTime)
                ELSE WholeSeconds(aTime)
  IN  [ret   |-> ret,
       aTime |-> IF stepChanges(aTime) THEN ret * 32 ELSE aTime,
       rc    |-> IF stepChanges(aTime) THEN RC_WARN_8 ELSE RC_SUCCESS]

\* stepTimes() without the comparison of the two periods.
stepTimes_NoClamp(Period, MaxPer) ==
  LET p == step(Period)
      m == step(MaxPer)
  IN  [Period   |-> p.aTime,
       MaxPer   |-> m.aTime,
       ticks    |-> p.ret,
       maxTicks |-> m.ret,
       rc       |-> IF p.rc = 0 /\ m.rc = 0 THEN RC_SUCCESS ELSE RC_WARN_8]

\* stepTimes() that forgets to report a period lowered to the maximum.
stepTimes_SilentClamp(Period, MaxPer) ==
  LET p == step(IF Period > MaxPer THEN MaxPer ELSE Period)
      m == step(MaxPer)
  IN  [Period   |-> p.aTime,
       MaxPer   |-> m.aTime,
       ticks    |-> p.ret,
       maxTicks |-> m.ret,
       rc       |-> IF p.rc = 0 /\ m.rc = 0 THEN RC_SUCCESS ELSE RC_WARN_8]

\* burstMessage::stepTimes: the period is first held below the maximum period,
\* then both are stepped.  step() hands back milliseconds, and they go into the
\* two fields named ...In_50mS_ticks.
stepTimes(Period, MaxPer) ==
  LET clamped == IF Period > MaxPer THEN MaxPer ELSE Period
      p == step(clamped)
      m == step(MaxPer)
  IN  [Period   |-> p.aTime,
       MaxPer   |-> m.aTime,
       ticks    |-> p.ret,
       maxTicks |-> m.ret,
       rc       |-> IF p.rc = 0 /\ m.rc = 0 /\ clamped = Period
                    THEN RC_SUCCESS
                    ELSE RC_WARN_8]
=============================================================================
