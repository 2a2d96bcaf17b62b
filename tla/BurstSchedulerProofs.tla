------------------------ MODULE BurstSchedulerProofs ------------------------
(***************************************************************************)
(* What BurstScheduler promises for any number of burst messages and any   *)
(* times, codes, modes and commands of the host.                           *)
(***************************************************************************)
EXTENDS BurstScheduler, BurstStepProofs

USE DEF ticksPer50mS, htc_Continuous, htc_On_Change, hbcc_Disabled

-----------------------------------------------------------------------------
(* The types. *)

\* A start sets up burstStack for every message, whatever the file holds.
LEMMA BootedTypes ==
  ASSUME ctrl \in [Msgs -> 0 .. 4], mode \in [Msgs -> 0 .. 4],
         Period \in [Msgs -> Nat], MaxPer \in [Msgs -> Nat],
         NEW en, NEW rem, NEW rmax, NEW tk, NEW mtk, NEW st,
         Booted(en, rem, rmax, tk, mtk, st)
  PROVE  /\ en \in [Msgs -> BOOLEAN] /\ st \in [Msgs -> BOOLEAN]
         /\ rem \in [Msgs -> Int] /\ rmax \in [Msgs -> Int]
         /\ tk \in [Msgs -> Nat] /\ mtk \in [Msgs -> Nat]
<1>1. \A m \in Msgs : /\ Period[m] \div ticksPer50mS \in Nat
                      /\ MaxPer[m] \div ticksPer50mS \in Nat
                      /\ StartOf(m) \in Nat
                      /\ Startable(m) \in BOOLEAN
  BY SMT DEF StartOf, Startable
<1> QED
  BY SMT, <1>1 DEF Booted

\* The first message is there.
LEMMA FirstMsg ==
  0 \in Msgs /\ Msgs \subseteq Nat /\ MAX_BURSTMSGS \in Nat \ {0}
BY SMT, ConstantsAssumption DEF Msgs

\* The index of the burst thread's loop is that of a message while it works on
\* one.
IndexInLoop == bpc \in {"trigger", "publish", "reload"} => y \in Msgs

TypeInv == TypeOK /\ IndexInLoop

\* No step of either thread takes a field of the burst messages, of burstStack
\* or of a thread out of its type.
LEMMA TypeStep == TypeInv /\ [Next]_vars => TypeInv'
<1> SUFFICES ASSUME TypeInv, [Next]_vars
             PROVE  TypeInv'
  OBVIOUS
<1> USE FirstMsg DEF TypeInv, TypeOK, IndexInLoop
<1>1. ASSUME NEW m \in Msgs, NEW t \in TimePairs, Cmd103(m, t[1], t[2])
      PROVE  TypeInv'
  <2>1. t[1] \in Nat /\ t[2] \in Nat
    BY SMT, ConstantsAssumption
  <2> QED
    BY SMT, <1>1, <2>1 DEF Cmd103, stack, burstThread, history, CmdPC
<1>2. ASSUME NEW m \in Msgs, NEW md \in TriggerModes, Cmd104(m, md)
      PROVE  TypeInv'
  <2>1. md \in 0 .. 4
    BY ConstantsAssumption
  <2> QED
    BY SMT, <1>2, <2>1 DEF Cmd104, stack, burstThread, history, CmdPC
<1>3. ASSUME NEW m \in Msgs, NEW c \in BurstCmds, Cmd108(m, c)
      PROVE  TypeInv'
  <2>1. c \in SUPPORTED
    BY ConstantsAssumption
  <2> QED
    BY SMT, <1>3, <2>1 DEF Cmd108, stack, burstThread, cmdThread, history
<1>4. ASSUME NEW m \in Msgs, NEW c \in ControlCodes, Cmd109(m, c)
      PROVE  TypeInv'
  <2>1. c \in 0 .. 4
    BY ConstantsAssumption
  <2> QED
    BY SMT, <1>4, <2>1 DEF Cmd109, stack, burstThread, history, CmdPC
<1>5. CASE StepTimes
  <2> DEFINE r == stepTimes(Period[cm], MaxPer[cm])
  <2>1. Period[cm] \in Nat /\ MaxPer[cm] \in Nat
    BY SMT
  <2>2. /\ r.Period \in LegalTimes /\ r.MaxPer \in LegalTimes
        /\ r.ticks \in Nat /\ r.maxTicks \in Nat
    BY <2>1, StepTimesSettles
  <2>3. r.Period \in Nat /\ r.MaxPer \in Nat
    BY <2>2, LegalCases
  <2>4. /\ Period' = [Period EXCEPT ![cm] = r.Period]
        /\ MaxPer' = [MaxPer EXCEPT ![cm] = r.MaxPer]
        /\ ticks' = [ticks EXCEPT ![cm] = r.ticks]
        /\ maxTicks' = [maxTicks EXCEPT ![cm] = r.maxTicks]
    BY <1>5 DEF StepTimes
  <2> HIDE DEF r
  <2> QED
    BY SMT, <1>5, <2>2, <2>3, <2>4
    DEF StepTimes, stack, burstThread, history, CmdPC
<1>6. CASE CopyCmd
  BY SMT, <1>6 DEF CopyCmd, stack, burstThread, history, CmdPC
<1>7. CASE CopyCtrl
  BY SMT, <1>7 DEF CopyCtrl, stack, burstThread, history, CmdPC
<1>8. CASE CopyMode
  BY SMT, <1>8 DEF CopyMode, stack, burstThread, CmdPC, NoCopy
<1>9. CASE TakeForUpdate
  BY SMT, <1>9
  DEF TakeForUpdate, CmdTakes, nv, stack, burstThread, history, CmdPC
<1>10. CASE Update
  <2>1. /\ Period[cm] \div ticksPer50mS \in Nat
        /\ MaxPer[cm] \div ticksPer50mS \in Nat
    BY SMT
  <2> QED
    BY SMT, <1>10, <2>1 DEF Update, nv, burstThread, CmdPC
<1>11. CASE TakeForOff
  BY SMT, <1>11
  DEF TakeForOff, CmdTakes, nv, stack, burstThread, history, CmdPC
<1>12. CASE Deactivate
  BY SMT, <1>12 DEF Deactivate, nv, burstThread, CmdPC
<1>13. CASE Wake
  BY SMT, <1>13 DEF Wake, nv, stack, cmdThread, BurstPC
<1>14. CASE TakeForScan
  BY SMT, <1>14 DEF TakeForScan, nv, stack, cmdThread, history, BurstPC
<1>15. CASE Scan
  <2>1. y \in Msgs /\ y + 1 \in 0 .. MAX_BURSTMSGS
    BY SMT, <1>15 DEF Scan, Msgs
  <2> QED
    BY SMT, <1>15, <2>1 DEF Scan, nv, cmdThread, history, BurstPC
<1>16. CASE Trigger
  <2>1. y \in Msgs /\ y + 1 \in 0 .. MAX_BURSTMSGS
    BY SMT, <1>16 DEF Trigger, Msgs
  <2> QED
    BY SMT, <1>16, <2>1 DEF Trigger, nv, stack, cmdThread, history, BurstPC
<1>17. CASE Publish
  BY SMT, <1>17 DEF Publish, nv, stack, cmdThread, BurstPC
<1>18. CASE Reload
  <2>1. y \in Msgs /\ y + 1 \in 0 .. MAX_BURSTMSGS
    BY SMT, <1>18 DEF Reload, Msgs
  <2> QED
    BY SMT, <1>18, <2>1 DEF Reload, nv, cmdThread, history, BurstPC
<1>19. CASE EndScan
  BY SMT, <1>19 DEF EndScan, nv, stack, cmdThread, history, BurstPC
<1>20. CASE Restart
  BY SMT, <1>20, BootedTypes DEF Restart, nv, CmdPC, BurstPC, NoCopy
<1>21. CASE UNCHANGED vars
  BY SMT, <1>21 DEF vars, nv, stack, cmdThread, burstThread, history
<1> QED
  BY <1>1, <1>2, <1>3, <1>4, <1>5, <1>6, <1>7, <1>8, <1>9, <1>10, <1>11,
     <1>12, <1>13, <1>14, <1>15, <1>16, <1>17, <1>18, <1>19, <1>20, <1>21
  DEF Next, HostCommand, CommandStep, BurstThread

\* The types hold from the first start on.
LEMMA TypeInit == Init => TypeInv
<1> SUFFICES ASSUME Init
             PROVE  TypeInv
  OBVIOUS
<1>1. /\ ctrl \in [Msgs -> 0 .. 4] /\ mode \in [Msgs -> 0 .. 4]
      /\ cmd \in [Msgs -> SUPPORTED \union {0}]
  <2>1. /\ ControlCodes \subseteq 0 .. 4 /\ TriggerModes \subseteq 0 .. 4
        /\ BurstCmds \subseteq SUPPORTED \union {0}
    BY ConstantsAssumption
  <2>2. /\ ctrl \in [Msgs -> ControlCodes] /\ mode \in [Msgs -> TriggerModes]
        /\ cmd \in [Msgs -> BurstCmds]
    BY DEF Init
  <2>3. ASSUME NEW S, NEW T, S \subseteq T, NEW f \in [Msgs -> S]
        PROVE  f \in [Msgs -> T]
    BY SMT, <2>3
  <2>4. /\ ctrl \in [Msgs -> 0 .. 4] /\ mode \in [Msgs -> 0 .. 4]
    BY <2>1, <2>2, <2>3, ZenonT(30)
  <2>5. cmd \in [Msgs -> SUPPORTED \union {0}]
    BY <2>1, <2>2, <2>3, ZenonT(30)
  <2> QED
    BY <2>4, <2>5
<1>2. Period \in [Msgs -> Nat] /\ MaxPer \in [Msgs -> Nat]
  <2>1. PICK t \in TimePairs :
          /\ Period = [m \in Msgs |-> stepTimes(t[1], t[2]).Period]
          /\ MaxPer = [m \in Msgs |-> stepTimes(t[1], t[2]).MaxPer]
    BY DEF Init
  <2>2. t[1] \in Nat /\ t[2] \in Nat
    BY SMT, ConstantsAssumption
  <2>3. /\ stepTimes(t[1], t[2]).Period \in Nat
        /\ stepTimes(t[1], t[2]).MaxPer \in Nat
    BY <2>2, StepTimesSettles, LegalCases
  <2> QED
    BY SMT, <2>1, <2>3
<1>3. /\ enabled \in [Msgs -> BOOLEAN] /\ steady \in [Msgs -> BOOLEAN]
      /\ remaining \in [Msgs -> Int] /\ remainingMax \in [Msgs -> Int]
      /\ ticks \in [Msgs -> Nat] /\ maxTicks \in [Msgs -> Nat]
  BY <1>1, <1>2, BootedTypes DEF Init
<1> QED
  BY SMT, <1>1, <1>2, <1>3, FirstMsg
  DEF Init, TypeInv, TypeOK, IndexInLoop, CmdPC, BurstPC, NoCopy

\* The burst messages, burstStack and both threads keep their types.
THEOREM SchedulerTypes == Spec => []TypeInv
BY TypeInit, TypeStep, PTL DEF Spec

\* In particular they do so with the index of the loop in the array.
THEOREM SchedulerTypeOK == Spec => []TypeOK
<1>1. TypeInv => TypeOK
  BY DEF TypeInv
<1> QED
  BY <1>1, SchedulerTypes, PTL

-----------------------------------------------------------------------------
(* The inductive invariant for the switching on and off. *)

\* A message that is being copied keeps its control code in tmp.
CopyKeepsControl ==
  cpc \in {"copyCmd", "copyCtrl", "copyMode"} =>
    (enabled[cm] => tmp.ctrl # hbcc_Disabled)

\* updateBurstOperation() is on its way only for a message that is on.
UpdateMeansOn ==
  cpc \in {"wantUpdate", "update"} => ctrl[cm] # hbcc_Disabled

SwitchInv == /\ SemaphoreExcludes
             /\ RunningMeansOn
             /\ CopyKeepsControl
             /\ UpdateMeansOn

\* No step breaks the switching invariant: the two threads are kept apart by
\* the semaphore, and a message is turned off before the command ends.
LEMMA SwitchStep == TypeInv /\ SwitchInv /\ [Next]_vars => SwitchInv'
<1> SUFFICES ASSUME TypeInv, SwitchInv, [Next]_vars
             PROVE  SwitchInv'
  OBVIOUS
<1> USE DEF TypeInv, TypeOK, IndexInLoop, SwitchInv, SemaphoreExcludes,
            RunningMeansOn, CopyKeepsControl, UpdateMeansOn, Scanning
<1>1. ASSUME NEW m \in Msgs, NEW t \in TimePairs, Cmd103(m, t[1], t[2])
      PROVE  SwitchInv'
  BY SMT, <1>1 DEF Cmd103, stack, burstThread, history
<1>2. ASSUME NEW m \in Msgs, NEW md \in TriggerModes, Cmd104(m, md)
      PROVE  SwitchInv'
  BY SMT, <1>2 DEF Cmd104, stack, burstThread, history
<1>3. ASSUME NEW m \in Msgs, NEW c \in BurstCmds, Cmd108(m, c)
      PROVE  SwitchInv'
  BY SMT, <1>3 DEF Cmd108, stack, burstThread, cmdThread, history
<1>4. ASSUME NEW m \in Msgs, NEW c \in ControlCodes, Cmd109(m, c)
      PROVE  SwitchInv'
  BY SMT, <1>4 DEF Cmd109, stack, burstThread, history
<1>5. CASE StepTimes
  BY SMT, <1>5 DEF StepTimes, stack, burstThread, history
<1>6. CASE CopyCmd
  BY SMT, <1>6
  DEF CopyCmd, nv, stack, cmdThread, burstThread, history
<1>7. CASE CopyCtrl
  BY SMT, <1>7
  DEF CopyCtrl, nv, stack, cmdThread, burstThread, history
<1>8. CASE CopyMode
  BY SMT, <1>8
  DEF CopyMode, nv, stack, cmdThread, burstThread, history
<1>9. CASE TakeForUpdate
  BY SMT, <1>9
  DEF TakeForUpdate, CmdTakes, nv, stack, cmdThread, burstThread, history
<1>10. CASE Update
  BY SMT, <1>10
  DEF Update, nv, stack, cmdThread, burstThread, history
<1>11. CASE TakeForOff
  BY SMT, <1>11
  DEF TakeForOff, CmdTakes, nv, stack, cmdThread, burstThread, history
<1>12. CASE Deactivate
  BY SMT, <1>12
  DEF Deactivate, nv, stack, cmdThread, burstThread, history
<1>13. CASE Wake
  BY SMT, <1>13
  DEF Wake, nv, stack, cmdThread, burstThread, history
<1>14. CASE TakeForScan
  BY SMT, <1>14
  DEF TakeForScan, nv, stack, cmdThread, burstThread, history
<1>15. CASE Scan
  BY SMT, <1>15
  DEF Scan, nv, stack, cmdThread, burstThread, history
<1>16. CASE Trigger
  BY SMT, <1>16
  DEF Trigger, nv, stack, cmdThread, burstThread, history
<1>17. CASE Publish
  BY SMT, <1>17
  DEF Publish, nv, stack, cmdThread, burstThread, history
<1>18. CASE Reload
  BY SMT, <1>18
  DEF Reload, nv, stack, cmdThread, burstThread, history
<1>19. CASE EndScan
  BY SMT, <1>19
  DEF EndScan, nv, stack, cmdThread, burstThread, history
<1>20. CASE Restart
  <2>1. /\ sem' = 1 /\ cpc' = "idle" /\ bpc' = "sleep"
        /\ ctrl' = ctrl
        /\ enabled' = [m \in Msgs |-> Startable(m)]
    BY <1>20 DEF Restart, Booted, nv
  <2>2. \A m \in Msgs : enabled'[m] => ctrl'[m] # hbcc_Disabled
    BY Zenon, <2>1 DEF Startable
  <2> QED
    BY SMT, <2>1, <2>2
<1>21. CASE UNCHANGED vars
  BY SMT, <1>21 DEF vars, nv, stack, cmdThread, burstThread, history
<1> QED
  BY <1>1, <1>2, <1>3, <1>4, <1>5, <1>6, <1>7, <1>8, <1>9, <1>10, <1>11,
     <1>12, <1>13, <1>14, <1>15, <1>16, <1>17, <1>18, <1>19, <1>20, <1>21
  DEF Next, HostCommand, CommandStep, BurstThread

\* It holds after the first start.
LEMMA SwitchInit == Init => SwitchInv
<1> SUFFICES ASSUME Init
             PROVE  SwitchInv
  OBVIOUS
<1>1. /\ sem = 1 /\ cpc = "idle" /\ bpc = "sleep"
      /\ enabled = [m \in Msgs |-> Startable(m)]
  BY DEF Init, Booted
<1>2. \A m \in Msgs : enabled[m] => ctrl[m] # hbcc_Disabled
  BY Zenon, <1>1 DEF Startable
<1> QED
  BY SMT, <1>1, <1>2 DEF SwitchInv, SemaphoreExcludes, Scanning,
                         RunningMeansOn, CopyKeepsControl, UpdateMeansOn

\* The two together are an invariant of the specification.
THEOREM SwitchInvariant == Spec => [](TypeInv /\ SwitchInv)
BY TypeInit, TypeStep, SwitchInit, SwitchStep, PTL DEF Spec

\* A message the burst thread counts down or publishes is one that is on, or
\* whose command has not been answered yet.
THEOREM SchedulerRunningMeansOn == Spec => []RunningMeansOn
<1>1. SwitchInv => RunningMeansOn
  BY DEF SwitchInv
<1> QED
  BY <1>1, SwitchInvariant, PTL

\* burstSemaphore keeps the burst thread's loop and the protected parts of
\* updateBurstOperation and burstDeactivate apart.
THEOREM SchedulerSemaphoreExcludes == Spec => []SemaphoreExcludes
<1>1. SwitchInv => SemaphoreExcludes
  BY DEF SwitchInv
<1> QED
  BY <1>1, SwitchInvariant, PTL

-----------------------------------------------------------------------------
(***************************************************************************)
(* The timing of the burst thread, for any number of burst messages and    *)
(* any times, as long as no command 103 is sent to a running message.      *)
(***************************************************************************)


Turns(m)    == Period[m] \div ticksPer50mS
MaxTurns(m) == MaxPer[m] \div ticksPer50mS

\* 1 while the present wake of the burst thread still has to count m down.
Pending(m) == IF \/ bpc = "want"
                 \/ Scanning /\ (y < m \/ (y = m /\ bpc = "scan"))
              THEN 1 ELSE 0

\* The burst thread is at message m in its loop.
Busy(m) == y = m /\ bpc \in {"trigger", "publish", "reload"}

Limit(m) == IF steady[m] THEN Turns(m) ELSE LongerOf(Turns(m), MaxTurns(m))

\* What is left to count down and the silence so far are within the limit ...
CountsBoundSilence(m) ==
  /\ remaining[m] <= Limit(m) - quiet[m] + Pending(m)
  /\ remainingMax[m] <= MaxTurns(m) - quiet[m] + Pending(m)

\* ... something is left to count down, or the message has just gone out ...
SomethingLeft(m) ==
  Pending(m) = 0 /\ ~ Busy(m) => \/ quiet[m] = 0
                                 \/ remaining[m] >= 1
                                 \/ ~ steady[m] /\ remainingMax[m] >= 1

\* ... and it is not counted down ahead of time.
CountsDelayPublishing(m) ==
  ~ (y = m /\ bpc = "reload") =>
    remaining[m] >= ShorterOf(Turns(m), MaxTurns(m)) - quiet[m] - 1 + Pending(m)

\* What holds of every running message: the first line says that the counts to
\* reload are those of its times.
Timed(m) == /\ ticks[m] = Turns(m) /\ maxTicks[m] = MaxTurns(m)
            /\ CountsBoundSilence(m)
            /\ SomethingLeft(m)
            /\ CountsDelayPublishing(m)
            /\ quiet[m] <= SilenceLimit(m)

\* A message that counts as continuous since it last went out is.
SteadyMode == \A m \in Msgs : steady[m] => mode[m] = htc_Continuous

\* Where the two threads are: the burst thread publishes what is due, nothing
\* passes between publishing and reloading, and command 103 is at a message
\* that is off.
LoopInv == /\ bpc \in {"trigger", "publish"} => remaining[y] <= 0
           /\ bpc = "reload" => quiet[y] = 0
           /\ cpc = "stepTimes" => ~ enabled[cm]

TimeInv == /\ \A m \in Msgs : enabled[m] => Timed(m)
           /\ SteadyMode
           /\ LoopInv

-----------------------------------------------------------------------------
\* The burst thread's own steps keep the timing: each turn is counted once for
\* every running message, and one whose count is over goes out in that turn.
LEMMA BurstThreadTimes ==
  TypeInv /\ SwitchInv /\ TimeInv /\ BurstThread => TimeInv'
<1> SUFFICES ASSUME TypeInv, SwitchInv, TimeInv, BurstThread
             PROVE  TimeInv'
  OBVIOUS
<1> USE FirstMsg
    DEF TypeInv, TypeOK, IndexInLoop, SwitchInv, SemaphoreExcludes,
        RunningMeansOn, TimeInv, SteadyMode, LoopInv, Timed, CountsBoundSilence,
        SomethingLeft, CountsDelayPublishing, Pending, Busy, Limit, Scanning,
        SilenceLimit, TicksOf, LongerOf, ShorterOf, Turns, MaxTurns
<1>1. CASE Wake
  BY SMT, <1>1 DEF Wake, nv, stack, cmdThread
<1>2. CASE TakeForScan
  BY SMT, <1>2 DEF TakeForScan, nv, stack, cmdThread, history
<1>3. CASE Scan
  <2>1. y \in Msgs
    BY SMT, <1>3 DEF Scan, Msgs
  <2>2. UNCHANGED <<nv, ticks, maxTicks, enabled, sem, cmdThread, history>>
    BY <1>3 DEF Scan
  <2>3. CASE ~ enabled[y]
    BY SMT, <1>3, <2>1, <2>2, <2>3 DEF Scan, nv, cmdThread, history
  <2>4. CASE enabled[y] /\ remaining[y] - 1 > 0
    BY SMT, <1>3, <2>1, <2>2, <2>4 DEF Scan, nv, cmdThread, history
  <2>5. CASE enabled[y] /\ remaining[y] - 1 <= 0
    BY SMT, <1>3, <2>1, <2>2, <2>5 DEF Scan, nv, cmdThread, history
  <2> QED
    BY SMTT(30), <2>1, <2>3, <2>4, <2>5
<1>4. CASE Trigger
  <2>1. UNCHANGED <<nv, ticks, maxTicks, stack, sem, cmdThread, history>>
    BY <1>4 DEF Trigger
  <2>2. CASE bpc' = "publish" /\ y' = y
    BY SMT, <1>4, <2>1, <2>2 DEF Trigger, nv, stack, cmdThread, history
  <2>3. CASE mode[y] # 0 /\ remainingMax[y] > 0 /\ bpc' = "scan" /\ y' = y + 1
    <3>1. bpc = "trigger" /\ y \in Msgs /\ ~ steady[y]
      BY SMT, <1>4, <2>3 DEF Trigger
    <3> QED
      BY SMT, <2>1, <2>3, <3>1 DEF nv, stack, cmdThread, history
  <2> QED
    BY SMT, <1>4, <2>2, <2>3 DEF Trigger, MayHold
<1>5. CASE Publish
  BY SMT, <1>5 DEF Publish, nv, stack, cmdThread
<1>6. CASE Reload
  BY SMT, <1>6 DEF Reload, nv, cmdThread, history
<1>7. CASE EndScan
  <2>1. \A m \in Msgs : m < MAX_BURSTMSGS
    BY SMT DEF Msgs
  <2> QED
    BY SMT, <1>7, <2>1 DEF EndScan, nv, stack, cmdThread, history
<1> HIDE DEF TimeInv, SteadyMode, LoopInv
<1> QED
  BY <1>1, <1>2, <1>3, <1>4, <1>5, <1>6, <1>7 DEF BurstThread

\* Command 104 ends the steadiness of a message it takes out of the continuous
\* mode, and touches no other.
LEMMA CopyModeLeavesSteady ==
  ASSUME TypeInv, SteadyMode, CopyMode
  PROVE  \A m \in Msgs : steady'[m] => steady[m] /\ mode'[m] = htc_Continuous
<1>1. /\ steady \in [Msgs -> BOOLEAN] /\ mode \in [Msgs -> 0 .. 4]
      /\ cm \in Msgs
      /\ steady' = [steady EXCEPT ![cm] = @ /\ tmp.mode = htc_Continuous]
      /\ mode' = [mode EXCEPT ![cm] = tmp.mode]
  BY DEF TypeInv, TypeOK, CopyMode
<1>2. ASSUME NEW m \in Msgs, m # cm
      PROVE  steady'[m] = steady[m] /\ mode'[m] = mode[m]
  BY <1>1, <1>2
<1>3. /\ steady'[cm] = (steady[cm] /\ tmp.mode = htc_Continuous)
      /\ mode'[cm] = tmp.mode
  BY Zenon, <1>1
<1> QED
  BY Zenon, <1>2, <1>3 DEF SteadyMode

\* The commands keep the timing, when command 103 spares running messages: the
\* counts of a message are read afresh when it is turned on.
LEMMA CommandsKeepTimes ==
  ASSUME ~ LiveRetiming
  PROVE  TypeInv /\ SwitchInv /\ TimeInv /\ (HostCommand \/ CommandStep)
           => TimeInv'
<1> SUFFICES ASSUME TypeInv, SwitchInv, TimeInv, HostCommand \/ CommandStep
             PROVE  TimeInv'
  OBVIOUS
<1> USE FirstMsg
    DEF TypeInv, TypeOK, IndexInLoop, SwitchInv, SemaphoreExcludes,
        RunningMeansOn, TimeInv, SteadyMode, LoopInv, Timed, CountsBoundSilence,
        SomethingLeft, CountsDelayPublishing, Pending, Busy, Limit, Scanning,
        SilenceLimit, TicksOf, LongerOf, ShorterOf, Turns, MaxTurns
<1>1. ASSUME NEW m \in Msgs, NEW t \in TimePairs, Cmd103(m, t[1], t[2])
      PROVE  TimeInv'
  <2>1. t[1] \in Nat /\ t[2] \in Nat
    BY SMT, ConstantsAssumption
  <2>2. ~ enabled[m]
    BY <1>1 DEF Cmd103
  <2> QED
    BY SMT, <1>1, <2>1, <2>2 DEF Cmd103, stack, burstThread, history
<1>2. ASSUME NEW m \in Msgs, NEW md \in TriggerModes, Cmd104(m, md)
      PROVE  TimeInv'
  BY SMT, <1>2 DEF Cmd104, stack, burstThread, history
<1>3. ASSUME NEW m \in Msgs, NEW c \in BurstCmds, Cmd108(m, c)
      PROVE  TimeInv'
  BY SMT, <1>3 DEF Cmd108, stack, burstThread, cmdThread, history
<1>4. ASSUME NEW m \in Msgs, NEW c \in ControlCodes, Cmd109(m, c)
      PROVE  TimeInv'
  BY SMT, <1>4 DEF Cmd109, stack, burstThread, history
<1>5. CASE StepTimes
  <2>1. ~ enabled[cm]
    BY <1>5 DEF StepTimes
  <2>2. \A m \in Msgs : m # cm => /\ Period'[m] = Period[m]
                                  /\ MaxPer'[m] = MaxPer[m]
                                  /\ ticks'[m] = ticks[m]
                                  /\ maxTicks'[m] = maxTicks[m]
    BY SMT, <1>5 DEF StepTimes
  <2>3. /\ cpc' = "idle"
        /\ UNCHANGED <<mode, stack, cm, burstThread, history>>
    BY <1>5 DEF StepTimes
  <2> QED
    BY SMT, <2>1, <2>2, <2>3 DEF stack, burstThread, history
<1>6. CASE CopyCmd
  BY SMT, <1>6 DEF CopyCmd, stack, burstThread, history
<1>7. CASE CopyCtrl
  BY SMT, <1>7 DEF CopyCtrl, stack, burstThread, history
<1>8. CASE CopyMode
  <2>1. /\ cpc' = "idle"
        /\ UNCHANGED <<Period, MaxPer, ticks, maxTicks, stack, cm, burstThread>>
        /\ quiet' = quiet
    BY <1>8 DEF CopyMode
  <2>2. \A m \in Msgs : steady'[m] => steady[m] /\ mode'[m] = htc_Continuous
    BY <1>8, CopyModeLeavesSteady DEF SteadyMode
  <2>3. ASSUME NEW m \in Msgs, enabled'[m]
        PROVE  Timed(m)'
    <3>1. /\ enabled[m] /\ Timed(m)
          /\ remaining[m] \in Int /\ remainingMax[m] \in Int
          /\ quiet[m] \in Nat
          /\ Turns(m) \in Nat /\ MaxTurns(m) \in Nat
      BY SMT, <2>1, <2>3 DEF stack
    <3>2. /\ UNCHANGED <<remaining, remainingMax, ticks, maxTicks, quiet>>
          /\ UNCHANGED <<y, bpc, Period, MaxPer>>
      BY <2>1 DEF stack, burstThread
    <3>3. CASE steady'[m] <=> steady[m]
      BY SMT, <3>1, <3>2, <3>3
    <3>4. CASE steady[m] /\ ~ steady'[m]
      BY SMT, <3>1, <3>2, <3>4
    <3> QED
      BY <2>2, <3>3, <3>4
  <2>4. LoopInv'
    BY <2>1 DEF stack, burstThread
  <2> QED
    BY <2>2, <2>3, <2>4
<1>9. CASE TakeForUpdate
  BY SMT, <1>9
  DEF TakeForUpdate, CmdTakes, nv, stack, burstThread, history
<1>10. CASE Update
  BY SMT, <1>10 DEF Update, nv, burstThread
<1>11. CASE TakeForOff
  BY SMT, <1>11
  DEF TakeForOff, CmdTakes, nv, stack, burstThread, history
<1>12. CASE Deactivate
  BY SMT, <1>12 DEF Deactivate, nv, burstThread
<1> HIDE DEF TimeInv, SteadyMode, LoopInv
<1> QED
  BY <1>1, <1>2, <1>3, <1>4, <1>5, <1>6, <1>7, <1>8, <1>9, <1>10, <1>11, <1>12
  DEF HostCommand, CommandStep

\* A start loads every running message with its own times.
LEMMA StartTimes ==
  ASSUME ctrl \in [Msgs -> 0 .. 4], mode \in [Msgs -> 0 .. 4],
         Period \in [Msgs -> Nat], MaxPer \in [Msgs -> Nat],
         NEW en, NEW rem, NEW rmax, NEW tk, NEW mtk, NEW st,
         Booted(en, rem, rmax, tk, mtk, st)
  PROVE  \A m \in Msgs :
           /\ Turns(m) \in Nat /\ MaxTurns(m) \in Nat
           /\ st[m] => mode[m] = htc_Continuous
           /\ en[m] => /\ tk[m] = Turns(m) /\ mtk[m] = MaxTurns(m)
                       /\ rem[m] = IF st[m] THEN Turns(m) ELSE MaxTurns(m)
                       /\ rmax[m] = MaxTurns(m)
<1> SUFFICES ASSUME NEW m \in Msgs
             PROVE  /\ Turns(m) \in Nat /\ MaxTurns(m) \in Nat
                    /\ st[m] => mode[m] = htc_Continuous
                    /\ en[m] => /\ tk[m] = Turns(m) /\ mtk[m] = MaxTurns(m)
                                /\ rem[m] = IF st[m] THEN Turns(m)
                                                     ELSE MaxTurns(m)
                                /\ rmax[m] = MaxTurns(m)
  OBVIOUS
<1>1. Turns(m) \in Nat /\ MaxTurns(m) \in Nat
  BY SMT DEF Turns, MaxTurns
<1>2. /\ en[m] = Startable(m)
      /\ st[m] = (Startable(m) /\ mode[m] = htc_Continuous)
      /\ rem[m] = IF Startable(m) THEN StartOf(m) ELSE 0
      /\ rmax[m] = IF Startable(m) THEN MaxTurns(m) ELSE 0
      /\ tk[m] = IF ctrl[m] # hbcc_Disabled THEN Turns(m) ELSE 0
      /\ mtk[m] = IF ctrl[m] # hbcc_Disabled THEN MaxTurns(m) ELSE 0
  BY Zenon DEF Booted, Turns, MaxTurns
<1>3. StartOf(m) = IF mode[m] = htc_Continuous THEN Turns(m) ELSE MaxTurns(m)
  BY DEF StartOf, Turns, MaxTurns
<1>4. Startable(m) => ctrl[m] # hbcc_Disabled
  BY DEF Startable
<1> HIDE DEF Turns, MaxTurns, StartOf, Startable
<1> QED
  BY Zenon, <1>1, <1>2, <1>3, <1>4

\* The timing holds after the first start and after every later one.
LEMMA TimeInit == Init => TimeInv
<1> SUFFICES ASSUME Init
             PROVE  TimeInv
  OBVIOUS
<1>1. TypeInv
  BY TypeInit
<1>2. \A m \in Msgs :
        /\ Turns(m) \in Nat /\ MaxTurns(m) \in Nat
        /\ steady[m] => mode[m] = htc_Continuous
        /\ enabled[m] => /\ ticks[m] = Turns(m) /\ maxTicks[m] = MaxTurns(m)
                         /\ remaining[m] = IF steady[m] THEN Turns(m)
                                                        ELSE MaxTurns(m)
                         /\ remainingMax[m] = MaxTurns(m)
  BY <1>1, StartTimes DEF TypeInv, TypeOK, Init
<1>3. /\ cpc = "idle" /\ bpc = "sleep"
      /\ quiet = [m \in Msgs |-> 0]
  BY DEF Init
<1>4. TimeInv
  BY SMT, <1>2, <1>3
    DEF TimeInv, SteadyMode, LoopInv, Timed, CountsBoundSilence,
        SomethingLeft, CountsDelayPublishing, Pending, Busy, Limit, Scanning,
        SilenceLimit, TicksOf, LongerOf, ShorterOf, Turns, MaxTurns
<1> QED
  BY <1>4

LEMMA RestartTimes == TypeInv /\ Restart => TimeInv'
<1> SUFFICES ASSUME TypeInv, Restart
             PROVE  TimeInv'
  OBVIOUS
<1>1. \A m \in Msgs :
        /\ Turns(m) \in Nat /\ MaxTurns(m) \in Nat
        /\ steady'[m] => mode[m] = htc_Continuous
        /\ enabled'[m] =>
             /\ ticks'[m] = Turns(m) /\ maxTicks'[m] = MaxTurns(m)
             /\ remaining'[m] = IF steady'[m] THEN Turns(m) ELSE MaxTurns(m)
             /\ remainingMax'[m] = MaxTurns(m)
  BY StartTimes DEF TypeInv, TypeOK, Restart
<1>2. /\ cpc' = "idle" /\ bpc' = "sleep"
      /\ quiet' = [m \in Msgs |-> 0]
      /\ Period' = Period /\ MaxPer' = MaxPer /\ mode' = mode
  BY DEF Restart, nv
<1> QED
  BY SMT, <1>1, <1>2
    DEF TimeInv, SteadyMode, LoopInv, Timed, CountsBoundSilence,
        SomethingLeft, CountsDelayPublishing, Pending, Busy, Limit, Scanning,
        SilenceLimit, TicksOf, LongerOf, ShorterOf, Turns, MaxTurns

-----------------------------------------------------------------------------
(* The invariant of the specification, and what follows from it. *)

AllInv == TypeInv /\ SwitchInv /\ TimeInv

THEOREM TimingInvariant ==
  ASSUME ~ LiveRetiming
  PROVE  Spec => []AllInv
<1>1. Init => AllInv
  BY TypeInit, SwitchInit, TimeInit DEF AllInv
<1>2. AllInv /\ [Next]_vars => AllInv'
  <2> SUFFICES ASSUME AllInv, [Next]_vars
               PROVE  AllInv'
    OBVIOUS
  <2>1. TypeInv' /\ SwitchInv'
    BY TypeStep, SwitchStep DEF AllInv
  <2>2. CASE UNCHANGED vars
    <3>1. /\ UNCHANGED <<Period, MaxPer, mode, ticks, maxTicks, enabled>>
          /\ UNCHANGED <<remaining, remainingMax, cpc, cm, bpc, y, quiet>>
          /\ UNCHANGED steady
      BY <2>2 DEF vars, nv, stack, cmdThread, burstThread, history
    <3>2. ASSUME NEW m \in Msgs
          PROVE  Timed(m)' <=> Timed(m)
      <4>1. /\ Turns(m)' = Turns(m) /\ MaxTurns(m)' = MaxTurns(m)
            /\ Limit(m)' = Limit(m)
            /\ SilenceLimit(m)' = SilenceLimit(m)
        BY SMT, <3>1
        DEF Turns, MaxTurns, Limit, SilenceLimit, TicksOf, LongerOf
      <4>2. /\ Pending(m)' = Pending(m)
            /\ Busy(m)' <=> Busy(m)
        BY SMT, <3>1 DEF Pending, Busy, Scanning
      <4> QED
        BY SMT, <3>1, <4>1, <4>2
        DEF Timed, CountsBoundSilence, SomethingLeft, CountsDelayPublishing,
            ShorterOf
    <3>3. \A m \in Msgs : enabled'[m] => Timed(m)'
      BY <3>1, <3>2 DEF AllInv, TimeInv
    <3>4. \A m \in Msgs : steady'[m] => mode'[m] = htc_Continuous
      BY <3>1 DEF AllInv, TimeInv, SteadyMode
    <3>5. LoopInv'
      BY <3>1 DEF AllInv, TimeInv, LoopInv
    <3> QED
      BY <2>1, <3>3, <3>4, <3>5 DEF AllInv, TimeInv, SteadyMode
  <2>3. CASE Next
    BY <2>1, <2>3, BurstThreadTimes, CommandsKeepTimes, RestartTimes
    DEF AllInv, Next
  <2> QED
    BY <2>2, <2>3
<1> QED
  BY <1>1, <1>2, PTL DEF Spec

\* A running message is never silent for longer than its limit, however the
\* commands, the burst thread and shutdowns interleave.
THEOREM SchedulerSilenceBounded ==
  ASSUME ~ LiveRetiming
  PROVE  Spec => []SilenceBounded
<1>1. AllInv => SilenceBounded
  BY DEF AllInv, TimeInv, Timed, SilenceBounded
<1> QED
  BY <1>1, TimingInvariant, PTL

\* No message is published again before its update period is over.
THEOREM SchedulerMinimumPeriodKept ==
  ASSUME ~ LiveRetiming
  PROVE  Spec => []MinimumPeriodKept
<1>1. AllInv => MinimumPeriodKept
  <2> SUFFICES ASSUME AllInv, bpc = "publish"
               PROVE  quiet[y] + 1 >= ShorterOf(Turns(y), MaxTurns(y))
    BY DEF MinimumPeriodKept, Turns, MaxTurns
  <2>1. y \in Msgs /\ enabled[y] /\ remaining[y] <= 0
    BY DEF AllInv, TypeInv, IndexInLoop, SwitchInv, RunningMeansOn, TimeInv,
           LoopInv
  <2>2. CountsDelayPublishing(y)
    BY <2>1 DEF AllInv, TimeInv, Timed
  <2>3. Turns(y) \in Nat /\ MaxTurns(y) \in Nat
    BY SMT, <2>1 DEF AllInv, TypeInv, TypeOK, Turns, MaxTurns
  <2>4. quiet[y] \in Nat /\ remaining[y] \in Int /\ Pending(y) \in {0, 1}
    BY SMT, <2>1 DEF AllInv, TypeInv, TypeOK, Pending
  <2> QED
    BY SMT, <2>1, <2>2, <2>3, <2>4 DEF CountsDelayPublishing, ShorterOf
<1> QED
  BY <1>1, TimingInvariant, PTL
=============================================================================
