--------------------------- MODULE BurstScheduler ---------------------------
(***************************************************************************)
(* The burst task of Hip_Native/burst.cpp and the commands that steer it.  *)
(*                                                                         *)
(* Two threads share the three burst messages.  The command thread runs    *)
(* the handlers of commands 103, 104, 108 and 109 one at a time; the burst *)
(* thread wakes every 50 ms, counts every enabled entry of burstStack down *)
(* and publishes the ones that are due.  burstStack is changed under       *)
(* burstSemaphore; burstMsgArray, which the burst thread also reads, is    *)
(* changed by the command thread without it.                               *)
(*                                                                         *)
(* One step of the model is one access to shared memory or to the          *)
(* semaphore that the other thread can tell apart.  A shutdown (SIGINT)    *)
(* may come at any of them: the handler saves NONvolatileData as it is,    *)
(* and the next start rebuilds burstStack from it.                         *)
(***************************************************************************)
EXTENDS BurstStep

CONSTANTS
  MAX_BURSTMSGS, \* number of burst messages
  TimePairs,     \* the pairs of times a host sends with command 103, in 1/32 ms
  ControlCodes,  \* the burst mode control codes a host sends
  TriggerModes,  \* the trigger modes a host sends
  BurstCmds,     \* the commands a host chooses to publish
  LiveRetiming   \* whether a host sends command 103 to a running message

Msgs == 0 .. (MAX_BURSTMSGS - 1)

\* Trigger modes (1, 2 and 3 are window, rising and falling).
htc_Continuous == 0
htc_On_Change  == 4
hbcc_Disabled  == 0

SUPPORTED == {1, 2, 3, 9, 38, 48}

ASSUME ConstantsAssumption ==
  /\ MAX_BURSTMSGS \in Nat \ {0}
  /\ TimePairs \subseteq Nat \X Nat
  /\ ControlCodes \subseteq 0 .. 4
  /\ TriggerModes \subseteq 0 .. 4
  /\ BurstCmds \subseteq SUPPORTED
  /\ LiveRetiming \in BOOLEAN

VARIABLES
  \* burstMsgArray, one burst message each; the first five fields of one are
  \* its data in NONvolatileData.
  ctrl, mode, cmd, Period, MaxPer,
  ticks, maxTicks,
  \* burstStack
  enabled, remaining, remainingMax,
  sem,        \* burstSemaphore: 1 free, 0 taken
  \* the command thread: where it is, on which message, with which values
  cpc, cm, tmp,
  \* the burst thread: where it is and at which message of its loop
  bpc, y,
  \* Bookkeeping for the properties: 50 ms turns since the message was last
  \* published or switched on; whether its mode was continuous all that time.
  quiet, steady

nv    == <<ctrl, mode, cmd, Period, MaxPer>>
stack == <<enabled, remaining, remainingMax>>
cmdThread   == <<cpc, cm, tmp>>
burstThread == <<bpc, y>>
history == <<quiet, steady>>
vars == <<nv, ticks, maxTicks, stack, sem, cmdThread, burstThread, history>>

NoCopy == [cmd |-> 0, ctrl |-> 0, mode |-> 0]

CmdPC == {"idle", "stepTimes", "copyCmd", "copyCtrl", "copyMode",
          "wantUpdate", "update", "wantOff", "off"}
BurstPC == {"sleep", "want", "scan", "trigger", "publish", "reload"}

TypeOK ==
  /\ ctrl \in [Msgs -> 0 .. 4]
  /\ mode \in [Msgs -> 0 .. 4]
  /\ cmd \in [Msgs -> SUPPORTED \union {0}]
  /\ Period \in [Msgs -> Nat] /\ MaxPer \in [Msgs -> Nat]
  /\ ticks \in [Msgs -> Nat] /\ maxTicks \in [Msgs -> Nat]
  /\ enabled \in [Msgs -> BOOLEAN]
  /\ remaining \in [Msgs -> Int] /\ remainingMax \in [Msgs -> Int]
  /\ sem \in {0, 1}
  /\ cpc \in CmdPC /\ cm \in Msgs
  /\ tmp \in [cmd : SUPPORTED \union {0}, ctrl : 0 .. 4, mode : 0 .. 4]
  /\ bpc \in BurstPC /\ y \in 0 .. MAX_BURSTMSGS
  /\ quiet \in [Msgs -> Nat] /\ steady \in [Msgs -> BOOLEAN]
-----------------------------------------------------------------------------
(* Starting: initBurstStack() calls updateBurstOperation() for every message
   that is turned on, before there is a second thread. *)

Startable(m) == ctrl[m] # hbcc_Disabled /\ mode[m] \in {htc_Continuous,
                                                        htc_On_Change}

StartOf(m) == IF mode[m] = htc_Continuous
              THEN Period[m] \div ticksPer50mS
              ELSE MaxPer[m] \div ticksPer50mS

\* burstStack and the volatile half of burstMsgArray after a start with the
\* present NONvolatileData.
Booted(en, rem, rmax, tk, mtk, st) ==
  /\ en = [m \in Msgs |-> Startable(m)]
  /\ rem = [m \in Msgs |-> IF Startable(m) THEN StartOf(m) ELSE 0]
  /\ rmax = [m \in Msgs |-> IF Startable(m)
                            THEN MaxPer[m] \div ticksPer50mS ELSE 0]
  /\ tk = [m \in Msgs |-> IF ctrl[m] # hbcc_Disabled
                          THEN Period[m] \div ticksPer50mS ELSE 0]
  /\ mtk = [m \in Msgs |-> IF ctrl[m] # hbcc_Disabled
                           THEN MaxPer[m] \div ticksPer50mS ELSE 0]
  /\ st = [m \in Msgs |-> Startable(m) /\ mode[m] = htc_Continuous]

\* The first start, from a file whose times command 103 settled.
Init ==
  /\ ctrl \in [Msgs -> ControlCodes]
  /\ mode \in [Msgs -> TriggerModes]
  /\ cmd \in [Msgs -> BurstCmds]
  /\ \E t \in TimePairs :
        LET r == stepTimes(t[1], t[2])
        IN  /\ Period = [m \in Msgs |-> r.Period]
            /\ MaxPer = [m \in Msgs |-> r.MaxPer]
  /\ Booted(enabled, remaining, remainingMax, ticks, maxTicks, steady)
  /\ sem = 1
  /\ cpc = "idle" /\ cm = 0 /\ tmp = NoCopy
  /\ bpc = "sleep" /\ y = 0
  /\ quiet = [m \in Msgs |-> 0]

\* SIGINT and the next start.  handle_sigint() saves NONvolatileData without
\* waiting for the command thread.
Restart ==
  /\ Booted(enabled', remaining', remainingMax', ticks', maxTicks', steady')
  /\ sem' = 1
  /\ cpc' = "idle" /\ cm' = 0 /\ tmp' = NoCopy
  /\ bpc' = "sleep" /\ y' = 0
  /\ quiet' = [m \in Msgs |-> 0]
  /\ UNCHANGED nv
-----------------------------------------------------------------------------
(* The command thread. *)

\* Command 103: both times are extracted into NONvolatileData ...
Cmd103(m, p, x) ==
  /\ cpc = "idle"
  /\ LiveRetiming \/ ~enabled[m]
  /\ Period' = [Period EXCEPT ![m] = p]
  /\ MaxPer' = [MaxPer EXCEPT ![m] = x]
  /\ cpc' = "stepTimes" /\ cm' = m
  /\ UNCHANGED <<ctrl, mode, cmd, ticks, maxTicks, stack, sem, tmp,
                 burstThread, history>>

\* ... and then settled.
StepTimes ==
  /\ cpc = "stepTimes"
  /\ LET r == stepTimes(Period[cm], MaxPer[cm])
     IN  /\ Period' = [Period EXCEPT ![cm] = r.Period]
         /\ MaxPer' = [MaxPer EXCEPT ![cm] = r.MaxPer]
         /\ ticks' = [ticks EXCEPT ![cm] = r.ticks]
         /\ maxTicks' = [maxTicks EXCEPT ![cm] = r.maxTicks]
  /\ cpc' = "idle"
  /\ UNCHANGED <<ctrl, mode, cmd, stack, sem, cm, tmp, burstThread, history>>

\* The trigger modes command 104 accepts beside the message's command.
Accepts(c, md) == \/ c \in {1, 2, 3, 9}
                  \/ c \in {38, 48} /\ md \in {htc_Continuous, htc_On_Change}

\* Command 104 prepares a copy of the message and assigns it back, field after
\* field; dataItem::dataEqual writes a zero into a field before its value.
Cmd104(m, md) ==
  /\ cpc = "idle"
  /\ Accepts(cmd[m], md)
  /\ tmp' = [cmd |-> cmd[m], ctrl |-> ctrl[m], mode |-> md]
  /\ cmd' = [cmd EXCEPT ![m] = 0]
  /\ cpc' = "copyCmd" /\ cm' = m
  /\ UNCHANGED <<ctrl, mode, Period, MaxPer, ticks, maxTicks, stack, sem,
                 burstThread, history>>

CopyCmd ==
  /\ cpc = "copyCmd"
  /\ cmd' = [cmd EXCEPT ![cm] = tmp.cmd]
  /\ ctrl' = [ctrl EXCEPT ![cm] = 0]
  /\ cpc' = "copyCtrl"
  /\ UNCHANGED <<mode, Period, MaxPer, ticks, maxTicks, stack, sem, cm, tmp,
                 burstThread, history>>

CopyCtrl ==
  /\ cpc = "copyCtrl"
  /\ ctrl' = [ctrl EXCEPT ![cm] = tmp.ctrl]
  /\ mode' = [mode EXCEPT ![cm] = 0]
  /\ cpc' = "copyMode"
  /\ UNCHANGED <<cmd, Period, MaxPer, ticks, maxTicks, stack, sem, cm, tmp,
                 burstThread, history>>

CopyMode ==
  /\ cpc = "copyMode"
  /\ mode' = [mode EXCEPT ![cm] = tmp.mode]
  /\ steady' = [steady EXCEPT ![cm] = @ /\ tmp.mode = htc_Continuous]
  /\ tmp' = NoCopy
  /\ cpc' = "idle"
  /\ UNCHANGED <<ctrl, cmd, Period, MaxPer, ticks, maxTicks, stack, sem, cm,
                 burstThread, quiet>>

\* Command 108 chooses the command to publish, and resets the trigger when its
\* classification does not go with a trigger mode other than continuous.
Cmd108(m, c) ==
  /\ cpc = "idle"
  /\ cmd' = [cmd EXCEPT ![m] = c]
  /\ \/ mode' = [mode EXCEPT ![m] = htc_Continuous]
     \/ UNCHANGED mode
  /\ UNCHANGED <<ctrl, Period, MaxPer, ticks, maxTicks, stack, sem, cmdThread,
                 burstThread, history>>

\* Command 109 with a code other than the present one calls
\* updateBurstOperation(), which looks at burstStack before it takes the
\* semaphore.
Cmd109(m, c) ==
  /\ cpc = "idle"
  /\ c # ctrl[m]
  /\ ctrl' = [ctrl EXCEPT ![m] = c]
  /\ cpc' = IF c # hbcc_Disabled THEN "wantUpdate"
            ELSE IF enabled[m] THEN "wantOff" ELSE "idle"
  /\ cm' = m
  /\ UNCHANGED <<mode, cmd, Period, MaxPer, ticks, maxTicks, stack, sem, tmp,
                 burstThread, history>>

\* sem_wait() that takes the semaphore without waiting for it.
CmdTakes_NoWait(want, has) ==
  /\ cpc = want
  /\ sem' = sem - 1
  /\ cpc' = has
  /\ UNCHANGED <<nv, ticks, maxTicks, stack, cm, tmp, burstThread, history>>

\* sem_wait() of the command thread.
CmdTakes(want, has) ==
  /\ cpc = want
  /\ sem = 1
  /\ sem' = 0
  /\ cpc' = has
  /\ UNCHANGED <<nv, ticks, maxTicks, stack, cm, tmp, burstThread, history>>

\* Update with a return, semaphore in hand, when the trigger is unsupported.
Update_ReturnsEarly ==
  LET p == Period[cm] \div ticksPer50mS
      x == MaxPer[cm] \div ticksPer50mS
      starts == mode[cm] \in {htc_Continuous, htc_On_Change}
      first == IF mode[cm] = htc_Continuous THEN p ELSE x
  IN  /\ cpc = "update"
      /\ ticks' = [ticks EXCEPT ![cm] = p]
      /\ maxTicks' = [maxTicks EXCEPT ![cm] = x]
      /\ enabled' = [enabled EXCEPT ![cm] = starts]
      /\ remaining' = [remaining EXCEPT ![cm] = IF starts THEN first ELSE @]
      /\ remainingMax' = [remainingMax EXCEPT ![cm] = IF starts THEN x ELSE @]
      /\ quiet' = [quiet EXCEPT ![cm] = 0]
      /\ steady' = [steady EXCEPT ![cm] = mode[cm] = htc_Continuous]
      /\ sem' = IF starts THEN 1 ELSE sem
      /\ cpc' = "idle"
      /\ UNCHANGED <<nv, cm, tmp, burstThread>>

\* The protected part of updateBurstOperation(): the periods are read into
\* counts of the 50 ms loop and the entry is started, unless the trigger is a
\* window, rising or falling one, which switches it off.
Update ==
  LET p == Period[cm] \div ticksPer50mS
      x == MaxPer[cm] \div ticksPer50mS
      starts == mode[cm] \in {htc_Continuous, htc_On_Change}
      first == IF mode[cm] = htc_Continuous THEN p ELSE x
  IN  /\ cpc = "update"
      /\ ticks' = [ticks EXCEPT ![cm] = p]
      /\ maxTicks' = [maxTicks EXCEPT ![cm] = x]
      /\ enabled' = [enabled EXCEPT ![cm] = starts]
      /\ remaining' = [remaining EXCEPT ![cm] = IF starts THEN first ELSE @]
      /\ remainingMax' = [remainingMax EXCEPT ![cm] = IF starts THEN x ELSE @]
      /\ quiet' = [quiet EXCEPT ![cm] = 0]
      /\ steady' = [steady EXCEPT ![cm] = mode[cm] = htc_Continuous]
      /\ sem' = 1
      /\ cpc' = "idle"
      /\ UNCHANGED <<nv, cm, tmp, burstThread>>

\* The protected part of burstDeactivate().
Deactivate ==
  /\ cpc = "off"
  /\ enabled' = [enabled EXCEPT ![cm] = FALSE]
  /\ quiet' = [quiet EXCEPT ![cm] = 0]
  /\ sem' = 1
  /\ cpc' = "idle"
  /\ UNCHANGED <<nv, ticks, maxTicks, remaining, remainingMax, cm, tmp,
                 burstThread, steady>>

TakeForUpdate == CmdTakes("wantUpdate", "update")

\* burstDeactivate() without its semaphore.
TakeForOff_Unlocked ==
  /\ cpc = "wantOff"
  /\ cpc' = "off"
  /\ UNCHANGED <<nv, ticks, maxTicks, stack, sem, cm, tmp, burstThread,
                 history>>

TakeForOff == CmdTakes("wantOff", "off")
-----------------------------------------------------------------------------
(* The burst thread. *)

\* nanosleep() is over: 50 ms have passed.
Wake ==
  /\ bpc = "sleep"
  /\ bpc' = "want"
  /\ quiet' = [m \in Msgs |-> quiet[m] + IF enabled[m] THEN 1 ELSE 0]
  /\ UNCHANGED <<nv, ticks, maxTicks, stack, sem, cmdThread, y, steady>>

TakeForScan ==
  /\ bpc = "want"
  /\ sem = 1
  /\ sem' = 0
  /\ bpc' = "scan" /\ y' = 0
  /\ UNCHANGED <<nv, ticks, maxTicks, stack, cmdThread, history>>

\* One entry of burstStack: counted down when enabled, looked at when due.
Scan ==
  /\ bpc = "scan"
  /\ y < MAX_BURSTMSGS
  /\ IF enabled[y]
     THEN /\ remaining' = [remaining EXCEPT ![y] = @ - 1]
          /\ remainingMax' = [remainingMax EXCEPT ![y] = @ - 1]
          /\ IF remaining[y] - 1 <= 0
             THEN bpc' = "trigger" /\ y' = y
             ELSE bpc' = "scan" /\ y' = y + 1
     ELSE /\ bpc' = "scan" /\ y' = y + 1
          /\ UNCHANGED <<remaining, remainingMax>>
  /\ UNCHANGED <<nv, ticks, maxTicks, enabled, sem, cmdThread, history>>

\* is_Triggered(): always in continuous mode; on-change triggers, and any
\* trigger of a command without values, are not implemented and never fire;
\* for the others the process decides.
MayTrigger(m) == \/ mode[m] = htc_Continuous
                 \/ mode[m] # htc_On_Change /\ cmd[m] \in {1, 2, 3, 9}
MayHold(m) == mode[m] # htc_Continuous

Trigger ==
  /\ bpc = "trigger"
  /\ \/ /\ MayTrigger(y) \/ remainingMax[y] <= 0
        /\ bpc' = "publish" /\ y' = y
     \/ /\ MayHold(y) /\ remainingMax[y] > 0
        /\ bpc' = "scan" /\ y' = y + 1
  /\ UNCHANGED <<nv, ticks, maxTicks, stack, sem, cmdThread, history>>

\* burstCmd(): the message goes out with the command number it has now ...
Publish ==
  /\ bpc = "publish"
  /\ bpc' = "reload"
  /\ quiet' = [quiet EXCEPT ![y] = 0]
  /\ steady' = [steady EXCEPT ![y] = mode[y] = htc_Continuous]
  /\ UNCHANGED <<nv, ticks, maxTicks, stack, sem, cmdThread, y>>

\* burstCmd() that loads the maximum period into both counts.
Reload_MaxTwice ==
  /\ bpc = "reload"
  /\ remaining' = [remaining EXCEPT ![y] = maxTicks[y]]
  /\ remainingMax' = [remainingMax EXCEPT ![y] = maxTicks[y]]
  /\ bpc' = "scan" /\ y' = y + 1
  /\ UNCHANGED <<nv, ticks, maxTicks, enabled, sem, cmdThread, history>>

\* burstCmd() that loads only the maximum count.
Reload_KeepsCount ==
  /\ bpc = "reload"
  /\ remainingMax' = [remainingMax EXCEPT ![y] = maxTicks[y]]
  /\ bpc' = "scan" /\ y' = y + 1
  /\ UNCHANGED <<nv, ticks, maxTicks, remaining, enabled, sem, cmdThread,
                 history>>

\* ... and the entry is loaded for the next round.
Reload ==
  /\ bpc = "reload"
  /\ remaining' = [remaining EXCEPT ![y] = ticks[y]]
  /\ remainingMax' = [remainingMax EXCEPT ![y] = maxTicks[y]]
  /\ bpc' = "scan" /\ y' = y + 1
  /\ UNCHANGED <<nv, ticks, maxTicks, enabled, sem, cmdThread, history>>

EndScan ==
  /\ bpc = "scan"
  /\ y = MAX_BURSTMSGS
  /\ sem' = 1
  /\ bpc' = "sleep" /\ y' = 0
  /\ UNCHANGED <<nv, ticks, maxTicks, stack, cmdThread, history>>
-----------------------------------------------------------------------------
HostCommand ==
  \E m \in Msgs :
    \/ \E t \in TimePairs : Cmd103(m, t[1], t[2])
    \/ \E md \in TriggerModes : Cmd104(m, md)
    \/ \E c \in BurstCmds : Cmd108(m, c)
    \/ \E c \in ControlCodes : Cmd109(m, c)

CommandStep == \/ StepTimes \/ CopyCmd \/ CopyCtrl \/ CopyMode
               \/ TakeForUpdate \/ Update \/ TakeForOff \/ Deactivate

BurstThread == \/ Wake \/ TakeForScan \/ Scan \/ Trigger \/ Publish
               \/ Reload \/ EndScan

Next == HostCommand \/ CommandStep \/ BurstThread \/ Restart

Spec == Init /\ [][Next]_vars

-----------------------------------------------------------------------------
Scanning == bpc \in {"scan", "trigger", "publish", "reload"}

LongerOf(a, b)  == IF a > b THEN a ELSE b
ShorterOf(a, b) == IF a > b THEN b ELSE a

TicksOf(time) == LongerOf(1, time \div ticksPer50mS)

\* The longest a running message may stay silent, in turns of the loop.
SilenceLimit(m) == IF steady[m] THEN TicksOf(Period[m])
                   ELSE LongerOf(TicksOf(Period[m]), TicksOf(MaxPer[m]))

\* A message the burst thread counts down is one the host left on: between the
\* acknowledgement of a command 109 that turns it off and the next that turns
\* it on nothing of it is published, although the burst thread may have been in
\* the middle of its loop (updateBurstOperation, burstDeactivate).
RunningMeansOn ==
  /\ \A m \in Msgs :
       enabled[m] => \/ ctrl[m] # hbcc_Disabled
                     \/ cm = m /\ cpc \in {"wantOff", "off", "copyCtrl"}
  /\ bpc \in {"trigger", "publish", "reload"} => enabled[y]

\* A running message is never silent for longer than its maximum update
\* period, nor, while its mode is continuous, for longer than its update
\* period (cmd_c104.h:186 "published continuously at (worst case) the Minimum
\* Update Period").
SilenceBounded == \A m \in Msgs : enabled[m] => quiet[m] <= SilenceLimit(m)

\* A message is not published again before its update period is over (the
\* shorter of its two periods, when a shutdown kept command 103 from putting
\* them in order); the first turn may be cut short when it is switched on after
\* the burst thread woke and before it takes the semaphore.
MinimumPeriodKept ==
  bpc = "publish" => quiet[y] + 1 >= ShorterOf(Period[y] \div ticksPer50mS,
                                               MaxPer[y] \div ticksPer50mS)

\* burstSemaphore is taken exactly while a thread is between its sem_wait and
\* sem_post, and never by both.
SemaphoreExcludes ==
  /\ sem = 0 <=> (Scanning \/ cpc \in {"update", "off"})
  /\ ~ (Scanning /\ cpc \in {"update", "off"})
=============================================================================
