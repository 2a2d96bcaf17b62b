----------------------------- MODULE BurstTimes -----------------------------
(***************************************************************************)
(* The update periods of one burst message: command 103 writes them and    *)
(* settles them with stepTimes(), command 109 turns them into counts of    *)
(* the burst thread's 50 ms loop.  The module follows what a host sees: it *)
(* sends two times, reads back what the device settled on, and may send    *)
(* that back again.                                                        *)
(***************************************************************************)
EXTENDS BurstStep

CONSTANTS RawTimes,      \* the times a host sends, in 1/32 ms
          FactoryPeriod, \* the times FillDefaultValues writes
          FactoryMaxPer

ASSUME RawTimesAssumption == RawTimes \subseteq Nat
ASSUME FactoryAssumption == /\ FactoryPeriod \in Nat \ {0}
                            /\ FactoryMaxPer \in Nat \ {0}

VARIABLES
  Period,   \* NONvolatileData.brstMsgs[mn].Period
  MaxPer,   \* NONvolatileData.brstMsgs[mn].MaxPer
  ticks,    \* burstCommIn_50mS_ticks
  maxTicks, \* maxburstCommIn_50mS_ticks
  rc,       \* the response code of the last command
  asked,    \* the pair of times the last command 103 carried, <<>> before it
  stage     \* "factory" | "settled" (103 was the last) | "on" (109 was)

vars == <<Period, MaxPer, ticks, maxTicks, rc, asked, stage>>

TypeOK == /\ Period \in Nat /\ MaxPer \in Nat
          /\ ticks \in Nat /\ maxTicks \in Nat
          /\ rc \in {RC_SUCCESS, RC_WARN_8}
          /\ asked \in {<<>>} \union (Nat \X Nat)
          /\ stage \in {"factory", "settled", "on"}

Init == /\ Period = FactoryPeriod
        /\ MaxPer = FactoryMaxPer
        /\ ticks = 0 /\ maxTicks = 0
        /\ rc = RC_SUCCESS
        /\ asked = <<>>
        /\ stage = "factory"

Settle(p, m) ==
  LET r == stepTimes(p, m)
  IN  /\ Period' = r.Period
      /\ MaxPer' = r.MaxPer
      /\ ticks' = r.ticks
      /\ maxTicks' = r.maxTicks
      /\ rc' = r.rc
      /\ asked' = <<p, m>>
      /\ stage' = "settled"

\* Command 103 with any two times.
Cmd103(p, m) == /\ stage = "factory"
                /\ Settle(p, m)

\* Command 103 with the two times the device answered last.
Cmd103Again == /\ stage # "factory"
               /\ Settle(Period, MaxPer)

\* Command 109 turning the message on: updateBurstOperation reads the two
\* periods into counts of the 50 ms loop.
Cmd109On == /\ ticks' = Period \div ticksPer50mS
            /\ maxTicks' = MaxPer \div ticksPer50mS
            /\ stage' = "on"
            /\ rc' = RC_SUCCESS
            /\ UNCHANGED <<Period, MaxPer, asked>>

Next == \/ \E p, m \in RawTimes : Cmd103(p, m)
        \/ Cmd103Again
        \/ Cmd109On

Spec == Init /\ [][Next]_vars
-----------------------------------------------------------------------------
Distance(a, b) == IF a <= b THEN b - a ELSE a - b

\* Whatever a host asks for, the device settles on times of its table, and on
\* an update period that is not above the maximum period: stepping cannot put
\* the pair out of order again (burst.cpp:78 "min time MUST be LESS THAN or
\* EQUAL maximum").
SettledOnTheTable ==
  asked # <<>> => /\ Period \in LegalTimes /\ MaxPer \in LegalTimes
                  /\ Period <= MaxPer

\* The maximum period settles on a time no other legal time is closer to, and
\* so does the update period, measured from the clamped value.
SettledOnTheClosest ==
  asked # <<>> =>
    LET p == IF asked[1] > asked[2] THEN asked[2] ELSE asked[1]
    IN  \A v \in LegalTimes : /\ Distance(p, Period) <= Distance(p, v)
                              /\ Distance(asked[2], MaxPer)
                                   <= Distance(asked[2], v)

\* Response code 8 tells a host that the device changed what it asked for, and
\* code 0 that it did not.
WarnsIffChanged ==
  stage = "settled" => (rc = RC_WARN_8 <=> asked # <<Period, MaxPer>>)

\* A host that sends back what it read changes nothing, and is not warned.
SettledIsStable ==
  [][Cmd103Again /\ asked # <<>> => /\ UNCHANGED <<Period, MaxPer>>
                                    /\ rc' = RC_SUCCESS]_vars

\* Once a message is on, its times are whole counts of the 50 ms loop, one or
\* more: the division in updateBurstOperation drops nothing.
WholeTicks ==
  stage = "on" /\ asked # <<>> => /\ ticks >= 1
                                  /\ ticks <= maxTicks
                                  /\ ticks * ticksPer50mS = Period
                                  /\ maxTicks * ticksPer50mS = MaxPer
=============================================================================
