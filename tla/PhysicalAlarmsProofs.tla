------------------------ MODULE PhysicalAlarmsProofs ------------------------
(***************************************************************************)
(* Proofs about PhysicalAlarms, for all limits in the factory's order, all *)
(* readings and everything a host may send back.                           *)
(*                                                                         *)
(* The alarm a reading has reached at each place of handle_alarms() is     *)
(* SoFar; the inductive invariant says that the status on record is that   *)
(* of SoFar for the variable being handled, and that of the zone of its    *)
(* last reading for the other one.                                         *)
(***************************************************************************)
EXTENDS PhysicalAlarms, TLAPS

\* The alarm the comparisons before place d leave: the last that held.
SoFar(d, v, x) ==
  IF d = "limits" /\ x <= lowerSensorLimit[v] THEN "ZeroValue"
  ELSE IF d \in {"zero", "limits"} /\ x <= low_alarm[v] THEN "LoAlarm"
  ELSE IF d \in {"low", "zero", "limits"} /\ x >= upperSensorLimit[v]
       THEN "OverRange"
  ELSE IF d \in {"over", "low", "zero", "limits"} /\ x >= high_alarm[v]
       THEN "HiAlarm"
  ELSE "None"

Nibble(v) == {b \in specific : b[1] = v}

\* The status of a variable in alarm a.
Reached(v, a) ==
  /\ Nibble(v) = IF a = "None" THEN {} ELSE {<<v, a>>}
  /\ dvStatus[v] = IF a = "None" THEN Good ELSE StatusOf(a)
  /\ alert[v] <=> a \in {"ZeroValue", "OverRange"}
  /\ v = "SV" => efds = IF a \in Severe THEN {"MaintReqd"} ELSE {}

Comparing == {"high", "over", "low", "zero", "limits"}

AlarmInv ==
  /\ al_mutex <=> dpc # "idle"
  /\ dpc \in Comparing => Reached(index, SoFar(dpc, index, newValue))
  /\ \A v \in sampled : dpc = "idle" \/ v # index => Reached(v, ZoneOf(v))
-----------------------------------------------------------------------------
(* The types. *)

AlarmTypes ==
  /\ specific \in SUBSET (Vars \X Alarms)
  /\ dvStatus \in [Vars -> Status]
  /\ alert \in [Vars -> BOOLEAN]
  /\ efds \in SUBSET ExtendedBits
  /\ deviceStatus \in SUBSET DeviceBits

DataTypes ==
  /\ al_mutex \in BOOLEAN
  /\ dpc \in {"idle", "clear", "high", "over", "low", "zero", "limits"}
  /\ index \in Vars /\ newValue \in Int
  /\ last \in [Vars -> Int] /\ sampled \in SUBSET Vars
  /\ lastAlarm \in Alarms \union {"None"}

Replies == [bytes : [b0 : SUBSET (Vars \X Alarms), efds : SUBSET ExtendedBits],
            of : SUBSET Vars, readings : [Vars -> Int], alerted : BOOLEAN]

HostTypes ==
  /\ tmp48 \in [Masters -> [Compared -> SUBSET ((Vars \X Alarms)
                                                  \union ExtendedBits)]]
  /\ fromPrimary \in Masters
  /\ cpc \in {"idle", "extract", "handle", "send"}
  /\ request \in [from : Masters, bytes : Echoes \union {None}]
  /\ reply \in Replies
  /\ acked \in [Masters -> Echoes \union {None}]
  /\ mixed \in SUBSET Masters /\ between \in BOOLEAN

Types == AlarmTypes /\ DataTypes /\ HostTypes

LEMMA TypesAreTypeOK == Types <=> TypeOK
BY ZenonT(30) DEF Types, AlarmTypes, DataTypes, HostTypes, Replies, TypeOK

\* The statuses setAlarm() and clearAlarm() write are statuses.
LEMMA StatusTypes ==
  /\ Good \in Status /\ Zero \in Status
  /\ \A a \in Alarms : StatusOf(a) \in Status
BY SMT DEF Good, Zero, Status, StatusOf, Alarms

\* A write of the variable's status byte, and the alert it works out.
LEMMA SetStatusTypes ==
  ASSUME AlarmTypes, NEW s \in Status, SetStatus(s)
  PROVE  dvStatus' \in [Vars -> Status] /\ alert' \in [Vars -> BOOLEAN]
<1> DEFINE w == s # Zero /\ (s.quality \in {"Bad", "Fixed"} \/ s.limit # "Not")
<1>1. /\ dvStatus' = [dvStatus EXCEPT ![index] = s]
      /\ alert' = [alert EXCEPT ![index] = w]
  BY Zenon DEF SetStatus
<1>2. w \in BOOLEAN
  OBVIOUS
<1> HIDE DEF w
<1> QED
  BY <1>1, <1>2, Zenon DEF AlarmTypes

LEMMA SetAlarmTypes ==
  ASSUME AlarmTypes, DataTypes, NEW a \in Alarms, setAlarm(a)
  PROVE  AlarmTypes'
<1> USE DEF AlarmTypes, DataTypes
<1>1. specific' \in SUBSET (Vars \X Alarms)
  BY SMT DEF setAlarm, setDeviceSpecific, OthersNibble
<1>2. dvStatus' \in [Vars -> Status] /\ alert' \in [Vars -> BOOLEAN]
  <2>1. SetStatus(StatusOf(a)) /\ StatusOf(a) \in Status
    BY StatusTypes, Zenon DEF setAlarm
  <2> QED
    BY <2>1, SetStatusTypes
<1>3. efds' \in SUBSET ExtendedBits /\ deviceStatus' \in SUBSET DeviceBits
  <2>1. CASE AlarmPV(a, StatusOf(a))
    BY <2>1, Zenon DEF AlarmPV, DeviceBits
  <2>2. CASE AlarmSV(a, StatusOf(a))
    <3>1. efds' \in SUBSET ExtendedBits
      BY SMT, <2>2 DEF AlarmSV, ClearedExtended, ExtendedBits
    <3>2. deviceStatus' \in SUBSET DeviceBits
      BY SMT, <2>2 DEF AlarmSV, DeviceBits
    <3> QED
      BY <3>1, <3>2
  <2> QED
    BY <2>1, <2>2, Zenon DEF setAlarm
<1> QED
  BY <1>1, <1>2, <1>3

\* A comparison of handle_alarms(), with or without its alarm.
LEMMA CompareTypes ==
  ASSUME Types, NEW here, NEW next \in Comparing, NEW holds, NEW a \in Alarms,
         Compare(here, next, holds, a)
  PROVE  Types'
<1>1. AlarmTypes'
  <2>1. CASE setAlarm(a)
    BY <2>1, SetAlarmTypes DEF Types
  <2>2. CASE UNCHANGED status
    BY <2>2, Zenon DEF Types, AlarmTypes, status
  <2> QED
    BY <2>1, <2>2, Zenon DEF Compare
<1>2. DataTypes'
  BY SMT DEF Compare, Types, DataTypes, Comparing
<1>3. HostTypes'
  BY Zenon DEF Compare, Types, HostTypes, cmdThread
<1> QED
  BY <1>1, <1>2, <1>3 DEF Types

LEMMA AlarmNames == /\ "ZeroValue" \in Alarms /\ "LoAlarm" \in Alarms
                    /\ "HiAlarm" \in Alarms /\ "OverRange" \in Alarms
BY DEF Alarms

\* What a host sends back is stored in bytes of its type.
LEMMA StoredTypes ==
  ASSUME NEW e \in Echoes \union {None}
  PROVE  Stored(e) \in [Compared -> SUBSET ((Vars \X Alarms)
                                               \union ExtendedBits)]
<1>1. e.b0 \in SUBSET (Vars \X Alarms) /\ e.efds \in SUBSET ExtendedBits
  BY EchoesAssumption, SMT DEF None
<1> QED
  BY SMT, <1>1 DEF Stored, Byte, Compared

\* The command and the burst thread write nothing of the alarms.
LEMMA HostsOnly ==
  CommandThread \/ BurstThread => UNCHANGED <<status, dataThread>>
BY Zenon DEF CommandThread, ReadStatus, SendBack, Receive, extractData,
             getCmd48Bytes, Send, BurstThread, burstThisCmd

\* The reply of command 48 and what a host sends back are of their types.
LEMMA HostStep ==
  ASSUME Types, CommandThread \/ BurstThread
  PROVE  Types'
<1> USE DEF Types, HostTypes
<1>b. AlarmTypes' /\ DataTypes'
  BY HostsOnly, Zenon DEF AlarmTypes, DataTypes, status, dataThread
<1>1. ASSUME NEW h \in Masters, ReadStatus(h)
      PROVE  HostTypes'
  BY SMT, <1>1 DEF ReadStatus, Receive
<1>2. ASSUME NEW h \in Masters, NEW e \in Echoes, SendBack(h, e)
      PROVE  HostTypes'
  <2>1. request' \in [from : Masters, bytes : Echoes \union {None}]
    BY <1>2, SMT DEF SendBack
  <2>2. /\ fromPrimary' = h /\ cpc' = "extract"
        /\ UNCHANGED <<tmp48, reply, acked, mixed, between>>
    BY <1>2, Zenon DEF SendBack, Receive
  <2> QED
    BY <2>1, <2>2, Zenon
<1>3. CASE extractData
  <2>1. /\ request.bytes \in Echoes \union {None} /\ request.from \in Masters
        /\ NoRequest \in [from : Masters, bytes : Echoes \union {None}]
    BY SMT DEF NoRequest, Masters
  <2>2. Stored(request.bytes) \in [Compared -> SUBSET ((Vars \X Alarms)
                                                        \union ExtendedBits)]
    BY <2>1, StoredTypes
  <2>3. tmp48' \in [Masters -> [Compared -> SUBSET ((Vars \X Alarms)
                                                      \union ExtendedBits)]]
    BY <1>3, <2>2, Zenon DEF extractData
  <2>4. acked' \in [Masters -> Echoes \union {None}] /\ mixed' \in SUBSET Masters
    <3>1. CASE ~between
      <4>1. /\ acked' = [acked EXCEPT ![request.from] = request.bytes]
            /\ mixed' = mixed \ {request.from}
        BY <1>3, <3>1, Zenon DEF extractData, Stores
      <4> QED
        BY <2>1, <4>1, Zenon
    <3>2. CASE between
      BY <1>3, <3>2, Zenon DEF extractData, Stores
    <3> QED
      BY <3>1, <3>2
  <2>5. reply' = reply /\ cpc' = "handle" /\ request' = NoRequest
        /\ fromPrimary' = fromPrimary /\ between' = FALSE
    BY <1>3, Zenon DEF extractData, Stores
  <2> QED
    BY <1>b, <2>1, <2>3, <2>4, <2>5, Zenon
<1>4. CASE getCmd48Bytes
  <2>1. ReplyNow \in Replies
    <3>1. (\E v \in Vars : alert[v]) \in BOOLEAN
      OBVIOUS
    <3>2. [b0 |-> specific, efds |-> efds]
            \in [b0 : SUBSET (Vars \X Alarms), efds : SUBSET ExtendedBits]
      BY SMT DEF AlarmTypes
    <3>3. sampled \in SUBSET Vars /\ last \in [Vars -> Int]
      BY DEF DataTypes
    <3> DEFINE alerted == \E v \in Vars : alert[v]
               bytes == [b0 |-> specific, efds |-> efds]
    <3>4. ReplyNow = [bytes |-> bytes, of |-> sampled, readings |-> last,
                      alerted |-> alerted]
      BY DEF ReplyNow
    <3> HIDE DEF alerted, bytes
    <3>5. alerted \in BOOLEAN
      BY <3>1 DEF alerted
    <3>6. bytes \in [b0 : SUBSET (Vars \X Alarms), efds : SUBSET ExtendedBits]
      BY <3>2 DEF bytes
    <3> QED
      BY <3>3, <3>4, <3>5, <3>6, Zenon DEF Replies
  <2>2. /\ UNCHANGED <<tmp48, fromPrimary, request, acked, mixed, between>>
        /\ cpc' = "send" /\ reply' = ReplyNow
    BY <1>4, Zenon DEF getCmd48Bytes
  <2> QED
    BY <1>b, <2>1, <2>2, Zenon
<1>5. CASE Send
  <2>1. NoReply \in Replies
    BY SMT DEF NoReply, None, Replies
  <2>2. /\ UNCHANGED <<tmp48, fromPrimary, request, acked, mixed, between>>
        /\ cpc' = "idle" /\ reply' = NoReply
    BY <1>5, Zenon DEF Send
  <2> QED
    BY <1>b, <2>1, <2>2, Zenon
<1>6. ASSUME NEW h \in Masters, burstThisCmd(h)
      PROVE  HostTypes'
  BY <1>6, Zenon DEF burstThisCmd
<1> QED
  BY <1>b, <1>1, <1>2, <1>3, <1>4, <1>5, <1>6 DEF CommandThread, BurstThread

\* Every step of both threads keeps the types.
LEMMA TypeStep == Types /\ [Next]_vars => Types'
<1> SUFFICES ASSUME Types, [Next]_vars
             PROVE  Types'
  OBVIOUS
<1>1. ASSUME NEW v \in Vars, NEW r \in Readings[v], NewReading(v, r)
      PROVE  Types'
  <2>1. r \in Int
    BY LimitsAssumption, Zenon
  <2>2. DataTypes'
    BY SMT, <1>1, <2>1 DEF NewReading, Types, DataTypes
  <2>3. AlarmTypes' /\ HostTypes'
    BY <1>1, Zenon DEF NewReading, Types, AlarmTypes, HostTypes, status,
                       cmdThread
  <2> QED
    BY <2>2, <2>3 DEF Types
<1>2. CASE ClearAlarm
  <2>1. specific' \in SUBSET (Vars \X Alarms)
    BY <1>2, SMT DEF ClearAlarm, OthersNibble, Types, AlarmTypes
  <2>2. dvStatus' \in [Vars -> Status] /\ alert' \in [Vars -> BOOLEAN]
    BY <1>2, StatusTypes, SetStatusTypes DEF ClearAlarm, Types
  <2>3. efds' \in SUBSET ExtendedBits /\ deviceStatus' \in SUBSET DeviceBits
    BY <1>2, Zenon DEF ClearAlarm, Types, AlarmTypes
  <2>4. DataTypes'
    BY SMT, <1>2 DEF ClearAlarm, Types, DataTypes
  <2>5. HostTypes'
    BY <1>2, Zenon DEF ClearAlarm, Types, HostTypes, cmdThread
  <2> QED
    BY <2>1, <2>2, <2>3, <2>4, <2>5 DEF Types, AlarmTypes
<1>3. CASE CompareHigh \/ CompareOver \/ CompareLow \/ CompareZero
  <2>1. /\ "over" \in Comparing /\ "low" \in Comparing
        /\ "zero" \in Comparing /\ "limits" \in Comparing
    BY DEF Comparing
  <2> QED
    BY <1>3, <2>1, AlarmNames, CompareTypes
       DEF CompareHigh, CompareOver, CompareLow, CompareZero
<1>4. CASE ClearLimits
  <2>1. deviceStatus' \in SUBSET DeviceBits
    BY SMT, <1>4 DEF ClearLimits, Types, AlarmTypes
  <2>2. UNCHANGED <<specific, dvStatus, alert, efds, cmdThread>>
    BY <1>4, Zenon DEF ClearLimits
  <2>3. AlarmTypes' /\ HostTypes'
    BY <2>1, <2>2, Zenon DEF Types, AlarmTypes, HostTypes, cmdThread
  <2>4. last' \in [Vars -> Int] /\ sampled' \in SUBSET Vars
    BY SMT, <1>4 DEF ClearLimits, Types, DataTypes
  <2>5. "PV" \in Vars /\ 0 \in Int
    BY SMT DEF Vars
  <2>6. lastAlarm' \in Alarms \union {"None"}
    <3>1. Zone("SV", newValue) \in Alarms \union {"None"}
      BY SMT DEF Zone, Alarms
    <3> QED
      BY <1>4, <3>1, Zenon DEF ClearLimits, Types, DataTypes
  <2>7. DataTypes'
    BY <1>4, <2>4, <2>5, <2>6, Zenon DEF ClearLimits, DataTypes
  <2> QED
    BY <2>3, <2>7 DEF Types
<1>5. CASE CommandThread \/ BurstThread
  BY <1>5, HostStep
<1>6. CASE UNCHANGED vars
  BY <1>6, Zenon DEF Types, AlarmTypes, DataTypes, HostTypes, vars, status,
                     dataThread, cmdThread
<1> QED
  BY <1>1, <1>2, <1>3, <1>4, <1>5, <1>6 DEF Next, DataThread

LEMMA TypeInit == Init => Types
<1> SUFFICES ASSUME Init PROVE Types
  OBVIOUS
<1>1. AlarmTypes
  BY SMT, StatusTypes DEF Init, AlarmTypes, Alarms, Vars, ExtendedBits,
                          DeviceBits, Status
<1>2. DataTypes
  <2>1. "PV" \in Vars /\ 0 \in Int
    BY SMT DEF Vars
  <2> QED
    BY <2>1, Zenon DEF Init, DataTypes
<1>3. tmp48 \in [Masters -> [Compared -> SUBSET ((Vars \X Alarms)
                                                    \union ExtendedBits)]]
  BY Zenon DEF Init
<1>4. NoReply \in Replies
  BY SMT DEF NoReply, None, Replies
<1>5. /\ acked \in [Masters -> Echoes \union {None}] /\ cpc = "idle"
      /\ mixed = {} /\ between = FALSE /\ reply = NoReply /\ request = NoRequest
      /\ fromPrimary = "Primary"
  BY Zenon DEF Init
<1>6. /\ NoRequest \in [from : Masters, bytes : Echoes \union {None}]
      /\ "Primary" \in Masters
  BY SMT DEF NoRequest, Masters
<1> QED
  BY <1>1, <1>2, <1>3, <1>4, <1>5, <1>6, Zenon DEF Types, HostTypes

\* Status bytes, alerts and the bytes a host sends back keep their types for
\* all limits, readings and hosts.
THEOREM TypeCorrect == Spec => []TypeOK
BY TypeInit, TypeStep, TypesAreTypeOK, PTL DEF Spec
-----------------------------------------------------------------------------
(* The alarms. *)

\* After the four comparisons the alarm left is the zone of the reading: that
\* each limit is tested without the next matters no more once they are in
\* order.
LEMMA SoFarIsZone ==
  ASSUME NEW v \in Vars, NEW x \in Int
  PROVE  SoFar("limits", v, x) = Zone(v, x)
<1>1. /\ lowerSensorLimit[v] \in Int /\ low_alarm[v] \in Int
      /\ high_alarm[v] \in Int /\ upperSensorLimit[v] \in Int
      /\ lowerSensorLimit[v] < low_alarm[v] /\ low_alarm[v] < high_alarm[v]
      /\ high_alarm[v] < upperSensorLimit[v]
  BY LimitsAssumption, Zenon
<1> QED
  BY SMT, <1>1 DEF SoFar, Zone

\* Each comparison that holds replaces the alarm, one that does not leaves it.
LEMMA SoFarSteps ==
  ASSUME NEW v, NEW x
  PROVE  /\ SoFar("high", v, x) = "None"
         /\ SoFar("over", v, x) = IF x >= high_alarm[v] THEN "HiAlarm"
                                  ELSE SoFar("high", v, x)
         /\ SoFar("low", v, x) = IF x >= upperSensorLimit[v] THEN "OverRange"
                                 ELSE SoFar("over", v, x)
         /\ SoFar("zero", v, x) = IF x <= low_alarm[v] THEN "LoAlarm"
                                  ELSE SoFar("low", v, x)
         /\ SoFar("limits", v, x) = IF x <= lowerSensorLimit[v]
                                    THEN "ZeroValue" ELSE SoFar("zero", v, x)
BY SMT DEF SoFar

\* A reading that raises the low alarm raised none before.
LEMMA LowIsFirst ==
  ASSUME NEW v \in Vars, NEW x \in Int, x <= low_alarm[v]
  PROVE  SoFar("low", v, x) = "None"
<1>1. /\ low_alarm[v] \in Int
      /\ high_alarm[v] \in Int /\ upperSensorLimit[v] \in Int
      /\ low_alarm[v] < high_alarm[v]
      /\ high_alarm[v] < upperSensorLimit[v]
  BY LimitsAssumption, Zenon
<1> QED
  BY SMT, <1>1 DEF SoFar

LEMMA AlarmStrings ==
  ASSUME NEW a \in Alarms
  PROVE  /\ a # "None"
         /\ StatusOf(a) # Zero
         /\ a \in Severe <=> a # "LoAlarm"
         /\ a = "ZeroValue" \/ a = "OverRange" \/ a = "HiAlarm" \/ a = "LoAlarm"
         /\ (\/ StatusOf(a).quality \in {"Bad", "Fixed"}
             \/ StatusOf(a).limit # "Not")
              <=> a \in {"ZeroValue", "OverRange"}
BY SMT DEF Alarms, StatusOf, Zero, Severe

\* setAlarm() brings its variable into the alarm and leaves the other one alone.
LEMMA SetAlarmReaches ==
  ASSUME Types, NEW a \in Alarms, setAlarm(a), NEW v \in Vars,
         index = "SV" /\ a = "LoAlarm" => efds = {}
  PROVE  /\ v = index => Reached(v, a)'
         /\ \A b : v # index /\ Reached(v, b) => Reached(v, b)'
<1> DEFINE s == StatusOf(a)
           w == s # Zero /\ (s.quality \in {"Bad", "Fixed"} \/ s.limit # "Not")
<1>1. /\ specific' = OthersNibble \union {<<index, a>>}
      /\ dvStatus' = [dvStatus EXCEPT ![index] = s]
      /\ alert' = [alert EXCEPT ![index] = w]
  BY Zenon DEF setAlarm, setDeviceSpecific, SetStatus
<1>2. w <=> a \in {"ZeroValue", "OverRange"}
  BY AlarmStrings, Zenon
<1>3. /\ dvStatus \in [Vars -> Status] /\ alert \in [Vars -> BOOLEAN]
      /\ index \in Vars
  BY Zenon DEF Types, AlarmTypes, DataTypes
<1>4. CASE v = index
  <2>1. Nibble(v)' = {<<v, a>>}
    BY SMT, <1>1, <1>4 DEF Nibble, OthersNibble
  <2>2. dvStatus'[v] = s
    BY <1>1, <1>3, <1>4, Zenon
  <2>3. alert'[v] <=> a \in {"ZeroValue", "OverRange"}
    <3> HIDE DEF w
    <3> QED
      BY <1>1, <1>2, <1>3, <1>4, Zenon
  <2>4. v = "SV" => efds' = IF a \in Severe THEN {"MaintReqd"} ELSE {}
    <3> SUFFICES ASSUME v = "SV"
                 PROVE  efds' = IF a \in Severe THEN {"MaintReqd"} ELSE {}
      OBVIOUS
    <3>1. AlarmSV(a, s)
      BY <1>4, SMT DEF setAlarm
    <3>2. CASE a = "LoAlarm"
      BY <3>1, <3>2, <1>4, AlarmStrings, Zenon DEF AlarmSV, ClearedExtended
    <3>3. CASE a # "LoAlarm"
      BY <3>1, <3>3, AlarmStrings, Zenon DEF AlarmSV
    <3> QED
      BY <3>2, <3>3
  <2>5. a # "None"
    BY AlarmStrings
  <2> HIDE DEF w
  <2> QED
    BY <1>4, <2>1, <2>2, <2>3, <2>4, <2>5, Zenon DEF Reached
<1>5. CASE v # index
  <2> SUFFICES ASSUME NEW b, Reached(v, b)
               PROVE  Reached(v, b)'
    BY <1>5
  <2>1. Nibble(v)' = Nibble(v)
    BY SMT, <1>1, <1>5 DEF Nibble, OthersNibble
  <2>2. dvStatus'[v] = dvStatus[v] /\ alert'[v] = alert[v]
    <3> HIDE DEF w
    <3> QED
      BY <1>1, <1>3, <1>5, Zenon
  <2>3. v = "SV" => efds' = efds
    <3> SUFFICES ASSUME v = "SV" PROVE efds' = efds
      OBVIOUS
    <3>1. index = "PV"
      BY <1>3, <1>5, SMT DEF Vars
    <3> QED
      BY <3>1, Zenon DEF setAlarm, AlarmPV
  <2> QED
    BY <2>1, <2>2, <2>3, Zenon DEF Reached
<1> QED
  BY <1>4, <1>5

\* clearAlarm() takes its variable out of every alarm and leaves the other one
\* alone.
LEMMA ClearAlarmReaches ==
  ASSUME Types, ClearAlarm, NEW v \in Vars
  PROVE  /\ v = index => Reached(v, "None")'
         /\ \A b : v # index /\ Reached(v, b) => Reached(v, b)'
<1> DEFINE w == Good # Zero /\ (Good.quality \in {"Bad", "Fixed"}
                                \/ Good.limit # "Not")
<1>1. /\ specific' = OthersNibble
      /\ dvStatus' = [dvStatus EXCEPT ![index] = Good]
      /\ alert' = [alert EXCEPT ![index] = w]
      /\ efds' = IF index = "SV" THEN {} ELSE efds
      /\ deviceStatus' = deviceStatus
  BY Zenon DEF ClearAlarm, SetStatus
<1>2. ~w
  BY SMT DEF Good, Zero
<1>3. /\ dvStatus \in [Vars -> Status] /\ alert \in [Vars -> BOOLEAN]
      /\ index \in Vars
  BY Zenon DEF Types, AlarmTypes, DataTypes
<1> HIDE DEF w
<1>4. CASE v = index
  <2>1. Nibble(v)' = {}
    BY SMT, <1>1, <1>4 DEF Nibble, OthersNibble
  <2>2. dvStatus'[v] = Good /\ ~alert'[v]
    BY <1>1, <1>2, <1>3, <1>4, Zenon
  <2>3. v = "SV" => efds' = {}
    BY <1>1, <1>4, Zenon
  <2>4. "None" \notin Severe \union {"ZeroValue", "OverRange"}
                               \union {"LoAlarm", "HiAlarm"}
    BY SMT DEF Severe
  <2> QED
    BY <1>4, <2>1, <2>2, <2>3, <2>4, SMT DEF Reached
<1>5. CASE v # index
  <2> SUFFICES ASSUME NEW b, Reached(v, b)
               PROVE  Reached(v, b)'
    BY <1>5
  <2>1. Nibble(v)' = Nibble(v)
    BY SMT, <1>1, <1>5 DEF Nibble, OthersNibble
  <2>2. dvStatus'[v] = dvStatus[v] /\ alert'[v] = alert[v]
    BY <1>1, <1>3, <1>5, Zenon
  <2>3. v = "SV" => efds' = efds
    BY <1>1, <1>5, Zenon
  <2> QED
    BY <1>1, <2>1, <2>2, <2>3, Zenon DEF Reached
<1> QED
  BY <1>4, <1>5

\* A comparison takes the status from one place of handle_alarms() to the next.
LEMMA CompareReaches ==
  ASSUME Types, AlarmInv, NEW here \in Comparing, NEW next \in Comparing,
         NEW holds, NEW a \in Alarms, Compare(here, next, holds, a),
         SoFar(next, index, newValue) = IF holds THEN a
                                        ELSE SoFar(here, index, newValue),
         index = "SV" /\ a = "LoAlarm" /\ holds => efds = {}
  PROVE  AlarmInv'
<1>1. /\ dpc = here /\ dpc' = next
      /\ UNCHANGED <<al_mutex, index, newValue, last, sampled>>
      /\ index \in Vars /\ sampled \subseteq Vars
      /\ IF holds THEN setAlarm(a) ELSE UNCHANGED status
  BY Zenon DEF Compare, Types, DataTypes
<1>2. here # "idle" /\ next # "idle"
  BY SMT DEF Comparing
<1>3. \A v \in Vars :
        /\ v = index => Reached(v, SoFar(next, index, newValue))'
        /\ \A b : v # index /\ Reached(v, b) => Reached(v, b)'
  <2> SUFFICES ASSUME NEW v \in Vars
               PROVE  /\ v = index => Reached(v, SoFar(next, index, newValue))'
                      /\ \A b : v # index /\ Reached(v, b) => Reached(v, b)'
    OBVIOUS
  <2>1. CASE holds
    <3>1. /\ v = index => Reached(v, a)'
          /\ \A b : v # index /\ Reached(v, b) => Reached(v, b)'
      BY <1>1, <2>1, SetAlarmReaches
    <3>2. SoFar(next, index, newValue)' = a
      BY <1>1, <2>1, Zenon DEF SoFar
    <3> QED
      BY <3>1, <3>2, Zenon DEF Reached
  <2>2. CASE ~holds
    <3>1. \A b : Reached(v, b) => Reached(v, b)'
      BY <1>1, <2>2, Zenon DEF Reached, Nibble, status
    <3>2. v = index => Reached(v, SoFar(here, index, newValue))
      BY <1>1, Zenon DEF AlarmInv
    <3>3. SoFar(next, index, newValue)' = SoFar(here, index, newValue)
      BY <1>1, <2>2, Zenon DEF SoFar
    <3> QED
      BY <3>1, <3>2, <3>3, Zenon DEF Reached
  <2> QED
    BY <2>1, <2>2
<1>4. (dpc \in Comparing => Reached(index, SoFar(dpc, index, newValue)))'
  BY <1>1, <1>3, Zenon DEF Reached, Nibble
<1>5. ASSUME NEW v \in sampled', v # index'
      PROVE  Reached(v, ZoneOf(v))'
  <2>1. Reached(v, ZoneOf(v)) /\ v \in Vars /\ v # index
    BY <1>1, <1>2, <1>5, Zenon DEF AlarmInv
  <2>2. ZoneOf(v)' = ZoneOf(v)
    BY <1>1, Zenon DEF ZoneOf, Zone
  <2> QED
    BY <1>3, <2>1, <2>2, Zenon DEF Reached
<1> QED
  BY <1>1, <1>2, <1>4, <1>5, Zenon DEF AlarmInv

\* The status on record is that of the alarm reached so far, at every place of
\* handle_alarms() and between two readings.
LEMMA AlarmStep == Types /\ AlarmInv /\ [Next]_vars => AlarmInv'
<1> SUFFICES ASSUME Types, AlarmInv, [Next]_vars
             PROVE  AlarmInv'
  OBVIOUS
<1>a. /\ index \in Vars /\ newValue \in Int /\ sampled \subseteq Vars
      /\ last \in [Vars -> Int]
  BY Zenon DEF Types, DataTypes
<1>b. /\ "high" \in Comparing /\ "over" \in Comparing /\ "low" \in Comparing
      /\ "zero" \in Comparing /\ "limits" \in Comparing
      /\ "idle" \notin Comparing /\ "clear" \notin Comparing
      /\ "high" # "idle" /\ "clear" # "idle" /\ "limits" # "idle"
  BY SMT DEF Comparing
<1>1. ASSUME NEW v \in Vars, NEW r \in Readings[v], NewReading(v, r)
      PROVE  AlarmInv'
  <2>1. /\ dpc = "idle" /\ dpc' = "clear" /\ al_mutex' = TRUE
        /\ UNCHANGED <<specific, dvStatus, alert, efds, deviceStatus, last,
                       sampled>>
    BY <1>1, Zenon DEF NewReading, status
  <2>2. ASSUME NEW w \in sampled
        PROVE  Reached(w, ZoneOf(w))'
    <3>1. Reached(w, ZoneOf(w))
      BY <2>1, Zenon DEF AlarmInv
    <3> QED
      BY <2>1, <3>1, Zenon DEF Reached, Nibble, ZoneOf, Zone
  <2> QED
    BY <1>b, <2>1, <2>2, Zenon DEF AlarmInv
<1>2. CASE ClearAlarm
  <2>1. /\ dpc = "clear" /\ dpc' = "high"
        /\ UNCHANGED <<al_mutex, index, newValue, last, sampled>>
    BY <1>2, Zenon DEF ClearAlarm
  <2>2. SoFar(dpc, index, newValue)' = "None"
    BY <2>1, SoFarSteps, Zenon DEF SoFar
  <2>3. Reached(index, SoFar(dpc, index, newValue))'
    BY <1>2, <1>a, <2>1, <2>2, ClearAlarmReaches, Zenon DEF Reached, Nibble
  <2>4. ASSUME NEW v \in sampled', v # index'
        PROVE  Reached(v, ZoneOf(v))'
    <3>1. Reached(v, ZoneOf(v)) /\ v \in Vars /\ v # index
      BY <1>a, <1>b, <2>1, <2>4, Zenon DEF AlarmInv
    <3>2. ZoneOf(v)' = ZoneOf(v)
      BY <2>1, Zenon DEF ZoneOf, Zone
    <3> QED
      BY <1>2, <3>1, <3>2, ClearAlarmReaches, Zenon DEF Reached
  <2> QED
    BY <1>b, <2>1, <2>3, <2>4, Zenon DEF AlarmInv
<1>3. CASE CompareHigh
  BY <1>3, <1>a, <1>b, AlarmNames, SoFarSteps, CompareReaches,
     "HiAlarm" # "LoAlarm" DEF CompareHigh
<1>4. CASE CompareOver
  BY <1>4, <1>a, <1>b, AlarmNames, SoFarSteps, CompareReaches,
     "OverRange" # "LoAlarm" DEF CompareOver
<1>5. CASE CompareLow
  <2>1. index = "SV" /\ newValue <= low_alarm[index] => efds = {}
    <3> SUFFICES ASSUME index = "SV", newValue <= low_alarm[index]
                 PROVE  efds = {}
      OBVIOUS
    <3>1. dpc = "low"
      BY <1>5, Zenon DEF CompareLow, Compare
    <3>2. Reached(index, "None")
      BY <1>a, <1>b, <3>1, LowIsFirst, Zenon DEF AlarmInv
    <3>3. "None" \notin Severe
      BY SMT DEF Severe
    <3> QED
      BY <3>2, <3>3, Zenon DEF Reached
  <2> QED
    BY <1>5, <1>a, <1>b, <2>1, AlarmNames, SoFarSteps, CompareReaches
       DEF CompareLow
<1>6. CASE CompareZero
  BY <1>6, <1>a, <1>b, AlarmNames, SoFarSteps, CompareReaches,
     "ZeroValue" # "LoAlarm" DEF CompareZero
<1>7. CASE ClearLimits
  <2>1. /\ dpc = "limits" /\ dpc' = "idle" /\ al_mutex' = FALSE
        /\ last' = [last EXCEPT ![index] = newValue]
        /\ sampled' = sampled \union {index}
        /\ UNCHANGED <<specific, dvStatus, alert, efds>>
    BY <1>7, Zenon DEF ClearLimits
  <2>3. \A v, b : Reached(v, b) => Reached(v, b)'
    BY <2>1, Zenon DEF Reached, Nibble
  <2>4. ASSUME NEW v \in sampled'
        PROVE  Reached(v, ZoneOf(v))'
    <3>1. CASE v = index
      <4>1. Reached(v, SoFar("limits", v, newValue))
        BY <1>b, <2>1, <3>1, Zenon DEF AlarmInv
      <4>2. ZoneOf(v)' = SoFar("limits", v, newValue)
        BY <1>a, <2>1, <3>1, SoFarIsZone, Zenon DEF ZoneOf, Zone
      <4> QED
        BY <2>3, <4>1, <4>2, Zenon DEF Reached
    <3>2. CASE v # index
      <4>1. v \in sampled /\ v \in Vars
        BY <1>a, <2>1, <2>4, <3>2, Zenon
      <4>2. Reached(v, ZoneOf(v))
        BY <3>2, <4>1, Zenon DEF AlarmInv
      <4>3. ZoneOf(v)' = ZoneOf(v)
        BY <1>a, <2>1, <3>2, <4>1, Zenon DEF ZoneOf, Zone
      <4> QED
        BY <2>3, <4>2, <4>3, Zenon DEF Reached
    <3> QED
      BY <3>1, <3>2
  <2> QED
    BY <1>b, <2>1, <2>4, Zenon DEF AlarmInv
<1>8. CASE CommandThread \/ BurstThread \/ UNCHANGED vars
  <2>1. UNCHANGED <<status, dataThread>>
    BY <1>8, HostsOnly, Zenon DEF vars
  <2>2. /\ UNCHANGED <<al_mutex, dpc, index, newValue, last, sampled>>
        /\ \A v, b : Reached(v, b) => Reached(v, b)'
    BY <2>1, Zenon DEF Reached, Nibble, status, dataThread
  <2>3. SoFar(dpc, index, newValue)' = SoFar(dpc, index, newValue)
    BY <2>2, Zenon DEF SoFar
  <2>4. \A v : ZoneOf(v)' = ZoneOf(v)
    BY <2>2, Zenon DEF ZoneOf, Zone
  <2>5. (dpc \in Comparing => Reached(index, SoFar(dpc, index, newValue)))'
    <3>1. dpc \in Comparing => Reached(index, SoFar(dpc, index, newValue))
      BY Zenon DEF AlarmInv
    <3>2. ASSUME dpc \in Comparing
          PROVE  Reached(index, SoFar(dpc, index, newValue))'
      <4>1. PICK v, a : v = index /\ a = SoFar(dpc, index, newValue)
        BY Zenon
      <4>2. Reached(v, a)'
        BY <2>2, <3>1, <3>2, <4>1, Zenon
      <4>3. index' = v /\ SoFar(dpc, index, newValue)' = a
        BY <2>2, <2>3, <4>1, Zenon
      <4> QED
        BY <4>2, <4>3, Zenon DEF Reached, Nibble
    <3> QED
      BY <2>2, <3>2, Zenon
  <2>6. ASSUME NEW v \in sampled', dpc' = "idle" \/ v # index'
        PROVE  Reached(v, ZoneOf(v))'
    <3>1. Reached(v, ZoneOf(v))
      BY <2>2, <2>6, Zenon DEF AlarmInv
    <3> QED
      BY <2>2, <2>4, <3>1, Zenon DEF Reached
  <2> QED
    BY <2>2, <2>5, <2>6, Zenon DEF AlarmInv
<1> QED
  BY <1>1, <1>2, <1>3, <1>4, <1>5, <1>6, <1>7, <1>8 DEF Next, DataThread

LEMMA AlarmInit == Init => AlarmInv
<1> SUFFICES ASSUME Init PROVE AlarmInv
  OBVIOUS
<1>1. dpc = "idle" /\ al_mutex = FALSE /\ sampled = {}
  BY Zenon DEF Init
<1>2. "idle" \notin Comparing
  BY SMT DEF Comparing
<1> QED
  BY <1>1, <1>2, Zenon DEF AlarmInv

LEMMA Invariant == Spec => [](Types /\ AlarmInv)
BY TypeInit, TypeStep, AlarmInit, AlarmStep, PTL DEF Spec

\* The status of a settled variable is that of the zone of its last reading.
LEMMA SettledReached ==
  ASSUME Types, AlarmInv, NEW v \in Vars, Settled(v)
  PROVE  Reached(v, ZoneOf(v))
BY Zenon DEF AlarmInv, Settled

\* For every order of readings of both variables, byte 0 of command 48 holds
\* the one alarm of the zone each settled reading lies in.
THEOREM SpecificFollowsReading == Spec => []SpecificMatchesReading
<1>1. Types /\ AlarmInv => SpecificMatchesReading
  BY SettledReached, Zenon DEF SpecificMatchesReading, Reached, Nibble
<1> QED
  BY <1>1, Invariant, PTL

\* The status byte of each variable and its alert follow the same reading.
THEOREM StatusFollowsReading == Spec => []StatusMatchesReading
<1>1. Types /\ AlarmInv => StatusMatchesReading
  BY SettledReached, Zenon DEF StatusMatchesReading, Reached
<1> QED
  BY <1>1, Invariant, PTL

\* The maintenance bit follows the tube current alone.
THEOREM MaintenanceFollowsCurrent == Spec => []MaintenanceMatchesCurrent
<1>1. "SV" \in Vars
  BY DEF Vars
<1>2. Types /\ AlarmInv => MaintenanceMatchesCurrent
  <2> SUFFICES ASSUME Types, AlarmInv, Settled("SV")
               PROVE  "MaintReqd" \in efds <=> ZoneOf("SV") \in Severe
    BY DEF MaintenanceMatchesCurrent
  <2>1. Reached("SV", ZoneOf("SV"))
    BY <1>1, SettledReached
  <2>2. efds = IF ZoneOf("SV") \in Severe THEN {"MaintReqd"} ELSE {}
    BY <2>1, Zenon DEF Reached
  <2> QED
    BY <2>2, SMT
<1> QED
  BY <1>2, Invariant, PTL

\* The alarm of the tube current raised last, within a reading or by it.
AlarmByNow ==
  IF index = "SV" /\ SoFar(dpc, "SV", newValue) # "None"
  THEN SoFar(dpc, "SV", newValue) ELSE lastAlarm

MalfunctionInv ==
  "DeviceMalfunction" \in deviceStatus <=> AlarmByNow = "ZeroValue"

\* Outside the comparisons no alarm is reached yet.
LEMMA NoneYet ==
  ASSUME NEW v, NEW x, NEW d \in {"idle", "clear", "high"}
  PROVE  SoFar(d, v, x) = "None"
BY SMT DEF SoFar

\* A comparison that holds puts the malfunction bit right by its alarm.
LEMMA CompareMalfunction ==
  ASSUME Types, MalfunctionInv, NEW here \in Comparing, NEW next \in Comparing,
         NEW holds, NEW a \in Alarms, Compare(here, next, holds, a),
         SoFar(next, index, newValue) = IF holds THEN a
                                        ELSE SoFar(here, index, newValue)
  PROVE  MalfunctionInv'
<1>1. /\ dpc = here /\ dpc' = next
      /\ UNCHANGED <<index, newValue, lastAlarm>>
      /\ index \in Vars
      /\ IF holds THEN setAlarm(a) ELSE UNCHANGED status
  BY Zenon DEF Compare, Types, DataTypes
<1>2. SoFar(dpc, index, newValue)' = SoFar(next, index, newValue)
  BY <1>1, Zenon DEF SoFar
<1>3. CASE ~holds
  <2>1. SoFar(dpc, index, newValue)' = SoFar(dpc, index, newValue)
    BY <1>1, <1>2, <1>3, Zenon
  <2>2. AlarmByNow' = AlarmByNow
    BY <1>1, <2>1, Zenon DEF AlarmByNow
  <2>3. deviceStatus' = deviceStatus
    BY <1>1, <1>3, Zenon DEF status
  <2> QED
    BY <2>2, <2>3, Zenon DEF MalfunctionInv
<1>4. CASE holds /\ index = "PV"
  <2>1. AlarmPV(a, StatusOf(a))
    BY <1>1, <1>4, Zenon DEF setAlarm
  <2>2. "DeviceMalfunction" \in deviceStatus'
          <=> "DeviceMalfunction" \in deviceStatus
    BY SMT, <2>1 DEF AlarmPV
  <2>3. AlarmByNow = lastAlarm /\ AlarmByNow' = lastAlarm
    BY <1>1, <1>4, SMT DEF AlarmByNow
  <2> QED
    BY <2>2, <2>3, Zenon DEF MalfunctionInv
<1>5. CASE holds /\ index = "SV"
  <2>1. AlarmSV(a, StatusOf(a))
    BY <1>1, <1>5, SMT DEF setAlarm
  <2>2. "DeviceMalfunction" \in deviceStatus' <=> a = "ZeroValue"
    BY SMT, <2>1 DEF AlarmSV, Alarms
  <2>3. a # "None"
    BY AlarmStrings
  <2>4. AlarmByNow' = a
    BY <1>1, <1>2, <1>5, <2>3, Zenon DEF AlarmByNow
  <2> QED
    BY <2>2, <2>4, Zenon DEF MalfunctionInv
<1> QED
  BY <1>1, <1>3, <1>4, <1>5, SMT DEF Vars

\* Only an alarm of the tube current moves the malfunction bit.
LEMMA MalfunctionStep == Types /\ MalfunctionInv /\ [Next]_vars => MalfunctionInv'
<1> SUFFICES ASSUME Types, MalfunctionInv, [Next]_vars
             PROVE  MalfunctionInv'
  OBVIOUS
<1>a. index \in Vars /\ newValue \in Int
  BY Zenon DEF Types, DataTypes
<1>b. /\ "high" \in Comparing /\ "over" \in Comparing /\ "low" \in Comparing
      /\ "zero" \in Comparing /\ "limits" \in Comparing
  BY SMT DEF Comparing
<1>1. ASSUME NEW v \in Vars, NEW r \in Readings[v], NewReading(v, r)
      PROVE  MalfunctionInv'
  <2>1. /\ dpc = "idle" /\ dpc' = "clear"
        /\ UNCHANGED <<deviceStatus, lastAlarm>>
    BY <1>1, Zenon DEF NewReading, status
  <2>2. AlarmByNow = lastAlarm /\ AlarmByNow' = lastAlarm
    BY <2>1, NoneYet, SMT DEF AlarmByNow
  <2> QED
    BY <2>1, <2>2, Zenon DEF MalfunctionInv
<1>2. CASE ClearAlarm
  <2>1. /\ dpc = "clear" /\ dpc' = "high"
        /\ UNCHANGED <<deviceStatus, lastAlarm>>
    BY <1>2, Zenon DEF ClearAlarm
  <2>2. AlarmByNow = lastAlarm /\ AlarmByNow' = lastAlarm
    BY <2>1, NoneYet, SMT DEF AlarmByNow
  <2> QED
    BY <2>1, <2>2, Zenon DEF MalfunctionInv
<1>3. CASE CompareHigh
  BY <1>3, <1>b, AlarmNames, SoFarSteps, CompareMalfunction DEF CompareHigh
<1>4. CASE CompareOver
  BY <1>4, <1>b, AlarmNames, SoFarSteps, CompareMalfunction DEF CompareOver
<1>5. CASE CompareLow
  BY <1>5, <1>b, AlarmNames, SoFarSteps, CompareMalfunction DEF CompareLow
<1>6. CASE CompareZero
  BY <1>6, <1>b, AlarmNames, SoFarSteps, CompareMalfunction DEF CompareZero
<1>7. CASE ClearLimits
  <2>1. /\ dpc = "limits" /\ dpc' = "idle"
        /\ lastAlarm' = IF index = "SV" /\ Zone("SV", newValue) # "None"
                        THEN Zone("SV", newValue) ELSE lastAlarm
    BY <1>7, Zenon DEF ClearLimits
  <2>2. "DeviceMalfunction" \in deviceStatus'
          <=> "DeviceMalfunction" \in deviceStatus
    BY <1>7, SMT DEF ClearLimits
  <2>3. AlarmByNow' = lastAlarm'
    BY <2>1, NoneYet, SMT DEF AlarmByNow
  <2>4. SoFar("limits", "SV", newValue) = Zone("SV", newValue)
    BY <1>a, SoFarIsZone DEF Vars
  <2>5. AlarmByNow = lastAlarm'
    BY <2>1, <2>4, Zenon DEF AlarmByNow
  <2> QED
    BY <2>2, <2>3, <2>5, Zenon DEF MalfunctionInv
<1>8. CASE CommandThread \/ BurstThread \/ UNCHANGED vars
  <2>1. UNCHANGED <<dpc, index, newValue, lastAlarm, deviceStatus>>
    BY <1>8, HostsOnly, Zenon DEF vars, status, dataThread
  <2> QED
    BY <2>1, Zenon DEF MalfunctionInv, AlarmByNow, SoFar
<1> QED
  BY <1>1, <1>2, <1>3, <1>4, <1>5, <1>6, <1>7, <1>8 DEF Next, DataThread

LEMMA MalfunctionInit == Init => MalfunctionInv
<1> SUFFICES ASSUME Init PROVE MalfunctionInv
  OBVIOUS
<1>1. /\ index = "PV" /\ lastAlarm = "None"
      /\ deviceStatus = {"PV_OutOfLimit"}
  BY Zenon DEF Init
<1> QED
  BY <1>1, SMT DEF MalfunctionInv, AlarmByNow

\* For all limits and readings the malfunction bit tells what the last alarm of
\* the tube current was: a power failure stays on record through good readings.
THEOREM MalfunctionFollowsAlarms == Spec => []MalfunctionTellsLastAlarm
<1>1. Types /\ AlarmInv /\ MalfunctionInv => MalfunctionTellsLastAlarm
  <2> SUFFICES ASSUME AlarmInv, MalfunctionInv, ~al_mutex
               PROVE  "DeviceMalfunction" \in deviceStatus
                        <=> lastAlarm = "ZeroValue"
    BY DEF MalfunctionTellsLastAlarm
  <2>1. dpc = "idle"
    BY Zenon DEF AlarmInv
  <2>2. AlarmByNow = lastAlarm
    BY <2>1, NoneYet, SMT DEF AlarmByNow
  <2> QED
    BY <2>2, Zenon DEF MalfunctionInv
<1> QED
  BY <1>1, Invariant, TypeInit, MalfunctionInit, MalfunctionStep, PTL DEF Spec
-----------------------------------------------------------------------------
(* The host's side of command 48. *)

\* What a reply shows is the status of the readings handled when it was made.
MatchedReply ==
  /\ \A v \in reply.of : {b \in reply.bytes.b0 : b[1] = v} =
       IF Zone(v, reply.readings[v]) = "None" THEN {}
       ELSE {<<v, Zone(v, reply.readings[v])>>}
  /\ "SV" \in reply.of =>
       reply.bytes.efds = IF Zone("SV", reply.readings["SV"]) \in Severe
                          THEN {"MaintReqd"} ELSE {}

\* match48() compares byte 0 alone: of what a host sends back only its first
\* byte reaches a place that is compared with anything else than 0.
StoredInv ==
  \A h \in Masters \ mixed :
    tmp48[h] = [k \in Compared |-> IF k = 0 THEN acked[h].b0 ELSE {}]

\* Undisturbed by a burst, the object names the master of the request.
FromInv == cpc = "extract" /\ ~between => fromPrimary = request.from

HostInv == StoredInv /\ FromInv /\ (cpc = "send" => MatchedReply)

LEMMA HostInvStep == Types /\ AlarmInv /\ HostInv /\ [Next]_vars => HostInv'
<1> SUFFICES ASSUME Types, AlarmInv, HostInv, [Next]_vars
             PROVE  HostInv'
  OBVIOUS
<1>1. CASE UNCHANGED cmdThread
  BY <1>1, Zenon DEF HostInv, StoredInv, FromInv, MatchedReply, cmdThread
<1>2. CASE \E h \in Masters :
        \/ ReadStatus(h) \/ burstThisCmd(h)
        \/ \E e \in Echoes : SendBack(h, e)
  <2>1. UNCHANGED <<tmp48, acked, mixed, reply>>
    BY <1>2, Zenon DEF ReadStatus, burstThisCmd, SendBack, Receive
  <2>2. cpc' = "send" => cpc = "send"
    BY <1>2, SMT DEF ReadStatus, burstThisCmd, SendBack
  <2>3. FromInv'
    <3>1. ASSUME NEW h \in Masters, ReadStatus(h)
          PROVE  FromInv'
      BY <3>1, SMT DEF ReadStatus, FromInv
    <3>2. ASSUME NEW h \in Masters, burstThisCmd(h)
          PROVE  FromInv'
      BY <3>2, Zenon DEF burstThisCmd, FromInv
    <3>3. ASSUME NEW h \in Masters, NEW e \in Echoes, SendBack(h, e)
          PROVE  FromInv'
      <4>1. fromPrimary' = h /\ request'.from = h
        BY <3>3, SMT DEF SendBack, Receive
      <4> QED
        BY <4>1, Zenon DEF FromInv
    <3> QED
      BY <1>2, <3>1, <3>2, <3>3
  <2> QED
    BY <2>1, <2>2, <2>3, Zenon DEF HostInv, StoredInv, MatchedReply
<1>3. CASE extractData
  <2> DEFINE e == request.bytes
             f == request.from
  <2>1. Stored(e) = [k \in Compared |-> IF k = 0 THEN e.b0 ELSE {}]
    BY SMT DEF Stored, Byte, Compared
  <2>2. /\ tmp48 \in [Masters -> [Compared -> SUBSET ((Vars \X Alarms)
                                                        \union ExtendedBits)]]
        /\ acked \in [Masters -> Echoes \union {None}]
    BY Zenon DEF Types, HostTypes
  <2>3. /\ tmp48' = [tmp48 EXCEPT ![fromPrimary] = Stored(e)]
        /\ Stores
        /\ cpc' = "handle"
    BY <1>3, Zenon DEF extractData
  <2>4. ASSUME NEW g \in Masters, g \notin mixed'
        PROVE  tmp48'[g] = [k \in Compared |-> IF k = 0 THEN acked'[g].b0
                                               ELSE {}]
    <3> HIDE DEF e, f
    <3>0. /\ fromPrimary = f
          /\ acked' = [acked EXCEPT ![f] = e] /\ mixed' = mixed \ {f}
      <4>1. ~between
        BY <2>3, <2>4, Zenon DEF Stores
      <4>2. fromPrimary = f
        BY <1>3, <4>1, Zenon DEF HostInv, FromInv, extractData, f
      <4> QED
        BY <2>3, <4>1, <4>2, Zenon DEF Stores, e, f
    <3>1. CASE g = f
      BY <2>1, <2>2, <2>3, <3>0, <3>1, Zenon
    <3>2. CASE g # f
      <4>1. tmp48'[g] = tmp48[g] /\ acked'[g] = acked[g] /\ g \notin mixed
        BY <2>2, <2>3, <2>4, <3>0, <3>2, Zenon
      <4>2. tmp48[g] = [k \in Compared |-> IF k = 0 THEN acked[g].b0 ELSE {}]
        <5>1. g \in Masters \ mixed
          BY <4>1
        <5> QED
          BY <5>1, Zenon DEF HostInv, StoredInv
      <4> QED
        BY <4>1, <4>2, Zenon
    <3> QED
      BY <3>1, <3>2
  <2> QED
    BY <2>3, <2>4, SMT DEF HostInv, StoredInv, FromInv
<1>4. CASE getCmd48Bytes
  <2>1. /\ ~al_mutex /\ UNCHANGED <<tmp48, acked, mixed>>
        /\ reply' = ReplyNow /\ cpc' = "send"
    BY <1>4, Zenon DEF getCmd48Bytes
  <2>2. /\ reply'.of = sampled /\ reply'.readings = last
        /\ reply'.bytes.b0 = specific /\ reply'.bytes.efds = efds
    BY <2>1, SMT DEF ReplyNow
  <2>3. \A v \in sampled : Reached(v, Zone(v, last[v]))
    <3>1. sampled \subseteq Vars
      BY Zenon DEF Types, DataTypes
    <3> QED
      BY <2>1, <3>1, SettledReached, Zenon DEF Settled, ZoneOf
  <2>4. MatchedReply'
    <3>1. \A v : Zone(v, reply.readings[v])' = Zone(v, last[v])
      BY <2>2, Zenon DEF Zone
    <3>2. ASSUME NEW v \in reply'.of
          PROVE  {b \in reply'.bytes.b0 : b[1] = v} =
                   IF Zone(v, last[v]) = "None" THEN {}
                   ELSE {<<v, Zone(v, last[v])>>}
      BY <2>2, <2>3, Zenon DEF Reached, Nibble
    <3>3. "SV" \in reply'.of =>
            reply'.bytes.efds = IF Zone("SV", last["SV"]) \in Severe
                                THEN {"MaintReqd"} ELSE {}
      BY <2>2, <2>3, Zenon DEF Reached
    <3> QED
      BY <3>1, <3>2, <3>3, Zenon DEF MatchedReply
  <2> QED
    BY <2>1, <2>4, "send" # "extract", Zenon DEF HostInv, StoredInv, FromInv
<1>5. CASE Send
  <2>1. UNCHANGED <<tmp48, acked, mixed>> /\ cpc' = "idle"
    BY <1>5, Zenon DEF Send
  <2> QED
    BY <2>1, SMT DEF HostInv, StoredInv, FromInv
<1>6. CASE DataThread \/ UNCHANGED vars
  <2>1. UNCHANGED cmdThread
    BY <1>6, Zenon DEF DataThread, NewReading, ClearAlarm, CompareHigh,
         CompareOver, CompareLow, CompareZero, Compare, ClearLimits, vars
  <2> QED
    BY <1>1, <2>1
<1> QED
  BY <1>2, <1>3, <1>4, <1>5, <1>6 DEF Next, CommandThread, BurstThread

LEMMA HostInvInit == Init => HostInv
<1> SUFFICES ASSUME Init PROVE HostInv
  OBVIOUS
<1>1. cpc = "idle"
  BY Zenon DEF Init
<1>2. ASSUME NEW h \in Masters \ mixed
      PROVE  tmp48[h] = [k \in Compared |-> IF k = 0 THEN acked[h].b0 ELSE {}]
  <2>1. tmp48[h] = [k \in Compared |-> {}] /\ acked[h] = None
    BY <1>2, Zenon DEF Init
  <2>2. None.b0 = {}
    BY SMT DEF None
  <2> QED
    BY <2>1, <2>2, SMT
<1> QED
  BY <1>1, <1>2, SMT DEF HostInv, StoredInv, FromInv

\* However the readings and the requests interleave, a reply to command 48 is
\* of one moment between two readings.
THEOREM RepliesAreOfOneMoment == Spec => []ReplyOfOneMoment
<1>1. HostInv => ReplyOfOneMoment
  <2> SUFFICES ASSUME HostInv, cpc = "send"
               PROVE  /\ \A v \in reply.of : {b \in reply.bytes.b0 : b[1] = v} =
                           IF Zone(v, reply.readings[v]) = "None" THEN {}
                           ELSE {<<v, Zone(v, reply.readings[v])>>}
                      /\ "SV" \in reply.of =>
                           ("MaintReqd" \in reply.bytes.efds
                              <=> Zone("SV", reply.readings["SV"]) \in Severe)
    BY Zenon DEF ReplyOfOneMoment
  <2>1. MatchedReply
    BY Zenon DEF HostInv
  <2>2. "SV" \in reply.of =>
           ("MaintReqd" \in reply.bytes.efds
              <=> Zone("SV", reply.readings["SV"]) \in Severe)
    BY <2>1, SMT DEF MatchedReply
  <2> QED
    BY <2>1, <2>2, Zenon DEF MatchedReply
<1> QED
  BY <1>1, Invariant, HostInvInit, HostInvStep, PTL DEF Spec

\* Whatever a host sends back, its More Status Available bit tells whether byte
\* 0 is what it sent, for a host whose bytes no burst of command 48 exchanged
\* with the other's.
THEOREM MoreStatusIsByteZero == Spec => []MoreStatusTellsByteZero
<1>1. HostInv => MoreStatusTellsByteZero
  <2> SUFFICES ASSUME HostInv, NEW h \in Masters \ mixed
               PROVE  /\ acked[h] = [b0 |-> specific, efds |-> efds]
                           => match48(h)
                      /\ acked[h].b0 # specific => ~match48(h)
    BY DEF MoreStatusTellsByteZero
  <2>1. tmp48[h] = [k \in Compared |-> IF k = 0 THEN acked[h].b0 ELSE {}]
    BY Zenon DEF HostInv, StoredInv
  <2>2. match48(h) <=> acked[h].b0 = specific
    <3>1. ASSUME match48(h) PROVE acked[h].b0 = specific
      <4>1. 0 \in Compared
        BY DEF Compared
      <4>2. cmd48Data[0] = tmp48[h][0]
        BY <3>1, Zenon DEF match48
      <4> QED
        BY <2>1, <4>1, <4>2, Zenon DEF cmd48Data
    <3>2. ASSUME acked[h].b0 = specific PROVE match48(h)
      BY <2>1, <3>2, Zenon DEF match48, cmd48Data
    <3> QED
      BY <3>1, <3>2
  <2>3. acked[h] = [b0 |-> specific, efds |-> efds] => acked[h].b0 = specific
    BY SMT
  <2> QED
    BY <2>2, <2>3
<1> QED
  BY <1>1, Invariant, HostInvInit, HostInvStep, PTL DEF Spec
=============================================================================
