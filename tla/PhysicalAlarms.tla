--------------------------- MODULE PhysicalAlarms ---------------------------
(***************************************************************************)
(* The alarms of Hip_Native/PhysicalAlarms.cpp and their way to a host.    *)
(*                                                                         *)
(* The data thread hands every new reading of the flow (PV) and of the     *)
(* tube current (SV) to handle_alarms(), which holds al_mutex while it     *)
(* clears and sets four pieces of status: byte 0 of command 48, the status *)
(* of the device variable, the extended device status and the device       *)
(* status.  The command thread answers command 48 out of them, one short   *)
(* locked read after another, and tells a host by the More Status          *)
(* Available bit that byte 0 is not what that host last sent back.  Which  *)
(* host that was is a member of the command's object, which the burst      *)
(* thread shares and writes without a lock when it publishes command 48.   *)
(*                                                                         *)
(* A status byte is the set of its bits.                                   *)
(***************************************************************************)
EXTENDS Integers

Vars == {"PV", "SV"}
Masters == {"Primary", "Secondary"}

CONSTANTS
  Readings,   \* for each variable the values the data thread may hand over
  lowerSensorLimit, low_alarm, high_alarm, upperSensorLimit,
  Echoes      \* the status a host may send back, as [b0, efds]

\* FillDefaultValues writes the four limits in this order, and no command
\* changes them.
ASSUME LimitsAssumption ==
  \A v \in Vars : /\ Readings[v] \subseteq Int
                  /\ lowerSensorLimit[v] \in Int /\ low_alarm[v] \in Int
                  /\ high_alarm[v] \in Int /\ upperSensorLimit[v] \in Int
                  /\ lowerSensorLimit[v] < low_alarm[v]
                  /\ low_alarm[v] < high_alarm[v]
                  /\ high_alarm[v] < upperSensorLimit[v]

Alarms == {"ZeroValue", "LoAlarm", "HiAlarm", "OverRange"}
Status == [quality : {"Bad", "Poor", "Fixed", "Good"},
           limit   : {"Not", "Low", "Hi", "Const"}]
Good == [quality |-> "Good", limit |-> "Not"]
Zero == [quality |-> "Bad",  limit |-> "Not"]  \* the byte 0x00

ExtendedBits == {"MaintReqd", "DevVarAlert"}
DeviceBits   == {"PV_OutOfLimit", "NonPV_OutOfLimit", "DeviceMalfunction"}

ASSUME EchoesAssumption ==
  Echoes \subseteq [b0 : SUBSET (Vars \X Alarms), efds : SUBSET ExtendedBits]

VARIABLES
  specific,     \* cmd48Data[0]: the alarms of PV (low nibble) and SV (high)
  dvStatus,     \* devVars[..].devVar_status
  alert,        \* devVars[..].boolDevVarAlert, as the truth value it stands for
  efds,         \* extended_fld_dev_status
  deviceStatus,
  al_mutex,     \* held by the data thread
  dpc, index, newValue,  \* the data thread in handle_alarms()
  tmp48,        \* Pricmd48TmpData, Seccmd48TmpData: the bytes match48 compares
  fromPrimary,  \* of the one command 48 object, as the master it stands for
  cpc, request, \* the command thread, and what a host sends back with command
                \* 48, with the host it is from
  reply,        \* the reply to command 48 it builds, with the readings handled
                \* by then and whether one raised an alert (for the properties)
  \* Bookkeeping for the properties: the last reading of each variable whose
  \* handling is complete, the variables that had one, the zone of the last
  \* tube current that raised an alarm; what each host sent back last, the hosts
  \* whose bytes a burst may have exchanged, and whether there was a burst of
  \* command 48 since the request at hand was received.
  last, sampled, lastAlarm, acked, mixed, between

status == <<specific, dvStatus, alert, efds, deviceStatus>>
dataThread == <<al_mutex, dpc, index, newValue, last, sampled, lastAlarm>>
cmdThread  == <<tmp48, fromPrimary, cpc, request, reply, acked, mixed,
                between>>
vars == <<status, dataThread, cmdThread>>

Compared == {0, 6, 8}
None     == [b0 |-> {}, efds |-> {}]
NoRequest == [from |-> "Primary", bytes |-> None]
NoReply  == [bytes |-> None, of |-> {}, readings |-> [v \in Vars |-> 0],
             alerted |-> FALSE]

TypeOK ==
  /\ specific \in SUBSET (Vars \X Alarms)
  /\ dvStatus \in [Vars -> Status]
  /\ alert \in [Vars -> BOOLEAN]
  /\ efds \in SUBSET ExtendedBits
  /\ deviceStatus \in SUBSET DeviceBits
  /\ al_mutex \in BOOLEAN
  /\ dpc \in {"idle", "clear", "high", "over", "low", "zero", "limits"}
  /\ index \in Vars /\ newValue \in Int
  /\ tmp48 \in [Masters -> [Compared -> SUBSET ((Vars \X Alarms)
                                                  \union ExtendedBits)]]
  /\ fromPrimary \in Masters
  /\ cpc \in {"idle", "extract", "handle", "send"}
  /\ request \in [from : Masters, bytes : Echoes \union {None}]
  /\ reply \in [bytes : [b0 : SUBSET (Vars \X Alarms),
                          efds : SUBSET ExtendedBits],
                of : SUBSET Vars, readings : [Vars -> Int],
                alerted : BOOLEAN]
  /\ last \in [Vars -> Int] /\ sampled \in SUBSET Vars
  /\ lastAlarm \in Alarms \union {"None"}
  /\ acked \in [Masters -> Echoes \union {None}]
  /\ mixed \in SUBSET Masters /\ between \in BOOLEAN
-----------------------------------------------------------------------------
\* The zone of a reading: the reference the alarms are compared with.
Zone(v, value) == CASE value >= upperSensorLimit[v] -> "OverRange"
                    [] value <= lowerSensorLimit[v] -> "ZeroValue"
                    [] value < upperSensorLimit[v] /\ value >= high_alarm[v]
                         -> "HiAlarm"
                    [] value > lowerSensorLimit[v] /\ value <= low_alarm[v]
                         -> "LoAlarm"
                    [] OTHER -> "None"

(* Power-on.  The constructor of RTdata runs before the configuration is
   loaded: all limits are 0, devVar_Map maps PV and SV to index 0, and its
   arbitrary first value is a flow below 0.  handle_alarms() then puts the alarm
   of the flow into the high nibble and marks device variable 0. *)

Init ==
  /\ specific = {<<"SV", "ZeroValue">>}
  /\ \/ dvStatus = [v \in Vars |-> Good]  \* a first start fills the defaults
     \/ dvStatus = [v \in Vars |-> IF v = "PV"
                                   THEN [quality |-> "Bad", limit |-> "Low"]
                                   ELSE Zero]
  /\ alert = [v \in Vars |-> v = "PV"]
  /\ efds = {}
  /\ deviceStatus = {"PV_OutOfLimit"}
  /\ al_mutex = FALSE
  /\ dpc = "idle" /\ index = "PV" /\ newValue = 0
  /\ tmp48 = [h \in Masters |-> [k \in Compared |-> {}]]
  /\ fromPrimary = "Primary"
  /\ cpc = "idle" /\ request = NoRequest /\ reply = NoReply
  /\ last = [v \in Vars |-> 0] /\ sampled = {} /\ lastAlarm = "None"
  /\ acked = [h \in Masters |-> None] /\ mixed = {} /\ between = FALSE
-----------------------------------------------------------------------------
(* The data thread: updateFlow() and updateCurrent(), one reading at a time. *)

NewReading(v, value) ==
  /\ dpc = "idle"
  /\ ~al_mutex
  /\ al_mutex' = TRUE
  /\ dpc' = "clear" /\ index' = v /\ newValue' = value
  /\ UNCHANGED <<status, last, sampled, lastAlarm, cmdThread>>

OthersNibble == {b \in specific : b[1] # index}

\* set_PV_DeviceVariableStatus() and its twin: an alert is a bad or fixed
\* value, other than the byte 0, or one held at any limit.
SetStatus(s) ==
  /\ dvStatus' = [dvStatus EXCEPT ![index] = s]
  /\ alert' = [alert EXCEPT ![index] =
               s # Zero /\ (s.quality \in {"Bad", "Fixed"} \/ s.limit # "Not")]

\* clearAlarm()
ClearAlarm ==
  /\ dpc = "clear"
  /\ specific' = OthersNibble
  /\ SetStatus(Good)
  /\ efds' = IF index = "SV" THEN {} ELSE efds
  /\ dpc' = "high"
  /\ UNCHANGED <<deviceStatus, al_mutex, index, newValue, last, sampled,
                 lastAlarm, cmdThread>>

\* clr_ExtendedFieldDeviceStatus(), after the variable took status s.
ClearedExtended(s) == IF dvStatus["PV"] = Good /\ s = Zero THEN {} ELSE efds

\* setDeviceSpecific() that adds to the nibble instead of replacing it.
setDeviceSpecific_Adds(a) == specific' = specific \union {<<index, a>>}

\* setDeviceSpecific(): the nibble is replaced by the one alarm.
setDeviceSpecific(a) == specific' = OthersNibble \union {<<index, a>>}

\* setAlarm() for the flow ...
AlarmPV(a, s) ==
  /\ efds' = efds
  /\ deviceStatus' = IF s.quality = "Bad"
                     THEN deviceStatus \union {"PV_OutOfLimit"}
                     ELSE deviceStatus \ {"PV_OutOfLimit"}

\* AlarmSV() that reports a power failure in a bit this device does not have.
AlarmSV_PowerFail(a, s) ==
  /\ efds' = IF a = "ZeroValue" THEN {"PowerFail"} ELSE {"MaintReqd"}
  /\ deviceStatus' =
       CASE a = "ZeroValue" -> deviceStatus \union {"NonPV_OutOfLimit",
                                                    "DeviceMalfunction"}
         [] a = "OverRange" -> (deviceStatus \union {"NonPV_OutOfLimit"})
                                 \ {"DeviceMalfunction"}
         [] OTHER -> deviceStatus \ {"NonPV_OutOfLimit", "DeviceMalfunction"}

\* AlarmSV() without the extended status of the two outer alarms.
AlarmSV_NoMaintenance(a, s) ==
  /\ efds' = IF a = "HiAlarm" THEN {"MaintReqd"} ELSE ClearedExtended(s)
  /\ deviceStatus' =
       CASE a = "ZeroValue" -> deviceStatus \union {"NonPV_OutOfLimit",
                                                    "DeviceMalfunction"}
         [] a = "OverRange" -> (deviceStatus \union {"NonPV_OutOfLimit"})
                                 \ {"DeviceMalfunction"}
         [] OTHER -> deviceStatus \ {"NonPV_OutOfLimit", "DeviceMalfunction"}

\* AlarmSV() whose over-range case forgets the malfunction bit.
AlarmSV_KeepsMalfunction(a, s) ==
  /\ efds' = IF a = "LoAlarm" THEN ClearedExtended(s) ELSE {"MaintReqd"}
  /\ deviceStatus' =
       CASE a = "ZeroValue" -> deviceStatus \union {"NonPV_OutOfLimit",
                                                    "DeviceMalfunction"}
         [] a = "OverRange" -> deviceStatus \union {"NonPV_OutOfLimit"}
         [] OTHER -> deviceStatus \ {"NonPV_OutOfLimit"}

\* ... and for the tube current.
AlarmSV(a, s) ==
  /\ efds' = IF a = "LoAlarm" THEN ClearedExtended(s) ELSE {"MaintReqd"}
  /\ deviceStatus' =
       CASE a = "ZeroValue" -> deviceStatus \union {"NonPV_OutOfLimit",
                                                    "DeviceMalfunction"}
         [] a = "OverRange" -> (deviceStatus \union {"NonPV_OutOfLimit"})
                                 \ {"DeviceMalfunction"}
         [] OTHER -> deviceStatus \ {"NonPV_OutOfLimit", "DeviceMalfunction"}

\* The device variable status of an alarm.
StatusOf(a) == CASE a = "ZeroValue" -> [quality |-> "Bad", limit |-> "Low"]
                 [] a = "OverRange" -> [quality |-> "Bad", limit |-> "Hi"]
                 [] OTHER -> [quality |-> "Poor", limit |-> "Not"]

setAlarm(a) ==
  /\ setDeviceSpecific(a)
  /\ SetStatus(StatusOf(a))
  /\ IF index = "PV" THEN AlarmPV(a, StatusOf(a)) ELSE AlarmSV(a, StatusOf(a))

\* One of the four comparisons of handle_alarms().
Compare(here, next, holds, a) ==
  /\ dpc = here
  /\ dpc' = next
  /\ IF holds THEN setAlarm(a) ELSE UNCHANGED status
  /\ UNCHANGED <<al_mutex, index, newValue, last, sampled, lastAlarm,
                 cmdThread>>

\* CompareHigh() with a strict comparison.
CompareHigh_Strict ==
  Compare("high", "over", newValue > high_alarm[index], "HiAlarm")

CompareHigh == Compare("high", "over", newValue >= high_alarm[index], "HiAlarm")
CompareOver ==
  Compare("over", "low", newValue >= upperSensorLimit[index], "OverRange")
CompareLow  == Compare("low", "zero", newValue <= low_alarm[index], "LoAlarm")
CompareZero ==
  Compare("zero", "limits", newValue <= lowerSensorLimit[index], "ZeroValue")

overrange == \/ newValue >= upperSensorLimit[index]
             \/ newValue <= lowerSensorLimit[index]

\* The end of handle_alarms(): inside the limits one bit of the device status is
\* cleared, 0x01 after a tube current and 0x02 after a flow.
ClearLimits ==
  /\ dpc = "limits"
  /\ deviceStatus' = IF overrange THEN deviceStatus
                     ELSE IF index = "SV" THEN deviceStatus \ {"PV_OutOfLimit"}
                     ELSE deviceStatus \ {"NonPV_OutOfLimit"}
  /\ last' = [last EXCEPT ![index] = newValue]
  /\ sampled' = sampled \union {index}
  /\ lastAlarm' = IF index = "SV" /\ Zone("SV", newValue) # "None"
                  THEN Zone("SV", newValue) ELSE lastAlarm
  /\ al_mutex' = FALSE
  /\ dpc' = "idle" /\ index' = "PV" /\ newValue' = 0
  /\ UNCHANGED <<specific, dvStatus, alert, efds, cmdThread>>
-----------------------------------------------------------------------------
(* The command thread and command 48. *)

\* The nine bytes of the reply, as a set each: bytes 1 to 5, 7 and 8 are 0.
Byte(bytes, k) == CASE k = 0 -> bytes.b0
                    [] k = 6 -> bytes.efds
                    [] OTHER -> {}

\* The loop of extractData() increments its index twice a round: byte k of the
\* host goes to place 2k.
Stored(bytes) == [k \in Compared |-> Byte(bytes, k \div 2)]

\* handleCmd() takes the master of the request into the object of the command,
\* after a locked read of the device status.  Command 48 without data only
\* reads; with data it first stores what the host sends back.
Receive(h) ==
  /\ cpc = "idle"
  /\ ~al_mutex
  /\ fromPrimary' = h
  /\ UNCHANGED <<status, dataThread, tmp48, reply, acked, mixed, between>>

ReadStatus(h) ==
  /\ Receive(h)
  /\ cpc' = "handle"
  /\ UNCHANGED request

SendBack(h, bytes) ==
  /\ Receive(h)
  /\ cpc' = "extract"
  /\ request' = [from |-> h, bytes |-> bytes]

\* burstThisCmd() publishes command 48 to either master, at any time: the
\* messages take turns with the two masters, whichever command they carry.
burstThisCmd(h) ==
  /\ fromPrimary' = h
  /\ between' = (cpc = "extract")
  /\ UNCHANGED <<status, dataThread, tmp48, cpc, request, reply, acked, mixed>>

\* Bookkeeping: undisturbed, the store is of what the host of the request sent
\* last; with a burst in between, nothing is known of either place.
Stores ==
  /\ IF between
     THEN /\ acked' = [h \in Masters |-> None]
          /\ mixed' = Masters
     ELSE /\ acked' = [acked EXCEPT ![request.from] = request.bytes]
          /\ mixed' = mixed \ {request.from}
  /\ between' = FALSE

\* extractData() that keeps the bytes of both hosts in one place.
extractData_OnePlace ==
  /\ cpc = "extract"
  /\ tmp48' = [tmp48 EXCEPT !["Primary"] = Stored(request.bytes)]
  /\ Stores
  /\ cpc' = "handle" /\ request' = NoRequest
  /\ UNCHANGED <<status, dataThread, fromPrimary, reply>>

\* extractData(): the bytes go to the master the object names by now.  When
\* that is the other one, that one's bytes are gone and this one's not stored.
extractData ==
  /\ cpc = "extract"
  /\ tmp48' = [tmp48 EXCEPT ![fromPrimary] = Stored(request.bytes)]
  /\ Stores
  /\ cpc' = "handle" /\ request' = NoRequest
  /\ UNCHANGED <<status, dataThread, fromPrimary, reply>>

ReplyNow == [bytes |-> [b0 |-> specific, efds |-> efds], of |-> sampled,
             readings |-> last, alerted |-> \E v \in Vars : alert[v]]

\* getCmd48Bytes() without its lock.
getCmd48Bytes_Unlocked ==
  /\ cpc = "handle"
  /\ reply' = ReplyNow
  /\ cpc' = "send"
  /\ UNCHANGED <<status, dataThread, tmp48, fromPrimary, request, acked, mixed,
                 between>>

\* getCmd48Bytes(): the extended status goes out as it is stored; the alert bit
\* the function computes beside it is dropped.
getCmd48Bytes ==
  /\ cpc = "handle"
  /\ ~al_mutex
  /\ reply' = ReplyNow
  /\ cpc' = "send"
  /\ UNCHANGED <<status, dataThread, tmp48, fromPrimary, request, acked, mixed,
                 between>>

\* cmd48Data: only byte 0 of it is ever written.
cmd48Data == [k \in Compared |-> IF k = 0 THEN specific ELSE {}]

\* match48(): what the host sent last is what the device has.
match48(h) == cmd48Data = tmp48[h]

\* The reply leaves with its More Status Available bit; match48() waits for
\* the lock.
Send ==
  /\ cpc = "send"
  /\ ~al_mutex
  /\ cpc' = "idle"
  /\ reply' = NoReply
  /\ UNCHANGED <<status, dataThread, tmp48, fromPrimary, request, acked, mixed,
                 between>>
-----------------------------------------------------------------------------
DataThread == \/ \E v \in Vars : \E r \in Readings[v] : NewReading(v, r)
              \/ ClearAlarm
              \/ CompareHigh \/ CompareOver \/ CompareLow \/ CompareZero
              \/ ClearLimits

CommandThread == \/ \E h \in Masters : ReadStatus(h)
                 \/ \E h \in Masters : \E e \in Echoes : SendBack(h, e)
                 \/ extractData \/ getCmd48Bytes \/ Send

BurstThread == \E h \in Masters : burstThisCmd(h)

Next == DataThread \/ CommandThread \/ BurstThread

Spec == Init /\ [][Next]_vars
-----------------------------------------------------------------------------
Settled(v) == ~al_mutex /\ v \in sampled
ZoneOf(v)  == Zone(v, last[v])
Severe     == {"ZeroValue", "HiAlarm", "OverRange"}

\* Whatever alarms a variable had before, once a reading is handled its nibble
\* of command 48 byte 0 holds the one alarm of the zone the reading lies in, and
\* nothing when there is none (handle_alarms tests four limits in turn and each
\* setAlarm replaces the one before).
SpecificMatchesReading ==
  \A v \in Vars : Settled(v) =>
    {b \in specific : b[1] = v} = IF ZoneOf(v) = "None" THEN {}
                                  ELSE {<<v, ZoneOf(v)>>}

\* The status byte of the variable and its alert follow the same reading: Good
\* without an alarm, Poor between alarm and sensor limit, Bad and limited at or
\* beyond a sensor limit; only Bad is an alert.
StatusMatchesReading ==
  \A v \in Vars : Settled(v) =>
    /\ dvStatus[v] = IF ZoneOf(v) = "None" THEN Good ELSE StatusOf(ZoneOf(v))
    /\ alert[v] <=> ZoneOf(v) \in {"ZeroValue", "OverRange"}

\* Maintenance is required exactly while the last tube current raised an alarm
\* other than the low one; readings of the flow never disturb it, though both
\* are handled by the same four comparisons.
MaintenanceMatchesCurrent ==
  Settled("SV") => ("MaintReqd" \in efds <=> ZoneOf("SV") \in Severe)

\* Between two readings the malfunction bit ("this is basically a power supply
\* failure") is there exactly when the last tube current that raised any alarm
\* was at or below its lowest limit.  A good current raises none: the bit of a
\* failure outlives the failure, through any number of good readings and all
\* readings of the flow, until some other alarm of the tube current clears it.
MalfunctionTellsLastAlarm ==
  ~al_mutex =>
    ("DeviceMalfunction" \in deviceStatus <=> lastAlarm = "ZeroValue")

\* A reply to command 48 shows the last readings that were handled when it was
\* made, in the alarms of both variables and in the maintenance bit of the
\* extended status, and never the moment between the clearing and the setting
\* of an alarm.
ReplyOfOneMoment ==
  cpc = "send" =>
    LET ZoneThen(v) == Zone(v, reply.readings[v])
    IN  /\ \A v \in reply.of : {b \in reply.bytes.b0 : b[1] = v} =
             IF ZoneThen(v) = "None" THEN {} ELSE {<<v, ZoneThen(v)>>}
        /\ "SV" \in reply.of =>
             ("MaintReqd" \in reply.bytes.efds <=> ZoneThen("SV") \in Severe)

\* The More Status Available bit of a host goes out once the host sent back the
\* status the device has, and is there whenever byte 0 differs from what that
\* host sent back last.  That is so for every host unless a burst
\* of command 48 fell between the receipt of a request of either and its storing
\* (and again once such a host sent its status undisturbed).
MoreStatusTellsByteZero ==
  ~al_mutex =>
    \A h \in Masters \ mixed :
      /\ acked[h] = [b0 |-> specific, efds |-> efds] => match48(h)
      /\ acked[h].b0 # specific => ~match48(h)

\* The extended status a host reads holds the device variable alert exactly
\* when one of the variables is in alert, once both had a reading: "the Extended
\* Device Status will be rolled up from DevVarStati", and of each alert, "set
\* extended has to roll these up".
AlertsRolledUp ==
  cpc = "send" /\ reply.of = Vars =>
    ("DevVarAlert" \in reply.bytes.efds <=> reply.alerted)
=============================================================================
