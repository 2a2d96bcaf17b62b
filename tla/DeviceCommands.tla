---------------------------- MODULE DeviceCommands ----------------------------
(***************************************************************************)
(* The data of the replies: what each command object takes from a request  *)
(* and what it puts into the answer (Commands/cmd_*.h, command.cpp).       *)
(*                                                                         *)
(* A reply is put together one item at a time, by the command thread for a *)
(* request and by the burst thread for a message that is due, with the     *)
(* same command objects and the same data: command 9 keeps the codes it is *)
(* asked for in the object, and a value is converted with the units its    *)
(* variable has when its turn comes.                                       *)
(*                                                                         *)
(* An item is its name, what it shows is a small number for the texts and  *)
(* codes a host writes, the unit it is expressed in for a converted value, *)
(* and 0 for the rest.  What writes do to the configuration counter and to *)
(* the file is module Configuration, response codes on their way to the    *)
(* host are module CommandReply, commands 35, 38, 48 and 103 to 109 are    *)
(* there and in modules PhysicalAlarms and BurstScheduler.                 *)
(***************************************************************************)
EXTENDS ResponseCodes, Sequences, FiniteSets

CONSTANTS
  Requests,       \* the requests the hosts send
  BurstCommands,  \* the commands that may be published
  IndexLists,     \* the lists of codes a burst message of command 9 may have
  UnitSet,        \* UnitSet[v]: the unit codes of variable v
  MaxAnswered,    \* codes command 9 answers, 4 in the code
  MaxWrites       \* bound: accepted writes

Threads == {"command", "burst"}
Other(t) == CHOOSE u \in Threads : u # t

\* devVarArray: PV, SV, TV, percent range, loop current, unsupported.
Variables == 0 .. 5
None == 6

\* The items a host writes, and what it writes into them.
Held == {"message", "tag", "descriptor", "date", "finalAssembly", "longTag",
         "countryCode", "siUnitCode", "processUnitTag", "totFalSafHndling",
         "totMode", "totDirection", "totRelayForced", "totRelayInverted"}
Texts == 0 .. 1

Commands == {0, 1, 2, 3, 7, 8, 9, 11, 12, 13, 14, 15, 16, 17, 18, 19, 20, 21,
             22, 31, 44, 50, 53, 54, 79, 90, 95, 120, 512, 513, 520, 521, 534,
             2560, 2561, 2562, 2563, 2688, 2689, 2690, 2692, 2693, 2864}

\* A request: short says that bytes are missing; codes are the device variable
\* codes in it, no more than command 9 has room for, value what it wants written
\* or compared.
Codes   == {list \in Seq(0 .. 255) : Len(list) <= 8}
Request == [cmd : Commands, short : BOOLEAN, codes : Codes, value : 0 .. 255]

ASSUME CommandAssumption ==
  /\ Requests \subseteq Request
  /\ BurstCommands \subseteq {1, 2, 3, 9}
  /\ IndexLists \subseteq Codes
  /\ UnitSet \in [Variables -> SUBSET (1 .. 255)]
  /\ \A v \in Variables : UnitSet[v] # {}
  /\ MaxAnswered \in Nat \ {0}
  /\ MaxWrites \in Nat

VARIABLES
  store,      \* the items a host writes
  simulated,  \* simulated[v]: the last command 79 for variable v
  units,      \* units[v]: deviceVar::Units
  slot,       \* the codes in the one cmd_09 object, requestCount of them
  task,       \* task[t]: what thread t is doing
  \* Bookkeeping for the properties: what accepted requests have written, how
  \* many have, and what the other thread has changed under the task of t.
  kept, writes, disturbed

vars == <<store, simulated, units, slot, task, kept, writes, disturbed>>
-----------------------------------------------------------------------------
(* The device variables. *)

\* devVarPtr(): the variable of a code.
devVarPtr(s) == CASE s \in 0 .. 2 -> s
                  [] s = 3        -> 5
                  [] s = 244      -> 3
                  [] s = 245      -> 4
                  [] s \in 246 .. 248 -> s - 246
                  [] s = 249      -> 5
                  [] OTHER        -> None

PV == 0
SV == 1
TV == 2

\* IS_TOTALIZER() is code 2; isDevVarIndex2Totalizer().
isDevVarIndex2Totalizer(s) == CASE s = 2 -> RC_SUCCESS
                                [] s < 2 -> RC_INDEX_DISALLOWED
                                [] OTHER -> RC_BAD_INDEX

\* The unit a value in base units comes out in: UnitSet[U] of a unit that is
\* not in the map makes one there that converts nothing.
BaseUnit == 0
frmStandard(v, u) == IF u \in UnitSet[v] THEN u ELSE BaseUnit
-----------------------------------------------------------------------------
(* What a reply is made of: plain items, the units of a variable, and values
   of a variable converted with the units of one. *)

Item(n)                  == [item |-> n, of |-> None, by |-> None]
ItemOf(n, v)             == [item |-> n, of |-> v, by |-> None]
Units(v)                 == ItemOf("Units", v)
convertAndInsert(n, v, w) == [item |-> n, of |-> v, by |-> w]
Value(v)                 == convertAndInsert("Value", v, v)
Items(names)             == [i \in DOMAIN names |-> Item(names[i])]

\* insertSelf(), insert() and convertAndInsert(): what an item shows now.
Shown(p) ==
  CASE p.by # None        -> frmStandard(p.by, units[p.by])
    [] p.item = "Units"   -> units[p.of]
    [] p.item \in Held    -> store[p.item]
    [] p.item \in {"lastDVcmdCode", "simulateUnits", "simulateValue"} ->
                            simulated[p.of]
    [] OTHER              -> 0

insert_Ident ==
  Items(<<"expansion", "mfrID", "devType", "reqPreambles", "univRev", "xmtrRev",
          "swRev", "hwRev", "flags", "devID", "myPreambles", "devVarCnt",
          "configChangeCnt", "extended_fld_dev_status", "MfgId",
          "PrivLabelDistr", "Profile">>)
-----------------------------------------------------------------------------
(* The command objects.  Each says what extractData() returns for a request,
   the places it writes the value of the request to, and the reply insert_Data()
   makes of a request that is not refused. *)

Command(rc, places, reply) == [rc |-> rc, writes |-> places, reply |-> reply]
Refused(rc)  == Command(rc, {}, <<>>)
Reads(reply) == Command(RC_SUCCESS, {}, reply)

\* A request whose bytes are missing is refused before anything is written.
Complete(r, c) == IF r.short THEN Refused(RC_TOO_FEW) ELSE c

\* Writes texts, all of them or none, and shows them.
Writes(r, names) ==
  Complete(r, Command(RC_SUCCESS, {<<"store", names[i]>> : i \in DOMAIN names},
                      Items(names)))

\* The device variable a request names, and a command that needs one.
Variable(r) == IF r.codes = <<>> THEN None ELSE devVarPtr(r.codes[1])
OfVariable(r, missing, c) ==
  Complete(r, IF Variable(r) = None THEN Refused(missing) ELSE c)

cmd_00(r) == Reads(insert_Ident)
cmd_01(r) == Reads(<<Units(PV), Value(PV)>>)
cmd_02(r) == Reads(Items(<<"loopCurrent", "percentRange">>))

\* Command 3 that converts the third variable with the units of the second.
cmd_03_OtherUnits(r) ==
  Reads(<<Item("loopCurrent"), Units(PV), Value(PV), Units(SV), Value(SV),
          Units(TV), convertAndInsert("Value", TV, SV)>>)

cmd_03(r) == Reads(<<Item("loopCurrent"), Units(PV), Value(PV), Units(SV),
                     Value(SV), Units(TV), Value(TV)>>)
cmd_07(r) == Reads(Items(<<"pollAddr", "loopCurrentMode">>))
cmd_08(r) == Reads(<<ItemOf("classification", PV), ItemOf("classification", SV),
                     ItemOf("classification", TV), Item("NOT_CLASFD")>>)

\* Command 9 keeps the codes in the object; insert_Data() goes on from there, and
\* a message that is published without any has no values.
cmd_09(r) == Command(IF r.codes = <<>> THEN RC_TOO_FEW ELSE RC_SUCCESS, {},
                     Items(<<"extended_fld_dev_status">>))
cmd_11(r) == IF r.short \/ r.value # store["tag"] THEN Refused(RC_DONOTSEND)
             ELSE Reads(insert_Ident)
cmd_12(r) == Reads(Items(<<"message">>))
cmd_13(r) == Reads(Items(<<"tag", "descriptor", "date">>))
cmd_14(r) == Reads(<<ItemOf("sensorSerialNumber", PV), Units(PV),
                     convertAndInsert("upperSensorLimit", PV, PV),
                     convertAndInsert("lowerSensorLimit", PV, PV),
                     convertAndInsert("minSpan", PV, PV)>>)
cmd_15(r) == Reads(<<Item("alarmSelectionCode"), Item("transferFunction"),
                     Units(PV), convertAndInsert("upperRangeValue", PV, PV),
                     convertAndInsert("lowerRangeValue", PV, PV),
                     ItemOf("dampingValue", PV), Item("wrtPrtCd"),
                     Item("NOT_USED"), Item("analogChannelFlags")>>)
cmd_16(r) == Reads(Items(<<"finalAssembly">>))
cmd_17(r) == Writes(r, <<"message">>)

\* Command 18 that extracts what there is before it counts the bytes.
cmd_18_TagFirst(r) ==
  IF r.short THEN Command(RC_TOO_FEW, {<<"store", "tag">>}, <<>>)
  ELSE Writes(r, <<"tag", "descriptor", "date">>)

cmd_18(r) == Writes(r, <<"tag", "descriptor", "date">>)
cmd_19(r) == Writes(r, <<"finalAssembly">>)
cmd_20(r) == Reads(Items(<<"longTag">>))

\* Command 21 compares the tag only in insert_Data().
cmd_21(r) == IF r.short \/ r.value # store["longTag"] THEN Refused(RC_DONOTSEND)
             ELSE Reads(insert_Ident)
cmd_22(r) == Writes(r, <<"longTag">>)
cmd_31(r) == Refused(RC_TOO_FEW)
cmd_44(r) ==
  Complete(r, IF r.value \notin UnitSet[PV] THEN Refused(RC_INVALID)
              ELSE Command(RC_SUCCESS, {<<"units", PV>>}, <<Units(PV)>>))
cmd_50(r) == Reads(Items(<<"PVidx", "SVidx", "TVidx", "NOT_USED">>))

\* The unit codes command 53 turns down: the expansion codes and the reserved.
BadUnit(u) == u \in 170 .. 219 \/ u >= 250

cmd_53(r) ==
  LET v == Variable(r)
  IN  Complete(r, IF BadUnit(r.value) THEN Refused(RC_MULTIPLE_12)
                  ELSE IF v = None THEN Refused(RC_INVALID)
                  ELSE Command(RC_SUCCESS, {<<"units", v>>},
                               <<ItemOf("activeDevVar", v), Units(v)>>))

\* The limits of any variable are converted with the units of the PV.
cmd_54(r) ==
  LET v == Variable(r)
  IN  OfVariable(r, RC_INVALID,
        Reads(<<ItemOf("activeDevVar", v), ItemOf("sensorSerialNumber", v),
                Units(v), convertAndInsert("upperSensorLimit", v, PV),
                convertAndInsert("lowerSensorLimit", v, PV),
                ItemOf("dampingValue", v), convertAndInsert("minSpan", v, PV),
                ItemOf("classification", v), ItemOf("deviceFamily", v),
                ItemOf("updatePeriod", v), ItemOf("properties", v)>>))

Simulation(v) ==
  <<ItemOf("activeDevVar", v), ItemOf("lastDVcmdCode", v),
    ItemOf("simulateUnits", v), ItemOf("simulateValue", v), Item("NOT_USED")>>

\* What command 79 carries is kept even when its code is refused; the status
\* item has no type, which leaves a good request with 255, a warning.
cmd_79(r) ==
  OfVariable(r, RC_BAD_INDEX,
    Command(IF r.value \in {0, 1} THEN RC_NO_TYPE ELSE RC_MULTIPLE_10,
            {<<"simulated", Variable(r)>>}, Simulation(Variable(r))))
cmd_90(r) == Reads(Items(<<"tm_mday", "tm_mon", "tm_year", "dateTimeStamp",
                           "tm_mday", "tm_mon", "tm_year", "dateTimeStamp",
                           "RTCflags">>))
cmd_95(r) == Reads(Items(<<"stx", "ack", "bak">>))

\* Command 120 starts a test on the device and is answered as one it lacks.
cmd_120(r) == Refused(RC_NOT_IMPLEM)
cmd_512(r) == Reads(Items(<<"countryCode", "siUnitCode">>))
cmd_513(r) == Writes(r, <<"countryCode", "siUnitCode">>)
cmd_520(r) == Reads(Items(<<"processUnitTag">>))
cmd_521(r) == Writes(r, <<"processUnitTag">>)

\* A variable that command 79 has not fixed is shown as not simulated.
cmd_534(r) ==
  LET v == Variable(r)
  IN  OfVariable(r, RC_INVALID,
        Reads(IF simulated[v] % 2 = 1 THEN Simulation(v)
              ELSE <<ItemOf("activeDevVar", v)>>
                     \o Items(<<"normal", "UNITCODE_NOT_USED", "NaN",
                                "NOT_USED">>)))

\* The commands for the totalizer.  All but 2561 set the byte count to 0 before
\* they look at it, so that every request is too short for them.
Totalizer(r, places, shows) ==
  LET rc == isDevVarIndex2Totalizer(r.codes[1])
  IN  OfVariable(r, RC_INVALID,
        IF rc # RC_SUCCESS THEN Refused(rc)
        ELSE Command(rc, places,
                     <<ItemOf("activeDevVar", Variable(r))>> \o shows))
ByteCntZeroed(r) == [r EXCEPT !.short = TRUE]
SetsTotalizer(r, name) ==
  Totalizer(ByteCntZeroed(r), {<<"store", name>>}, Items(<<name>>))

cmd_2560(r) == Totalizer(ByteCntZeroed(r), {},
                         Items(<<"totStatus", "totAddStatus">>))
cmd_2561(r) == Totalizer(r, {},
                         Items(<<"totFamDefRev", "devVar_Map", "totFalSafHndling",
                                 "totMode", "totDirection">>))
cmd_2562(r) == Totalizer(ByteCntZeroed(r), {},
                         Items(<<"totRelayForced", "totRelayInverted">>))
cmd_2563(r) == Totalizer(ByteCntZeroed(r), {},
                         <<Item("extended_fld_dev_status"),
                           ItemOf("classification", TV), Units(TV)>>
                           \o Items(<<"totValue", "totStatus", "totTimeStamp">>))
cmd_2688(r) == SetsTotalizer(r, "totFalSafHndling")
cmd_2689(r) == SetsTotalizer(r, "totMode")
cmd_2690(r) == SetsTotalizer(r, "totDirection")
cmd_2692(r) == SetsTotalizer(r, "totRelayForced")
cmd_2693(r) == SetsTotalizer(r, "totRelayInverted")
cmd_2864(r) == Totalizer(ByteCntZeroed(r), {},
                         <<ItemOf("activeDevVar", Variable(r)), Item("zero")>>)

\* The command of a request in the list of the device.
CommandOf(r) ==
  CASE r.cmd = 0  -> cmd_00(r)        [] r.cmd = 1  -> cmd_01(r)
    [] r.cmd = 2  -> cmd_02(r)        [] r.cmd = 3  -> cmd_03(r)
    [] r.cmd = 7  -> cmd_07(r)        [] r.cmd = 8  -> cmd_08(r)
    [] r.cmd = 9  -> cmd_09(r)        [] r.cmd = 11 -> cmd_11(r)
    [] r.cmd = 12 -> cmd_12(r)        [] r.cmd = 13 -> cmd_13(r)
    [] r.cmd = 14 -> cmd_14(r)        [] r.cmd = 15 -> cmd_15(r)
    [] r.cmd = 16 -> cmd_16(r)        [] r.cmd = 17 -> cmd_17(r)
    [] r.cmd = 18 -> cmd_18(r)        [] r.cmd = 19 -> cmd_19(r)
    [] r.cmd = 20 -> cmd_20(r)        [] r.cmd = 21 -> cmd_21(r)
    [] r.cmd = 22 -> cmd_22(r)        [] r.cmd = 31 -> cmd_31(r)
    [] r.cmd = 44 -> cmd_44(r)        [] r.cmd = 50 -> cmd_50(r)
    [] r.cmd = 53 -> cmd_53(r)        [] r.cmd = 54 -> cmd_54(r)
    [] r.cmd = 79 -> cmd_79(r)        [] r.cmd = 90 -> cmd_90(r)
    [] r.cmd = 95 -> cmd_95(r)        [] r.cmd = 120 -> cmd_120(r)
    [] r.cmd = 512 -> cmd_512(r)      [] r.cmd = 513 -> cmd_513(r)
    [] r.cmd = 520 -> cmd_520(r)      [] r.cmd = 521 -> cmd_521(r)
    [] r.cmd = 534 -> cmd_534(r)      [] r.cmd = 2560 -> cmd_2560(r)
    [] r.cmd = 2561 -> cmd_2561(r)    [] r.cmd = 2562 -> cmd_2562(r)
    [] r.cmd = 2563 -> cmd_2563(r)    [] r.cmd = 2688 -> cmd_2688(r)
    [] r.cmd = 2689 -> cmd_2689(r)    [] r.cmd = 2690 -> cmd_2690(r)
    [] r.cmd = 2692 -> cmd_2692(r)    [] r.cmd = 2693 -> cmd_2693(r)
    [] r.cmd = 2864 -> cmd_2864(r)

\* Command 9: a code of a variable, and one without.
insertSlot(s) ==
  LET v == devVarPtr(s)
  IN  <<ItemOf("slot", s), ItemOf("classification", v), Units(v), Value(v),
        ItemOf("devVar_status", v)>>

insertUnsupported(s) ==
  <<ItemOf("slot", s)>>
    \o Items(<<"NOT_CLASFD", "UNITCODE_NOT_USED", "NaN", "STAT_NOT_USED">>)
-----------------------------------------------------------------------------
Nothing == [stage |-> "idle",
            req   |-> [cmd |-> 0, short |-> FALSE, codes |-> <<>>, value |-> 0],
            rc |-> RC_SUCCESS, todo |-> <<>>, next |-> 0, out |-> <<>>]

Init == /\ store = [i \in Held |-> 0]
        /\ simulated = [v \in Variables |-> 0]
        /\ units = [v \in Variables |-> CHOOSE u \in UnitSet[v] :
                                          \A w \in UnitSet[v] : u <= w]
        /\ slot = <<>>
        /\ task = [t \in Threads |-> Nothing]
        /\ kept = [i \in Held |-> 0]
        /\ writes = 0
        /\ disturbed = [t \in Threads |-> {}]

\* What a step of one thread changes under the task of thread t.
Disturb(t, what) ==
  [disturbed EXCEPT ![t] = IF task[t].stage = "idle" THEN @ ELSE @ \cup what]

\* What a thread goes through for request r, of which command 9 cuts the codes
\* down first.
Start(r, c) ==
  [Nothing EXCEPT !.stage = IF r.cmd = 9 /\ ~isError(c.rc) THEN "begin"
                            ELSE "insert",
                  !.req = r, !.rc = c.rc,
                  !.todo = IF isError(c.rc) THEN <<>> ELSE c.reply]

\* The response codes a command may come to.  After a good insert_Ident() command
\* 11 ends without a return statement, and returns whatever is there: success, an
\* error, a warning, or that there is to be no answer, which changes nothing here.
MayReturn(r, c) == IF r.cmd = 11 /\ c.rc = RC_SUCCESS
                   THEN {RC_SUCCESS, RC_INVALID, RC_NO_TYPE} ELSE {c.rc}

\* The command thread takes a request: cmd_base::handleCmd() up to insert_Data().
\* One that is not for this device gets no answer.
Receive(r) ==
  /\ task["command"].stage = "idle"
  /\ LET command == CommandOf(r)
         Written(place, old) == IF place \in command.writes THEN r.value ELSE old
     IN  /\ command.rc # RC_DONOTSEND
         /\ command.writes # {} => writes < MaxWrites
         /\ \E rc \in MayReturn(r, command) :
              task' = [task EXCEPT !["command"] =
                         Start(r, [command EXCEPT !.rc = rc])]
         /\ store' = [i \in Held |-> Written(<<"store", i>>, store[i])]
         /\ units' = [v \in Variables |-> Written(<<"units", v>>, units[v])]
         /\ simulated' = [v \in Variables |->
                            Written(<<"simulated", v>>, simulated[v])]
         /\ slot' = IF r.cmd = 9 THEN r.codes ELSE slot
         /\ kept' = [i \in Held |-> IF isError(command.rc) THEN kept[i]
                                    ELSE Written(<<"store", i>>, kept[i])]
         /\ writes' = writes + (IF command.writes # {} THEN 1 ELSE 0)
         /\ disturbed' = Disturb("burst",
                            (IF slot' # slot THEN {"slot"} ELSE {})
                              \cup (IF units' # units THEN {"units"} ELSE {}))

\* The codes of a list up to the first that is not used.
Used(list) ==
  LET unused == {i \in DOMAIN list : list[i] = 250}
      used   == {i \in DOMAIN list : \A j \in unused : i < j}
  IN  SubSeq(list, 1, Cardinality(used))

\* setIndexes() that adds to the codes that are there.
setIndexes_Adding(list) == slot' = slot \o Used(list)

\* setIndexes(): what was there before is gone.
setIndexes(list) == slot' = Used(list)

\* The burst thread has a message that is due: burstIt(), and burstThisCmd(),
\* which calls insert_Data() without an extractData().
Due(cmd, list) ==
  LET r == [Nothing.req EXCEPT !.cmd = cmd,
                               !.codes = IF cmd = 9 THEN Used(list) ELSE <<>>]
  IN  /\ task["burst"].stage = "idle"
      /\ task' = [task EXCEPT !["burst"] = Start(r, Reads(CommandOf(r).reply))]
      /\ IF cmd = 9 THEN setIndexes(list) ELSE UNCHANGED slot
      /\ disturbed' = Disturb("command", IF slot' # slot THEN {"slot"} ELSE {})
      /\ UNCHANGED <<store, simulated, units, kept, writes>>

\* insert_Data() of command 9 cuts the codes down to the ones it answers.
Begin(t) ==
  LET cut == Len(slot) > MaxAnswered
  IN  /\ task[t].stage = "begin"
      /\ task' = [task EXCEPT ![t].stage = "insert", ![t].next = 1,
                              ![t].rc = IF cut THEN RC_TRUNCATED ELSE @]
      /\ slot' = IF cut THEN SubSeq(slot, 1, MaxAnswered) ELSE slot
      /\ disturbed' = Disturb(Other(t), IF slot' # slot THEN {"slot"} ELSE {})
      /\ UNCHANGED <<store, simulated, units, kept, writes>>

\* The items that the other thread, too, can change: the rest goes into a reply
\* in one step, up to the next of these.
Shared(p) == p.item = "Units" \/ p.by # None

Insert(t) ==
  LET todo == task[t].todo
      own  == {i \in DOMAIN todo : \A j \in 1 .. i : ~Shared(todo[j])}
      n    == IF own = {} THEN 1 ELSE Cardinality(own)
      new  == [i \in 1 .. n |-> [part |-> todo[i], shows |-> Shown(todo[i])]]
  IN  /\ task[t].stage = "insert"
      /\ todo # <<>>
      /\ task' = [task EXCEPT ![t].todo = SubSeq(todo, n + 1, Len(todo)),
                              ![t].out = @ \o new]
      /\ UNCHANGED <<store, simulated, units, slot, kept, writes, disturbed>>

\* Command 9 with the next of the codes that are in the object now: one beyond
\* 250 refuses them all, code 3 is always answered as unsupported.
NextCode(t) ==
  LET n == task[t].next
      s == slot[n]
      new == IF s > 250
             THEN [task[t] EXCEPT !.rc = RC_INVALID, !.out = <<>>, !.next = 0]
             ELSE [task[t] EXCEPT !.next = n + 1,
                     !.todo = IF s # 3 /\ devVarPtr(s) # None THEN insertSlot(s)
                              ELSE insertUnsupported(s)]
  IN  /\ task[t].stage = "insert"
      /\ task[t].todo = <<>>
      /\ n \in 1 .. Len(slot)
      /\ task' = [task EXCEPT ![t] = new]
      /\ UNCHANGED <<store, simulated, units, slot, kept, writes, disturbed>>

\* Command 9 after the last code.
TimeStamp(t) ==
  /\ task[t].stage = "insert"
  /\ task[t].todo = <<>>
  /\ task[t].next > Len(slot)
  /\ task' = [task EXCEPT ![t].todo = Items(<<"dateTimeStamp">>), ![t].next = 0]
  /\ UNCHANGED <<store, simulated, units, slot, kept, writes, disturbed>>

\* insert_Data() is done, or was not called.
Done(t) == task[t].stage = "insert" /\ task[t].todo = <<>> /\ task[t].next = 0

Send(t) ==
  /\ Done(t)
  /\ task' = [task EXCEPT ![t] = Nothing]
  /\ disturbed' = [disturbed EXCEPT ![t] = {}]
  /\ UNCHANGED <<store, simulated, units, slot, kept, writes>>

InsertData(t) == Begin(t) \/ Insert(t) \/ NextCode(t) \/ TimeStamp(t)
                   \/ Send(t)

CommandThread == (\E r \in Requests : Receive(r)) \/ InsertData("command")

BurstThread ==
  \/ \E c \in BurstCommands, list \in IndexLists : Due(c, list)
  \/ InsertData("burst")

Next == CommandThread \/ BurstThread

Spec == Init /\ [][Next]_vars
-----------------------------------------------------------------------------
\* The unit a message names for variable v before its i-th item.
Named(out, v, i) ==
  LET before == {j \in 1 .. i - 1 : out[j].part = Units(v)}
  IN  out[CHOOSE j \in before : \A k \in before : k <= j].shows

\* Command 54 for a variable other than the PV (cmd_54.h:73).
WithUnitsOfPV(r) == r.cmd = 54 /\ ~r.short /\ devVarPtr(r.codes[1]) # PV

\* A value is sent in the units the same message names for its variable, as far
\* as the variable has such units: in every reply but that of command 54 for
\* another variable than the PV, and in every published message that no command
\* 44 or 53 changed the units under (cmd_01.h:63, cmd_03.h:66, cmd_09.h:168).
ValueInNamedUnits ==
  \A t \in Threads :
    LET out == task[t].out
    IN  Done(t) /\ "units" \notin disturbed[t]
          /\ ~WithUnitsOfPV(task[t].req)
        => \A i \in DOMAIN out :
             out[i].part.by # None =>
               LET v == out[i].part.of
               IN  out[i].shows = frmStandard(v, Named(out, v, i))

\* The codes that a message of command 9 answers are these, in this order.
Answers(out, list) ==
  LET slots == {i \in DOMAIN out : out[i].part.item = "slot"}
  IN  /\ Cardinality(slots) = Len(list)
      /\ \A i \in slots :
           out[i].part.of = list[Cardinality({j \in slots : j <= i})]

\* Command 9 answers the codes it was asked for, the first MaxAnswered of them
\* with a warning if there are more, or none if one of these is beyond 250:
\* whether a host asks or a burst message is due, and whatever was asked before,
\* unless the other thread changes the codes in the meantime (cmd_09.h:31-32).
CodesAnswered ==
  \A t \in Threads :
    LET asked == task[t].req.codes
        cut   == Len(asked) > MaxAnswered
        first == SubSeq(asked, 1, IF cut THEN MaxAnswered ELSE Len(asked))
    IN  Done(t) /\ task[t].req.cmd = 9 /\ "slot" \notin disturbed[t]
          /\ (t = "command" => asked # <<>>)
        => IF \E i \in DOMAIN first : first[i] > 250
           THEN task[t].rc = RC_INVALID /\ task[t].out = <<>>
           ELSE /\ Answers(task[t].out, first)
                /\ task[t].rc = IF cut THEN RC_TRUNCATED ELSE RC_SUCCESS

\* A reply shows what the last accepted request has written, whichever command
\* wrote it and whichever shows it, and never what a refused one carried
\* (cmd_18.h:45, cmd_c513.h:48).
ShowsLastAccepted ==
  \A i \in DOMAIN task["command"].out :
    LET o == task["command"].out[i]
    IN  o.part.item \in Held => o.shows = kept[o.part.item]
=============================================================================
