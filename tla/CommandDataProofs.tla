--------------------------- MODULE CommandDataProofs ---------------------------
(***************************************************************************)
(* Proofs about the commands that read and set the device (DeviceCommands) *)
(* and about the data items they read and set (DataItems).  In this order: *)
(*                                                                         *)
(*   - natural numbers and sequences, for what follows;                    *)
(*   - what a command's reply is made of and what a call may leave in the  *)
(*     device, item by item: the typing of DeviceCommands, TypeInv;        *)
(*   - the replies show what was last accepted: ShowsInv;                  *)
(*   - a value is followed by the units it is in: UnitsInv;                *)
(*   - a reply is one of the codes of its command: CodesInv;               *)
(*   - the widths of data items, setValue() overload by overload, numbers  *)
(*     as bytes and back, and the invariants ItemInv and NamesInv.         *)
(***************************************************************************)
EXTENDS DeviceCommands, DataItems, SequenceTheorems, FunctionTheorems,
        FiniteSetTheorems, TLAPS

-----------------------------------------------------------------------------
(* Natural numbers.  The induction theorems of the library are about a formula,
   which the provers cannot be given; these are about a set. *)

\* Least element.
LEMMA Least ==
  ASSUME NEW A \in SUBSET Nat, A # {}
  PROVE  \E n \in A : \A m \in A : n <= m
<1> DEFINE T == {0 .. n : n \in A}
<1>1. T \subseteq FiniteSubsetsOf(Nat) /\ T # {}
  <2>1. \A n \in Nat : 0 .. n \in SUBSET Nat /\ IsFiniteSet(0 .. n)
    BY FS_Interval
  <2>2. QED
    BY <2>1 DEF FiniteSubsetsOf
<1>2. IsWellFoundedOn(StrictSubsetOrdering(Nat), FiniteSubsetsOf(Nat))
  BY FS_StrictSubsetOrderingWellFounded
<1>3. PICK x \in T : \A y \in T : ~ (<<y, x>> \in StrictSubsetOrdering(Nat))
  <2> HIDE DEF T
  <2>1. QED BY <1>1, <1>2, WFMin
<1>4. PICK n \in A : x = 0 .. n
  BY <1>3
<1>5. ASSUME NEW m \in A PROVE n <= m
  <2>1. SUFFICES ASSUME m < n PROVE FALSE
    OBVIOUS
  <2>2. 0 .. m \in SUBSET Nat /\ 0 .. n \in SUBSET Nat /\ 0 .. m \subseteq 0 .. n /\ 0 .. m # 0 .. n
    BY <2>1
  <2>3. <<0 .. m, 0 .. n>> \in StrictSubsetOrdering(Nat)
    BY <2>2 DEF StrictSubsetOrdering
  <2>4. QED
    BY <2>3, <1>3, <1>4
<1>6. QED
  BY <1>5

LEMMA Induct ==
  ASSUME NEW A, 0 \in A, \A n \in Nat : n \in A => n + 1 \in A
  PROVE  Nat \subseteq A
<1> DEFINE B == {n \in Nat : n \notin A}
<1>1. SUFFICES ASSUME B # {} PROVE FALSE
  OBVIOUS
<1>2. PICK n \in B : \A m \in B : n <= m
  BY <1>1, Least
<1>3. n - 1 \in Nat /\ n - 1 \notin B
  BY <1>2
<1>4. QED
  BY <1>3

-----------------------------------------------------------------------------
(* Replies: what they are made of. *)

Converted == {"Value", "upperSensorLimit", "lowerSensorLimit", "minSpan",
              "upperRangeValue", "lowerRangeValue"}
OfOne     == {"Units", "lastDVcmdCode", "simulateUnits", "simulateValue"}

\* The names of items that show nothing of a variable.
PlainNames == Held \cup {"ack", "activeDevVar", "alarmSelectionCode",
  "analogChannelFlags", "bak", "classification", "configChangeCnt",
  "dampingValue", "dateTimeStamp", "deviceFamily", "devID", "devType",
  "devVar_Map", "devVar_status", "devVarCnt", "expansion",
  "extended_fld_dev_status", "flags", "hwRev", "loopCurrent",
  "loopCurrentMode", "MfgId", "mfrID", "myPreambles", "NaN", "normal",
  "NOT_CLASFD", "NOT_USED", "percentRange", "pollAddr", "PrivLabelDistr",
  "Profile", "properties", "PVidx", "reqPreambles", "RTCflags",
  "sensorSerialNumber", "STAT_NOT_USED", "stx", "SVidx", "swRev", "tm_mday",
  "tm_mon", "tm_year", "totAddStatus", "totFamDefRev", "totStatus",
  "totTimeStamp", "totValue", "transferFunction", "TVidx",
  "UNITCODE_NOT_USED", "univRev", "updatePeriod", "wrtPrtCd", "xmtrRev",
  "zero"}
Names == PlainNames \cup OfOne \cup Converted \cup {"slot"}

\* An item that shows something of a variable names one, and no item a host
\* writes is converted.
Part == {p \in [item : Names, of : 0 .. 255, by : Variables \cup {None}] :
           /\ p.item \in OfOne => p.of \in Variables
           /\ p.by # None => p.item \in Converted}

\* A converted value comes after the units of its variable.
UnitsNamed(parts) ==
  \A i \in DOMAIN parts :
    parts[i].by # None => /\ parts[i].of = parts[i].by
                          /\ \E j \in 1 .. i - 1 : parts[j] = Units(parts[i].by)

NoSlots(parts) == \A i \in DOMAIN parts : parts[i].item # "slot"

\* A sound reply, and a sound command: a refused one writes no item.
SoundReply(r, parts) ==
  /\ parts \in Seq(Part)
  /\ NoSlots(parts)
  /\ WithUnitsOfPV(r) \/ UnitsNamed(parts)

Sound(r, c) ==
  /\ c = Command(c.rc, c.writes, c.reply)
  /\ c.rc \in 0 .. 255
  /\ SoundReply(r, c.reply)
  /\ isError(c.rc) => \A i \in Held : <<"store", i>> \notin c.writes

LEMMA NamesApart ==
  /\ PlainNames \cap (OfOne \cup Converted \cup {"slot"}) = {}
  /\ Converted \cap (OfOne \cup Held \cup {"slot"}) = {}
  /\ OfOne \cap (Held \cup {"slot"}) = {}
BY DEF PlainNames, OfOne, Converted, Held

\* Plain items.
LEMMA ItemsSound ==
  ASSUME NEW r, NEW names \in Seq(PlainNames)
  PROVE  SoundReply(r, Items(names))
<1>1. Items(names) \in Seq(Part)
  BY NamesApart DEF Items, Item, Part, Names, None, Variables
<1>2. QED
  BY <1>1, NamesApart DEF SoundReply, NoSlots, UnitsNamed, Items, Item, None

LEMMA RefusedSound ==
  ASSUME NEW r, NEW rc \in 0 .. 255
  PROVE  Sound(r, Refused(rc))
BY DEF Sound, SoundReply, NoSlots, UnitsNamed, Refused, Command

LEMMA ReadsSound ==
  ASSUME NEW r, NEW reply, SoundReply(r, reply)
  PROVE  Sound(r, Reads(reply))
BY DEF Sound, Reads, Command, RC_SUCCESS, isError

LEMMA CompleteSound ==
  ASSUME NEW r, NEW c, Sound(r, c)
  PROVE  Sound(r, Complete(r, c))
BY RefusedSound DEF Complete, RC_TOO_FEW

LEMMA WritesSound ==
  ASSUME NEW r, NEW names \in Seq(PlainNames)
  PROVE  Sound(r, Writes(r, names))
<1>1. Sound(r, Command(RC_SUCCESS, {<<"store", names[i]>> : i \in DOMAIN names},
                       Items(names)))
  BY ItemsSound DEF Sound, Command, RC_SUCCESS, isError
<1>2. QED
  BY <1>1, CompleteSound DEF Writes

LEMMA VariableIsOne ==
  ASSUME NEW r \in Request
  PROVE  Variable(r) \in Variables \cup {None}
BY DEF Variable, devVarPtr, Variables, None, Request, Codes

LEMMA OfVariableSound ==
  ASSUME NEW r, NEW missing \in 0 .. 255, NEW c, Variable(r) # None => Sound(r, c)
  PROVE  Sound(r, OfVariable(r, missing, c))
BY RefusedSound, CompleteSound DEF OfVariable

\* Two replies, one after the other.
LEMMA NamedConcat ==
  ASSUME NEW a \in Seq(Part), NEW b \in Seq(Part)
  PROVE  /\ UnitsNamed(a) /\ UnitsNamed(b) => UnitsNamed(a \o b)
         /\ NoSlots(a) /\ NoSlots(b) => NoSlots(a \o b)
<1> DEFINE ab == a \o b
<1>1. ab \in Seq(Part) /\ Len(ab) = Len(a) + Len(b)
  OBVIOUS
<1>2. \A i \in 1 .. Len(a) : ab[i] = a[i]
  OBVIOUS
<1>3. \A i \in 1 .. Len(b) : ab[Len(a) + i] = b[i]
  OBVIOUS
<1> HIDE DEF ab
<1>4. \A i \in DOMAIN ab : \/ i \in 1 .. Len(a) /\ ab[i] = a[i]
                           \/ \E k \in 1 .. Len(b) : i = Len(a) + k /\ ab[i] = b[k]
  <2>1. \A i \in DOMAIN ab :
          i \notin 1 .. Len(a) => i - Len(a) \in 1 .. Len(b) /\ i = Len(a) + (i - Len(a))
    BY <1>1
  <2>2. QED
    BY <2>1, <1>1, <1>2, <1>3
<1>5. NoSlots(a) /\ NoSlots(b) => NoSlots(ab)
  BY <1>4 DEF NoSlots
<1>6. ASSUME UnitsNamed(a), UnitsNamed(b), NEW i \in DOMAIN ab, ab[i].by # None
      PROVE  ab[i].of = ab[i].by /\ \E j \in 1 .. i - 1 : ab[j] = Units(ab[i].by)
  <2>1. CASE i \in 1 .. Len(a) /\ ab[i] = a[i]
    <3>1. a[i].of = a[i].by /\ \E j \in 1 .. i - 1 : a[j] = Units(a[i].by)
      BY <1>6, <2>1 DEF UnitsNamed
    <3>2. PICK j \in 1 .. i - 1 : a[j] = Units(a[i].by)
      BY <3>1
    <3>3. j \in 1 .. Len(a) /\ ab[j] = a[j]
      BY <2>1, <3>2, <1>2
    <3>4. QED
      BY <3>1, <3>2, <3>3, <2>1
  <2>2. CASE \E k \in 1 .. Len(b) : i = Len(a) + k /\ ab[i] = b[k]
    <3>1. PICK k \in 1 .. Len(b) : i = Len(a) + k /\ ab[i] = b[k]
      BY <2>2
    <3>2. b[k].of = b[k].by /\ \E j \in 1 .. k - 1 : b[j] = Units(b[k].by)
      BY <1>6, <3>1 DEF UnitsNamed
    <3>3. PICK j \in 1 .. k - 1 : b[j] = Units(b[k].by)
      BY <3>2
    <3>4. Len(a) + j \in 1 .. i - 1 /\ j \in 1 .. Len(b)
      BY <3>1, <3>3
    <3>5. ab[Len(a) + j] = b[j]
      BY <3>4, <1>3
    <3>6. QED
      BY <3>1, <3>2, <3>3, <3>4, <3>5
  <2>3. QED
    BY <1>4, <2>1, <2>2
<1>7. UnitsNamed(a) /\ UnitsNamed(b) => UnitsNamed(ab)
  BY <1>6 DEF UnitsNamed
<1>8. QED
  BY <1>5, <1>7 DEF ab

LEMMA PartsSound ==
  ASSUME NEW r, NEW a, NEW b, SoundReply(r, a), SoundReply(r, b)
  PROVE  SoundReply(r, a \o b)
<1>1. a \in Seq(Part) /\ b \in Seq(Part) /\ NoSlots(a) /\ NoSlots(b)
  BY DEF SoundReply
<1>2. NoSlots(a \o b) /\ (UnitsNamed(a) /\ UnitsNamed(b) => UnitsNamed(a \o b))
  BY <1>1, NamedConcat
<1>3. a \o b \in Seq(Part)
  BY <1>1
<1>4. QED
  BY <1>2, <1>3 DEF SoundReply


\* An item of a variable, its units, and a value in them.
LEMMA ItemOfIsPart ==
  ASSUME NEW n \in Names, NEW v \in Variables
  PROVE  ItemOf(n, v) \in Part
BY DEF Part, ItemOf, Names, Variables, None

LEMMA ConvertedIsPart ==
  ASSUME NEW n \in Converted, NEW v \in Variables, NEW w \in Variables
  PROVE  convertAndInsert(n, v, w) \in Part
BY NamesApart DEF Part, convertAndInsert, Names, Variables, None

LEMMA OfVariableNames ==
  {"Units", "activeDevVar", "classification", "sensorSerialNumber", "dampingValue",
   "deviceFamily", "updatePeriod", "properties", "lastDVcmdCode", "simulateUnits",
   "simulateValue", "devVar_status"} \subseteq Names
BY DEF Names, PlainNames, OfOne

LEMMA UnitsAndValue ==
  ASSUME NEW v \in Variables
  PROVE  Units(v) \in Part /\ Value(v) \in Part
BY OfVariableNames, ItemOfIsPart, ConvertedIsPart DEF Units, Value, Converted

LEMMA ItemIsPart ==
  ASSUME NEW n \in PlainNames
  PROVE  Item(n) \in Part
BY NamesApart DEF Part, Item, Names, Variables, None

LEMMA IdentSound ==
  ASSUME NEW r
  PROVE  SoundReply(r, insert_Ident)
<1> DEFINE names == <<"expansion", "mfrID", "devType", "reqPreambles", "univRev",
                      "xmtrRev", "swRev", "hwRev", "flags", "devID",
                      "myPreambles", "devVarCnt", "configChangeCnt",
                      "extended_fld_dev_status", "MfgId", "PrivLabelDistr",
                      "Profile">>
<1>1. names \in Seq(PlainNames)
  BY DEF PlainNames
<1>2. insert_Ident = Items(names)
  BY DEF insert_Ident
<1>3. QED
  BY <1>1, <1>2, ItemsSound

LEMMA SimulationSound ==
  ASSUME NEW r, NEW v \in Variables
  PROVE  SoundReply(r, Simulation(v))
<1>1. /\ ItemOf("activeDevVar", v) \in Part /\ ItemOf("lastDVcmdCode", v) \in Part
      /\ ItemOf("simulateUnits", v) \in Part /\ ItemOf("simulateValue", v) \in Part
  BY OfVariableNames, ItemOfIsPart
<1>2. "NOT_USED" \in PlainNames
  BY DEF PlainNames
<1>3. Item("NOT_USED") \in Part
  BY <1>2, ItemIsPart
<1>4. QED
  BY <1>1, <1>3 DEF SoundReply, Simulation, NoSlots, UnitsNamed, ItemOf, Item

LEMMA ActiveSound ==
  ASSUME NEW r, NEW v \in Variables
  PROVE  SoundReply(r, <<ItemOf("activeDevVar", v)>>)
<1>1. ItemOf("activeDevVar", v) \in Part
  BY OfVariableNames, ItemOfIsPart
<1>2. QED
  BY <1>1 DEF SoundReply, NoSlots, UnitsNamed, ItemOf

\* The totalizer commands.
LEMMA TotalizerSound ==
  ASSUME NEW r \in Request, NEW places, NEW shows, SoundReply(r, shows)
  PROVE  Sound(r, Totalizer(r, places, shows))
<1>1. ASSUME Variable(r) # None
      PROVE  SoundReply(r, <<ItemOf("activeDevVar", Variable(r))>> \o shows)
  <2>1. Variable(r) \in Variables
    BY <1>1, VariableIsOne
  <2>2. SoundReply(r, <<ItemOf("activeDevVar", Variable(r))>>)
    BY <2>1, ActiveSound
  <2>3. QED
    BY <2>2, PartsSound DEF SoundReply
<1>2. isDevVarIndex2Totalizer(r.codes[1]) \in {0, 17, 19}
  BY DEF isDevVarIndex2Totalizer, RC_SUCCESS, RC_INDEX_DISALLOWED, RC_BAD_INDEX
<1> DEFINE rc == isDevVarIndex2Totalizer(r.codes[1])
           c  == IF rc # RC_SUCCESS THEN Refused(rc)
                 ELSE Command(rc, places,
                              <<ItemOf("activeDevVar", Variable(r))>> \o shows)
<1>3. Variable(r) # None => Sound(r, c)
  <2>1. CASE rc # RC_SUCCESS
    BY <2>1, <1>2, RefusedSound
  <2>2. CASE rc = RC_SUCCESS
    BY <2>2, <1>1 DEF Sound, Command, RC_SUCCESS, isError
  <2>3. QED
    BY <2>1, <2>2
<1>4. Sound(r, OfVariable(r, RC_INVALID, c))
  <2> HIDE DEF c
  <2>1. QED
    BY <1>3, OfVariableSound DEF RC_INVALID
<1>5. QED
  BY <1>4 DEF Totalizer

LEMMA ZeroedSound ==
  ASSUME NEW r \in Request, NEW places, NEW shows
  PROVE  Sound(r, Totalizer(ByteCntZeroed(r), places, shows))
<1>1. ByteCntZeroed(r).short
  BY DEF ByteCntZeroed, Request
<1>2. QED
  BY <1>1, RefusedSound
     DEF Totalizer, OfVariable, Complete, RC_TOO_FEW

\* What every command makes of every request is sound: a converted value follows
\* the units of its own variable, and a refusal writes nothing (Commands/cmd_*.h).
LEMMA CommandsSound ==
  ASSUME NEW r \in Request
  PROVE  Sound(r, CommandOf(r))
<1>1. \A names \in Seq(PlainNames) : Sound(r, Reads(Items(names))) /\ Sound(r, Writes(r, names))
  BY ItemsSound, ReadsSound, WritesSound
<1>2. Sound(r, Reads(insert_Ident))
  BY IdentSound, ReadsSound
<1>pv. PV \in Variables /\ SV \in Variables /\ TV \in Variables
  BY DEF PV, SV, TV, Variables
<1>v. \A v \in {PV, SV, TV} : Units(v) \in Part /\ Value(v) \in Part
  BY <1>pv, UnitsAndValue
<1>o. \A v \in {PV, SV, TV} :
        /\ ItemOf("sensorSerialNumber", v) \in Part /\ ItemOf("dampingValue", v) \in Part
        /\ ItemOf("classification", v) \in Part
  BY <1>pv, OfVariableNames, ItemOfIsPart
<1>c. \A n \in Converted : convertAndInsert(n, PV, PV) \in Part
  BY <1>pv, ConvertedIsPart
<1>i. \A n \in {"loopCurrent", "NOT_CLASFD", "alarmSelectionCode",
                "transferFunction", "wrtPrtCd", "NOT_USED", "analogChannelFlags"} :
        Item(n) \in Part
  BY ItemIsPart DEF PlainNames
<1>3. Sound(r, cmd_01(r))
  <2>1. cmd_01(r).reply \in Seq(Part)
    BY <1>v DEF cmd_01, Reads, Command
  <2>2. QED
    BY <2>1 DEF cmd_01, Sound, SoundReply, NoSlots, UnitsNamed, Reads, Command, Units,
         Value, ItemOf, convertAndInsert, PV, None, isError, RC_SUCCESS
<1>4. Sound(r, cmd_03(r))
  <2>1. cmd_03(r).reply \in Seq(Part)
    BY <1>v, <1>i DEF cmd_03, Reads, Command
  <2> DEFINE parts == cmd_03(r).reply
  <2>2. NoSlots(parts)
    BY DEF cmd_03, NoSlots, Reads, Command, Units, Value, ItemOf, Item, convertAndInsert
  <2>3. UnitsNamed(parts)
    BY DEF cmd_03, UnitsNamed, Reads, Command, Units, Value, ItemOf, Item,
         convertAndInsert, PV, SV, TV, None
  <2>4. QED
    BY <2>1, <2>2, <2>3 DEF cmd_03, Sound, SoundReply, Reads, Command, isError, RC_SUCCESS
<1>5. Sound(r, cmd_08(r))
  <2>1. cmd_08(r).reply \in Seq(Part)
    BY <1>o, <1>i DEF cmd_08, Reads, Command
  <2>2. QED
    BY <2>1 DEF cmd_08, Sound, SoundReply, NoSlots, UnitsNamed, Reads, Command,
         ItemOf, Item, None, isError, RC_SUCCESS
<1>6. Sound(r, cmd_14(r))
  <2>1. cmd_14(r).reply \in Seq(Part)
    BY <1>v, <1>o, <1>c DEF cmd_14, Reads, Command, Converted
  <2>2. QED
    BY <2>1 DEF cmd_14, Sound, SoundReply, NoSlots, UnitsNamed, Reads, Command, Units,
         ItemOf, convertAndInsert, PV, None, isError, RC_SUCCESS
<1>7. Sound(r, cmd_15(r))
  <2>1. cmd_15(r).reply \in Seq(Part)
    BY <1>v, <1>o, <1>c, <1>i DEF cmd_15, Reads, Command, Converted
  <2>2. QED
    BY <2>1 DEF cmd_15, Sound, SoundReply, NoSlots, UnitsNamed, Reads, Command, Units,
         ItemOf, Item, convertAndInsert, PV, None, isError, RC_SUCCESS
<1>8. Sound(r, cmd_09(r))
  <2>1. <<"extended_fld_dev_status">> \in Seq(PlainNames)
    BY DEF PlainNames
  <2>2. SoundReply(r, Items(<<"extended_fld_dev_status">>))
    BY <2>1, ItemsSound
  <2>3. QED
    BY <2>2 DEF cmd_09, Sound, Command, RC_SUCCESS, RC_TOO_FEW
<1>9. Sound(r, cmd_11(r)) /\ Sound(r, cmd_21(r))
  BY <1>2, RefusedSound DEF cmd_11, cmd_21, RC_DONOTSEND
<1>10. Sound(r, cmd_31(r)) /\ Sound(r, cmd_120(r))
  BY RefusedSound DEF cmd_31, cmd_120, RC_TOO_FEW, RC_NOT_IMPLEM
<1>11. Sound(r, cmd_44(r))
  <2>1. Sound(r, Command(RC_SUCCESS, {<<"units", PV>>}, <<Units(PV)>>))
    <3>1. <<Units(PV)>> \in Seq(Part)
      BY <1>v
    <3>2. QED
      BY <3>1 DEF Sound, SoundReply, NoSlots, UnitsNamed, Command, Units, ItemOf,
           None, isError, RC_SUCCESS
  <2>2. QED
    BY <2>1, RefusedSound, CompleteSound DEF cmd_44, RC_INVALID
<1>12. Sound(r, cmd_53(r))
  <2>1. ASSUME Variable(r) # None
        PROVE  Sound(r, Command(RC_SUCCESS, {<<"units", Variable(r)>>},
                 <<ItemOf("activeDevVar", Variable(r)), Units(Variable(r))>>))
    <3>1. <<ItemOf("activeDevVar", Variable(r)), Units(Variable(r))>> \in Seq(Part)
      <4>1. ItemOf("activeDevVar", Variable(r)) \in Part /\ Units(Variable(r)) \in Part
        BY <2>1, VariableIsOne, OfVariableNames, ItemOfIsPart, UnitsAndValue
      <4>2. QED
        BY <4>1
    <3>2. QED
      BY <3>1 DEF Sound, SoundReply, NoSlots, UnitsNamed, Command, Units, ItemOf,
           None, isError, RC_SUCCESS
  <2>2. QED
    BY <2>1, RefusedSound, CompleteSound DEF cmd_53, RC_INVALID, RC_MULTIPLE_12
<1>13. ASSUME r.cmd = 54
       PROVE  Sound(r, cmd_54(r))
  <2> DEFINE v == Variable(r)
             parts == <<ItemOf("activeDevVar", v), ItemOf("sensorSerialNumber", v),
                Units(v), convertAndInsert("upperSensorLimit", v, PV),
                convertAndInsert("lowerSensorLimit", v, PV),
                ItemOf("dampingValue", v), convertAndInsert("minSpan", v, PV),
                ItemOf("classification", v), ItemOf("deviceFamily", v),
                ItemOf("updatePeriod", v), ItemOf("properties", v)>>
  <2>1. SUFFICES ASSUME ~r.short, v # None
                 PROVE  Sound(r, Reads(parts))
    BY RefusedSound DEF cmd_54, RC_INVALID, OfVariable, Complete, RC_TOO_FEW
  <2>2. v \in Variables
    BY <2>1, VariableIsOne
  <2>3. parts \in Seq(Part)
    <3>1. \A n \in {"activeDevVar", "classification", "sensorSerialNumber",
                     "dampingValue", "deviceFamily", "updatePeriod", "properties"} :
            ItemOf(n, v) \in Part
      BY <2>2, OfVariableNames, ItemOfIsPart
    <3>2. \A n \in {"upperSensorLimit", "lowerSensorLimit", "minSpan"} :
            convertAndInsert(n, v, PV) \in Part
      BY <2>2, <1>pv, ConvertedIsPart DEF Converted
    <3>3. Units(v) \in Part
      BY <2>2, UnitsAndValue
    <3>4. QED
      BY <3>1, <3>2, <3>3
  <2>4. NoSlots(parts)
    BY DEF NoSlots, Units, ItemOf, convertAndInsert
  <2>5. v = devVarPtr(r.codes[1])
    BY <2>1 DEF Variable, None
  <2>6. v = PV => UnitsNamed(parts)
    BY DEF UnitsNamed, Units, ItemOf, convertAndInsert, PV, None
  <2>7. QED
    BY <2>1, <2>3, <2>4, <2>5, <2>6, <1>13, ReadsSound DEF SoundReply, WithUnitsOfPV
<1>14. Sound(r, cmd_79(r))
  <2>1. ASSUME Variable(r) # None, NEW rc \in {RC_NO_TYPE, RC_MULTIPLE_10}
        PROVE  Sound(r, Command(rc, {<<"simulated", Variable(r)>>}, Simulation(Variable(r))))
    BY <2>1, VariableIsOne, SimulationSound DEF Sound, Command, RC_NO_TYPE, RC_MULTIPLE_10
  <2>2. QED
    BY <2>1, OfVariableSound DEF cmd_79, RC_BAD_INDEX
<1>15. Sound(r, cmd_534(r))
  <2>1. ASSUME NEW v \in Variables
        PROVE  SoundReply(r, <<ItemOf("activeDevVar", v)>>
                   \o Items(<<"normal", "UNITCODE_NOT_USED", "NaN", "NOT_USED">>))
    <3>1. <<"normal", "UNITCODE_NOT_USED", "NaN", "NOT_USED">> \in Seq(PlainNames)
      BY DEF PlainNames
    <3>2. SoundReply(r, Items(<<"normal", "UNITCODE_NOT_USED", "NaN", "NOT_USED">>))
      BY <3>1, ItemsSound
    <3>3. QED
      BY ActiveSound, <3>2, PartsSound DEF SoundReply
  <2>2. QED
    BY <2>1, VariableIsOne, SimulationSound, ReadsSound, OfVariableSound DEF cmd_534,
         RC_INVALID
<1>16. Sound(r, cmd_2561(r))
  <2>1. <<"totFamDefRev", "devVar_Map", "totFalSafHndling", "totMode",
          "totDirection">> \in Seq(PlainNames)
    BY DEF PlainNames, Held
  <2>2. QED
    BY <2>1, ItemsSound, TotalizerSound DEF cmd_2561
<1>17. /\ Sound(r, cmd_2560(r)) /\ Sound(r, cmd_2562(r)) /\ Sound(r, cmd_2563(r))
       /\ Sound(r, cmd_2688(r)) /\ Sound(r, cmd_2689(r)) /\ Sound(r, cmd_2690(r))
       /\ Sound(r, cmd_2692(r)) /\ Sound(r, cmd_2693(r)) /\ Sound(r, cmd_2864(r))
  BY ZeroedSound DEF cmd_2560, cmd_2562, cmd_2563, cmd_2688, cmd_2689, cmd_2690,
     cmd_2692, cmd_2693, cmd_2864, SetsTotalizer
<1>18. Sound(r, cmd_00(r))
  BY <1>2 DEF cmd_00
<1>19. /\ Sound(r, cmd_02(r)) /\ Sound(r, cmd_07(r)) /\ Sound(r, cmd_50(r))
       /\ Sound(r, cmd_90(r)) /\ Sound(r, cmd_95(r))
  <2>1. /\ <<"loopCurrent", "percentRange">> \in Seq(PlainNames)
        /\ <<"pollAddr", "loopCurrentMode">> \in Seq(PlainNames)
        /\ <<"PVidx", "SVidx", "TVidx", "NOT_USED">> \in Seq(PlainNames)
        /\ <<"tm_mday", "tm_mon", "tm_year", "dateTimeStamp", "tm_mday", "tm_mon",
             "tm_year", "dateTimeStamp", "RTCflags">> \in Seq(PlainNames)
        /\ <<"stx", "ack", "bak">> \in Seq(PlainNames)
    BY DEF PlainNames
  <2>2. QED
    BY <2>1, <1>1 DEF cmd_02, cmd_07, cmd_50, cmd_90, cmd_95
<1>20. /\ <<"message">> \in Seq(PlainNames)
       /\ <<"tag", "descriptor", "date">> \in Seq(PlainNames)
       /\ <<"finalAssembly">> \in Seq(PlainNames)
       /\ <<"longTag">> \in Seq(PlainNames)
       /\ <<"countryCode", "siUnitCode">> \in Seq(PlainNames)
       /\ <<"processUnitTag">> \in Seq(PlainNames)
  BY DEF PlainNames, Held
<1>21. /\ Sound(r, cmd_12(r)) /\ Sound(r, cmd_13(r)) /\ Sound(r, cmd_16(r))
       /\ Sound(r, cmd_20(r)) /\ Sound(r, cmd_512(r)) /\ Sound(r, cmd_520(r))
  BY <1>1, <1>20 DEF cmd_12, cmd_13, cmd_16, cmd_20, cmd_512, cmd_520
<1>22. /\ Sound(r, cmd_17(r)) /\ Sound(r, cmd_18(r)) /\ Sound(r, cmd_19(r))
       /\ Sound(r, cmd_22(r)) /\ Sound(r, cmd_513(r)) /\ Sound(r, cmd_521(r))
  BY <1>1, <1>20 DEF cmd_17, cmd_18, cmd_19, cmd_22, cmd_513, cmd_521
<1>23. r.cmd \in Commands
  BY DEF Request
<1>24. QED
  BY <1>2, <1>3, <1>4, <1>5, <1>6, <1>7, <1>8, <1>9, <1>10, <1>11, <1>12, <1>13,
     <1>14, <1>15, <1>16, <1>17, <1>18, <1>19, <1>21, <1>22, <1>23 DEF CommandOf, Commands
-----------------------------------------------------------------------------
(* The state, its types, and how a reply moves from todo to out. *)

Entry == [part : Part, shows : Int]

Task == [stage : {"idle", "begin", "insert"}, req : Request, rc : 0 .. 255,
         todo : Seq(Part), next : Nat, out : Seq(Entry)]

TypeInv ==
  /\ store \in [Held -> 0 .. 255] /\ kept \in [Held -> 0 .. 255]
  /\ simulated \in [Variables -> 0 .. 255]
  /\ units \in [Variables -> 0 .. 255]
  /\ slot \in Codes
  /\ task \in [Threads -> Task]
  /\ disturbed \in [Threads -> SUBSET {"slot", "units"}]

\* Replies show what the host wrote last, and only what was accepted.
ShowsInv ==
  /\ store = kept
  /\ ShowsLastAccepted

LEMMA NothingTyped == Nothing \in Task /\ Nothing.req \in Request
<1>1. <<>> \in Codes /\ <<>> \in Seq(Part) /\ <<>> \in Seq(Entry)
  BY DEF Codes
<1>2. Nothing.req \in Request
  BY <1>1 DEF Nothing, Request, Commands
<1>3. QED
  BY <1>1, <1>2 DEF Nothing, Task, RC_SUCCESS

\* What a thread begins with: a reply to make, or none after an error.
Begins(k, r, rc, reply) ==
  /\ k \in Task
  /\ k.req = r /\ k.rc = rc /\ k.out = <<>> /\ k.next = 0
  /\ k.stage \in {"begin", "insert"}
  /\ k.stage = "begin" <=> r.cmd = 9 /\ ~isError(rc)
  /\ isError(rc) => k.todo = <<>>
  /\ ~isError(rc) => k.todo = reply

LEMMA Started ==
  ASSUME NEW r \in Request, NEW rc \in 0 .. 255, NEW places, NEW reply \in Seq(Part),
         NEW k, k = Start(r, Command(rc, places, reply))
  PROVE  Begins(k, r, rc, reply)
<1> DEFINE stage == IF r.cmd = 9 /\ ~isError(rc) THEN "begin" ELSE "insert"
           todo  == IF isError(rc) THEN <<>> ELSE reply
           l     == [Nothing EXCEPT !.stage = stage, !.req = r, !.rc = rc, !.todo = todo]
<1>1. stage \in {"begin", "insert"} /\ todo \in Seq(Part)
  OBVIOUS
<1>2. k = l
  BY DEF Start, Command
<1>3. Nothing.next = 0 /\ Nothing.out = <<>>
  BY DEF Nothing
<1> HIDE DEF stage, todo
<1>4. /\ l.req = r /\ l.rc = rc /\ l.out = <<>> /\ l.next = 0
      /\ l.stage = stage /\ l.todo = todo
  BY <1>3, NothingTyped DEF Task
<1>5. l \in Task
  BY <1>1, NothingTyped DEF Task
<1>6. /\ stage = "begin" <=> r.cmd = 9 /\ ~isError(rc)
      /\ isError(rc) => todo = <<>>
      /\ ~isError(rc) => todo = reply
  BY DEF stage, todo
<1>7. QED
  BY <1>1, <1>2, <1>4, <1>5, <1>6 DEF Begins

\* An interval from 1.
LEMMA FromOne ==
  ASSUME NEW n \in Nat
  PROVE  IsFiniteSet(1 .. n) /\ Cardinality(1 .. n) = n
<1>1. /\ IsFiniteSet(1 .. n)
      /\ Cardinality(1 .. n) = IF 1 > n THEN 0 ELSE n - 1 + 1
  BY FS_Interval
<1>2. QED
  BY <1>1

\* The codes of a burst message.
LEMMA UsedCodes ==
  ASSUME NEW list \in Codes
  PROVE  Used(list) \in Codes
<1> DEFINE unused == {i \in DOMAIN list : list[i] = 250}
           used   == {i \in DOMAIN list : \A j \in unused : i < j}
           n      == Cardinality(used)
<1>1. list \in Seq(0 .. 255) /\ Len(list) <= 8 /\ Len(list) \in Nat
  BY DEF Codes
<1>2. IsFiniteSet(1 .. Len(list)) /\ Cardinality(1 .. Len(list)) = Len(list)
  BY <1>1, FromOne
<1>3. used \in SUBSET (1 .. Len(list))
  BY <1>1
<1>4. IsFiniteSet(used) /\ n <= Len(list)
  <2> HIDE DEF used
  <2>1. QED BY <1>2, <1>3, FS_Subset
<1>5. n \in Nat
  BY <1>4, FS_CardinalityType
<1>6. SubSeq(list, 1, n) \in Seq(0 .. 255) /\ Len(SubSeq(list, 1, n)) <= 8
  <2> HIDE DEF n
  <2>1. \A i \in 1 .. Len(list) : list[i] \in 0 .. 255
    BY <1>1, ElementOfSeq
  <2>2. \A i \in 1 .. n : i \in 1 .. Len(list)
    BY <1>1, <1>4, <1>5
  <2>3. /\ SubSeq(list, 1, n) \in Seq(0 .. 255)
        /\ Len(SubSeq(list, 1, n)) = IF 1 <= n THEN n - 1 + 1 ELSE 0
    <3>1. \A i \in 1 .. n : list[i] \in 0 .. 255
      BY <2>1, <2>2
    <3>2. QED
      BY <1>5, <3>1, SubSeqProperties
  <2>4. QED
    BY <1>1, <1>4, <1>5, <2>3
<1>7. QED
  BY <1>6 DEF Used, Codes

\* What an item shows is a number.
LEMMA ShownTyped ==
  ASSUME TypeInv, NEW p \in Part
  PROVE  /\ Shown(p) \in Int
         /\ p.item \in Held => Shown(p) = store[p.item]
         /\ \A v \in Variables : p = Units(v) => Shown(p) = units[v]
         /\ p.by # None => Shown(p) = frmStandard(p.by, units[p.by])
<1>1. p.by \in Variables \cup {None} /\ (p.by # None => p.item \in Converted)
      /\ (p.item \in OfOne => p.of \in Variables)
  BY DEF Part
<1>0. /\ units \in [Variables -> 0 .. 255] /\ store \in [Held -> 0 .. 255]
      /\ simulated \in [Variables -> 0 .. 255]
  BY DEF TypeInv
<1>2. \A v \in Variables : frmStandard(v, units[v]) \in Int
  BY DEF TypeInv, frmStandard, BaseUnit
<1>3. CASE p.by # None
  <2>1. Shown(p) = frmStandard(p.by, units[p.by]) /\ p.item \notin Held
    BY <1>1, <1>3, NamesApart DEF Shown, OfOne
  <2>2. \A v \in Variables : p # Units(v)
    BY <1>3 DEF Units, ItemOf
  <2>3. QED
    BY <1>1, <1>2, <1>3, <2>1, <2>2
<1>4. CASE p.by = None /\ p.item = "Units"
  <2>1. Shown(p) = units[p.of] /\ p.of \in Variables /\ p.item \notin Held
    BY <1>1, <1>4, NamesApart DEF Shown, OfOne
  <2>2. \A v \in Variables : p = Units(v) => p.of = v
    BY DEF Units, ItemOf
  <2>3. QED
    <3>1. \A v \in Variables : units[v] \in Int
      BY <1>0
    <3>2. \A v \in Variables : p = Units(v) => Shown(p) = units[v]
      BY <2>1, <2>2
    <3>3. QED
      BY <1>4, <2>1, <3>1, <3>2
<1>5. CASE p.by = None /\ p.item \in Held
  <2>1. Shown(p) = store[p.item] /\ p.item # "Units"
    BY <1>5, NamesApart DEF Shown, OfOne
  <2>2. \A v \in Variables : p # Units(v)
    BY <2>1 DEF Units, ItemOf
  <2>3. QED
    <3>1. store[p.item] \in Int
      BY <1>0, <1>5
    <3>2. QED
      BY <1>5, <2>1, <2>2, <3>1
<1>6. CASE p.by = None /\ p.item # "Units" /\ p.item \notin Held
  <2>1. Shown(p) \in Int
    <3>1. CASE p.item \in {"lastDVcmdCode", "simulateUnits", "simulateValue"}
      <4>1. Shown(p) = simulated[p.of] /\ p.of \in Variables
        BY <1>1, <1>6, <3>1 DEF Shown, OfOne
      <4>2. QED
        BY <1>0, <4>1
    <3>2. CASE p.item \notin {"lastDVcmdCode", "simulateUnits", "simulateValue"}
      BY <1>6, <3>2 DEF Shown
    <3>3. QED
      BY <3>1, <3>2
  <2>2. \A v \in Variables : p # Units(v)
    BY <1>6 DEF Units, ItemOf
  <2>3. QED
    BY <1>6, <2>1, <2>2
<1>7. QED
  BY <1>3, <1>4, <1>5, <1>6

\* Insert() takes the first items of todo, at least one, and adds them to out.
Moved(k, l, n) ==
  /\ n \in 1 .. Len(k.todo)
  /\ l \in Task
  /\ l.stage = k.stage /\ l.req = k.req /\ l.rc = k.rc /\ l.next = k.next
  /\ Len(l.out) = Len(k.out) + n
  /\ \A i \in 1 .. Len(k.out) : l.out[i] = k.out[i]
  /\ \A i \in 1 .. n : l.out[Len(k.out) + i]
                         = [part |-> k.todo[i], shows |-> Shown(k.todo[i])]
  /\ Len(l.todo) = Len(k.todo) - n
  /\ \A i \in 1 .. Len(l.todo) : l.todo[i] = k.todo[n + i]

LEMMA InsertMoves ==
  ASSUME TypeInv, NEW t \in Threads, Insert(t)
  PROVE  /\ \E n \in 1 .. Len(task[t].todo) : Moved(task[t], task'[t], n)
         /\ \A u \in Threads \ {t} : task'[u] = task[u]
         /\ task' \in [Threads -> Task]
<1> DEFINE k    == task[t]
           todo == k.todo
           own  == {i \in DOMAIN todo : \A j \in 1 .. i : ~Shared(todo[j])}
           n    == IF own = {} THEN 1 ELSE Cardinality(own)
           new  == [i \in 1 .. n |-> [part |-> todo[i], shows |-> Shown(todo[i])]]
           l    == [k EXCEPT !.todo = SubSeq(todo, n + 1, Len(todo)), !.out = @ \o new]
<1>1. k \in Task /\ todo \in Seq(Part) /\ k.out \in Seq(Entry) /\ Len(todo) \in Nat
      /\ Len(k.out) \in Nat
  BY DEF TypeInv, Task
<1>2. todo # <<>> /\ task' = [task EXCEPT ![t] = l]
  BY DEF Insert, TypeInv
<1>3. n \in 1 .. Len(todo)
  <2>1. Len(todo) >= 1
    BY <1>1, <1>2
  <2>2. IsFiniteSet(1 .. Len(todo)) /\ Cardinality(1 .. Len(todo)) = Len(todo)
    BY <1>1, FromOne
  <2>3. own \in SUBSET (1 .. Len(todo))
    BY <1>1
  <2>4. IsFiniteSet(own) /\ Cardinality(own) <= Len(todo)
    <3> HIDE DEF own
    <3>1. QED BY <2>2, <2>3, FS_Subset
  <2>5. Cardinality(own) \in Nat /\ (own # {} => Cardinality(own) # 0)
    <3> HIDE DEF own
    <3>1. QED BY <2>4, FS_CardinalityType, FS_EmptySet
  <2>6. QED
    BY <2>1, <2>4, <2>5
<1> HIDE DEF n
<1>4. \A i \in 1 .. n : todo[i] \in Part /\ Shown(todo[i]) \in Int
  BY <1>1, <1>3, ShownTyped
<1>5. new \in Seq(Entry) /\ Len(new) = n
  BY <1>3, <1>4 DEF Entry
<1>6. \A i \in 1 .. n : new[i] = [part |-> todo[i], shows |-> Shown(todo[i])]
  OBVIOUS
<1> DEFINE rest == SubSeq(todo, n + 1, Len(todo))
<1>7. /\ rest \in Seq(Part) /\ Len(rest) = Len(todo) - n
      /\ \A i \in 1 .. Len(rest) : rest[i] = todo[n + i]
  <2>1. \A i \in n + 1 .. Len(todo) : todo[i] \in Part
    BY <1>1, <1>3
  <2>2. /\ rest \in Seq(Part)
        /\ Len(rest) = IF n + 1 <= Len(todo) THEN Len(todo) - (n + 1) + 1 ELSE 0
        /\ \A i \in 1 .. Len(todo) - (n + 1) + 1 : rest[i] = todo[(n + 1) + i - 1]
    BY <1>1, <1>3, <2>1, SubSeqProperties
  <2>3. Len(rest) = Len(todo) - n
    BY <1>1, <1>3, <2>2
  <2> HIDE DEF rest
  <2>4. \A i \in 1 .. Len(rest) : rest[i] = todo[n + i]
    BY <1>1, <1>3, <2>2, <2>3
  <2>5. QED
    BY <2>2, <2>3, <2>4
<1> HIDE DEF new, rest
<1> DEFINE out == k.out \o new
<1>8. /\ out \in Seq(Entry) /\ Len(out) = Len(k.out) + n
      /\ \A i \in 1 .. Len(k.out) : out[i] = k.out[i]
      /\ \A i \in 1 .. n : out[Len(k.out) + i] = new[i]
  <2>1. /\ out \in Seq(Entry)
        /\ Len(out) = Len(k.out) + Len(new)
        /\ \A i \in 1 .. Len(k.out) + Len(new) :
             out[i] = IF i <= Len(k.out) THEN k.out[i] ELSE new[i - Len(k.out)]
    BY <1>1, <1>5, ConcatProperties
  <2> HIDE DEF out
  <2>2. \A i \in 1 .. n : Len(k.out) + i \in 1 .. Len(k.out) + Len(new)
                         /\ ~(Len(k.out) + i <= Len(k.out))
                         /\ (Len(k.out) + i) - Len(k.out) = i
    BY <1>1, <1>3, <1>5
  <2>3. \A i \in 1 .. n : out[Len(k.out) + i] = new[i]
    BY <2>1, <2>2
  <2>4. \A i \in 1 .. Len(k.out) : i \in 1 .. Len(k.out) + Len(new) /\ i <= Len(k.out)
    BY <1>1, <1>3, <1>5
  <2>5. \A i \in 1 .. Len(k.out) : out[i] = k.out[i]
    BY <2>1, <2>4
  <2>6. QED
    BY <1>5, <2>1, <2>3, <2>5
<1> HIDE DEF out
<1>9. l = [k EXCEPT !.todo = rest, !.out = out]
  BY DEF rest, out
<1>10. /\ l \in Task /\ l.todo = rest /\ l.out = out
       /\ l.stage = k.stage /\ l.req = k.req /\ l.rc = k.rc /\ l.next = k.next
  BY <1>1, <1>7, <1>8, <1>9 DEF Task
<1> HIDE DEF l
<1>11. Moved(k, l, n)
  BY <1>3, <1>6, <1>7, <1>8, <1>10 DEF Moved
<1>12. task'[t] = l /\ \A u \in Threads \ {t} : task'[u] = task[u]
  BY <1>2 DEF TypeInv
<1>13. task' \in [Threads -> Task]
  BY <1>2, <1>10 DEF TypeInv
<1>14. QED
  BY <1>3, <1>11, <1>12, <1>13

\* What a thread has before it when it begins with request r.
Fresh(k, r) ==
  /\ r \in Request
  /\ k \in Task
  /\ k.req = r /\ k.out = <<>> /\ k.next = 0
  /\ k.stage \in {"begin", "insert"}
  /\ k.stage = "begin" <=> r.cmd = 9 /\ ~isError(k.rc)
  /\ SoundReply(r, k.todo)

LEMMA StartIsFresh ==
  ASSUME NEW r \in Request, NEW rc \in 0 .. 255, NEW places, NEW reply,
         SoundReply(r, reply)
  PROVE  Fresh(Start(r, Command(rc, places, reply)), r)
<1>1. reply \in Seq(Part)
  BY DEF SoundReply
<1>2. SoundReply(r, <<>>)
  BY DEF SoundReply, NoSlots, UnitsNamed
<1>0. PICK k : k = Start(r, Command(rc, places, reply))
  OBVIOUS
<1>3. Begins(k, r, rc, reply)
  BY <1>0, <1>1, Started
<1>4. Fresh(k, r)
  BY <1>2, <1>3 DEF Fresh, Begins
<1>5. QED
  BY <1>0, <1>4

LEMMA OtherThread ==
  /\ Other("command") = "burst" /\ Other("burst") = "command"
  /\ Threads = {"command", "burst"}
BY DEF Other, Threads

LEMMA ReceiveStarts ==
  ASSUME TypeInv, NEW r \in Requests, Receive(r)
  PROVE  /\ Fresh(task'["command"], r)
         /\ task'["burst"] = task["burst"]
         /\ task' \in [Threads -> Task]
         /\ task["command"].stage = "idle"
         /\ \E rc \in MayReturn(r, CommandOf(r)) :
              task'["command"] = Start(r, Command(rc, CommandOf(r).writes, CommandOf(r).reply))
<1> DEFINE c == CommandOf(r)
<1>1. r \in Request
  BY CommandAssumption
<1>2. Sound(r, c)
  BY <1>1, CommandsSound
<1>3. PICK rc \in MayReturn(r, c) :
        task' = [task EXCEPT !["command"] = Start(r, [c EXCEPT !.rc = rc])]
  BY DEF Receive
<1> HIDE DEF c
<1>4. rc \in 0 .. 255
  BY <1>2, <1>3 DEF MayReturn, Sound, RC_SUCCESS, RC_INVALID, RC_NO_TYPE
<1>5. [c EXCEPT !.rc = rc] = Command(rc, c.writes, c.reply)
  BY <1>2 DEF Sound, Command
<1> DEFINE k == Start(r, Command(rc, c.writes, c.reply))
<1>6. Fresh(k, r)
  BY <1>1, <1>2, <1>4, StartIsFresh DEF Sound
<1>7. k \in Task
  BY <1>6 DEF Fresh
<1>8. task' = [task EXCEPT !["command"] = k]
  BY <1>3, <1>5
<1> HIDE DEF k
<1>9. task \in [Threads -> Task] /\ "command" \in Threads /\ "burst" \in Threads
  BY DEF TypeInv, Threads
<1>10. task'["command"] = k /\ task'["burst"] = task["burst"] /\ task' \in [Threads -> Task]
  BY <1>7, <1>8, <1>9
<1>11. task["command"].stage = "idle"
  BY DEF Receive
<1>12. QED
  BY <1>3, <1>6, <1>10, <1>11 DEF k, c

LEMMA DueStarts ==
  ASSUME TypeInv, NEW cmd \in BurstCommands, NEW list \in IndexLists, Due(cmd, list)
  PROVE  LET r == task'["burst"].req
         IN  /\ Fresh(task'["burst"], r)
             /\ r.cmd = cmd /\ r.codes = IF cmd = 9 THEN Used(list) ELSE <<>>
             /\ task'["burst"] = Start(r, Command(RC_SUCCESS, {}, CommandOf(r).reply))
             /\ task'["command"] = task["command"]
             /\ task' \in [Threads -> Task]
             /\ task["burst"].stage = "idle"
<1> DEFINE codes == IF cmd = 9 THEN Used(list) ELSE <<>>
           r     == [Nothing.req EXCEPT !.cmd = cmd, !.codes = codes]
           k     == Start(r, Command(RC_SUCCESS, {}, CommandOf(r).reply))
<1>1. cmd \in Commands /\ list \in Codes
  BY CommandAssumption DEF Commands
<1>2. codes \in Codes
  BY <1>1, UsedCodes DEF Codes
<1> HIDE DEF codes
<1>3. r \in Request /\ r.cmd = cmd /\ r.codes = codes
  BY <1>1, <1>2, NothingTyped DEF Request
<1>4. task' = [task EXCEPT !["burst"] = k]
  BY DEF Due, Reads, codes
<1> HIDE DEF r
<1>5. Fresh(k, r)
  BY <1>3, CommandsSound, StartIsFresh DEF Sound, RC_SUCCESS
<1>6. k \in Task /\ k.req = r
  BY <1>5 DEF Fresh
<1>7. k = Start(k.req, Command(RC_SUCCESS, {}, CommandOf(k.req).reply))
  BY <1>6
<1> HIDE DEF k
<1>8. task \in [Threads -> Task] /\ "command" \in Threads /\ "burst" \in Threads
  BY DEF TypeInv, Threads
<1>9. task'["burst"] = k /\ task'["command"] = task["command"] /\ task' \in [Threads -> Task]
  BY <1>4, <1>6, <1>8
<1>10. task["burst"].stage = "idle"
  BY DEF Due
<1>11. QED
  BY <1>3, <1>5, <1>6, <1>7, <1>9, <1>10 DEF codes

LEMMA DisturbTyped ==
  ASSUME TypeInv, NEW t \in Threads, NEW what \in SUBSET {"slot", "units"}
  PROVE  Disturb(t, what) \in [Threads -> SUBSET {"slot", "units"}]
BY DEF TypeInv, Disturb

\* The answer to one code: the code, and four parts more, which name the units
\* of a value before it.
Answer(s, parts) ==
  /\ parts \in Seq(Part) /\ Len(parts) = 5
  /\ parts[1].item = "slot" /\ parts[1].of = s
  /\ \A i \in 2 .. 5 : parts[i].item # "slot"
  /\ UnitsNamed(parts)

LEMMA AnswerParts ==
  ASSUME NEW s \in 0 .. 255
  PROVE  /\ devVarPtr(s) # None => Answer(s, insertSlot(s))
         /\ Answer(s, insertUnsupported(s))
<1>1. devVarPtr(s) \in Variables \cup {None}
  BY DEF devVarPtr, Variables, None
<1>2. ItemOf("slot", s) \in Part
  BY DEF ItemOf, Part, Names, None, OfOne
<1>3. ASSUME devVarPtr(s) # None
      PROVE  Answer(s, insertSlot(s))
  <2>1. devVarPtr(s) \in Variables
    BY <1>1, <1>3
  <2>2. /\ ItemOf("classification", devVarPtr(s)) \in Part
        /\ ItemOf("devVar_status", devVarPtr(s)) \in Part
    BY <2>1, OfVariableNames, ItemOfIsPart
  <2>3. Units(devVarPtr(s)) \in Part /\ Value(devVarPtr(s)) \in Part
    BY <2>1, UnitsAndValue
  <2>4. insertSlot(s) \in Seq(Part) /\ Len(insertSlot(s)) = 5
    BY <1>2, <2>2, <2>3 DEF insertSlot
  <2>5. UnitsNamed(insertSlot(s))
    BY DEF UnitsNamed, insertSlot, Units, Value, ItemOf, convertAndInsert
  <2>6. QED
    BY <2>4, <2>5 DEF Answer, insertSlot, Units, Value, ItemOf, convertAndInsert
<1> DEFINE names == <<"NOT_CLASFD", "UNITCODE_NOT_USED", "NaN", "STAT_NOT_USED">>
           four  == Items(names)
           parts == insertUnsupported(s)
<1>4. four \in Seq(Part) /\ Len(four) = 4
      /\ \A i \in 1 .. 4 : four[i].item # "slot" /\ four[i].by = None
  <2>1. names \in Seq(PlainNames)
    BY DEF PlainNames
  <2>2. four \in Seq(Part)
    BY <2>1, ItemsSound DEF SoundReply
  <2>3. QED
    BY <2>2 DEF Items, Item
<1> HIDE DEF four
<1>5. /\ parts \in Seq(Part) /\ Len(parts) = 1 + 4
      /\ \A i \in 1 .. 1 + 4 :
           parts[i] = IF i <= 1 THEN <<ItemOf("slot", s)>>[i] ELSE four[i - 1]
  <2>1. <<ItemOf("slot", s)>> \in Seq(Part) /\ Len(<<ItemOf("slot", s)>>) = 1
    BY <1>2
  <2>2. parts = <<ItemOf("slot", s)>> \o four
    BY DEF insertUnsupported, four
  <2>3. PICK a : a = <<ItemOf("slot", s)>>
    OBVIOUS
  <2>a. a \in Seq(Part) /\ four \in Seq(Part)
    BY <1>4, <2>1, <2>3
  <2>4. /\ a \o four \in Seq(Part)
        /\ Len(a \o four) = Len(a) + Len(four)
        /\ \A i \in 1 .. Len(a) + Len(four) :
             (a \o four)[i] = IF i <= Len(a) THEN a[i] ELSE four[i - Len(a)]
    BY <2>a, ConcatProperties
  <2>5. Len(a) = 1
    BY <2>3
  <2>6. QED
    BY <1>4, <2>2, <2>3, <2>4, <2>5
<1> HIDE DEF parts
<1>6. parts[1] = ItemOf("slot", s)
  BY <1>5
<1>7. \A i \in 2 .. 5 : parts[i].item # "slot" /\ parts[i].by = None
  <2>1. \A i \in 2 .. 5 : i - 1 \in 1 .. 4 /\ parts[i] = four[i - 1]
    BY <1>5
  <2>2. QED
    BY <1>4, <2>1
<1>8. Answer(s, parts)
  BY <1>5, <1>6, <1>7 DEF Answer, UnitsNamed, ItemOf, None
<1>9. QED
  BY <1>3, <1>8 DEF parts
-----------------------------------------------------------------------------
(* Invariants of the replies. *)

\* The whole of a reply: what is in the message, then what is still to come.
Reply(k) == [i \in 1 .. Len(k.out) + Len(k.todo) |->
               IF i <= Len(k.out) THEN k.out[i].part ELSE k.todo[i - Len(k.out)]]

\* What is in the message shows the units as they are.
InUnits(out) ==
  \A i \in DOMAIN out :
    /\ \A v \in Variables : out[i].part = Units(v) => out[i].shows = units[v]
    /\ out[i].part.by # None
         => out[i].shows = frmStandard(out[i].part.by, units[out[i].part.by])

\* Every value still to come has the units of its variable before it, and what is
\* in the message, unless disturbed, is in the units there are now.
UnitsInv ==
  \A t \in Threads :
    /\ WithUnitsOfPV(task[t].req) \/ UnitsNamed(Reply(task[t]))
    /\ "units" \in disturbed[t] \/ InUnits(task[t].out)
    /\ task[t].stage = "idle" => task[t].out = <<>>

\* The first m codes of a list have five parts each, after the status.
AnswersFirst(parts, list, m) ==
  /\ \A q \in 1 .. m : /\ 5 * q - 3 \in DOMAIN parts
                       /\ parts[5 * q - 3].item = "slot"
                       /\ parts[5 * q - 3].of = list[q]
  /\ \A i \in DOMAIN parts :
       parts[i].item = "slot" => \E q \in 1 .. m : i = 5 * q - 3

\* The codes command 9 answers of those it was asked for, and with what code.
First(asked)     == SubSeq(asked, 1, IF Len(asked) > MaxAnswered THEN MaxAnswered
                                     ELSE Len(asked))
CodeOf(asked) == IF Len(asked) > MaxAnswered THEN RC_TRUNCATED ELSE RC_SUCCESS

\* Before insert_Data(), on the way through the codes, after the last of them,
\* and after one that is refused.
AtBegin(k, list) ==
  /\ k.stage = "begin" /\ list = k.req.codes /\ k.rc = RC_SUCCESS
  /\ k.next = 0 /\ k.out = <<>> /\ Len(k.todo) = 1 /\ k.todo[1].item # "slot"

AtCodes(k, list) ==
  LET first == First(k.req.codes)
  IN  /\ k.stage = "insert" /\ list = first /\ k.rc = CodeOf(k.req.codes)
      /\ k.next \in 1 .. Len(first) + 1
      /\ \A i \in 1 .. k.next - 1 : first[i] <= 250
      /\ Len(k.out) + Len(k.todo) = 5 * (k.next - 1) + 1
      /\ AnswersFirst(Reply(k), first, k.next - 1)

AtEnd(k) ==
  LET first == First(k.req.codes)
  IN  /\ k.stage = "insert" /\ k.next = 0 /\ k.rc = CodeOf(k.req.codes)
      /\ \A i \in DOMAIN first : first[i] <= 250
      /\ AnswersFirst(Reply(k), first, Len(first))

AtRefusal(k) ==
  LET first == First(k.req.codes)
  IN  /\ k.stage = "insert" /\ k.next = 0 /\ k.rc = RC_INVALID
      /\ k.out = <<>> /\ k.todo = <<>>
      /\ \E i \in DOMAIN first : first[i] > 250

Asking(t) ==
  /\ task[t].req.cmd = 9 /\ task[t].stage # "idle" /\ "slot" \notin disturbed[t]
  /\ t = "command" => task[t].req.codes # <<>>

\* The codes in the object are those asked for while nobody else has set them.
CodesInv ==
  \A t \in Threads :
    Asking(t) => \/ AtBegin(task[t], slot) \/ AtCodes(task[t], slot)
                 \/ AtEnd(task[t]) \/ AtRefusal(task[t])


LEMMA NextCases ==
  ASSUME [Next]_vars
  PROVE  \/ \E r \in Requests : Receive(r)
         \/ \E cmd \in BurstCommands, list \in IndexLists : Due(cmd, list)
         \/ \E t \in Threads : Begin(t) \/ Insert(t) \/ NextCode(t) \/ TimeStamp(t) \/ Send(t)
         \/ UNCHANGED vars
BY DEF Next, CommandThread, BurstThread, InsertData, Threads

\* The codes of a message after Begin().
LEMMA FirstCodes ==
  ASSUME NEW asked \in Codes
  PROVE  LET first == First(asked)
         IN  /\ first \in Codes
             /\ Len(first) = IF Len(asked) > MaxAnswered THEN MaxAnswered ELSE Len(asked)
             /\ \A i \in 1 .. Len(first) : first[i] = asked[i]
             /\ Len(asked) > MaxAnswered => first = SubSeq(asked, 1, MaxAnswered)
             /\ ~(Len(asked) > MaxAnswered) => first = asked
<1> DEFINE n == IF Len(asked) > MaxAnswered THEN MaxAnswered ELSE Len(asked)
           first == First(asked)
<1>1. asked \in Seq(0 .. 255) /\ Len(asked) <= 8 /\ Len(asked) \in Nat
      /\ MaxAnswered \in Nat
  BY CommandAssumption DEF Codes
<1>2. n \in Nat /\ n <= Len(asked) /\ n <= 8
  BY <1>1
<1>3. first = SubSeq(asked, 1, n)
  BY DEF First
<1> HIDE DEF n
<1>4. \A i \in 1 .. n : asked[i] \in 0 .. 255
  <2>1. \A i \in 1 .. n : i \in 1 .. Len(asked)
    BY <1>1, <1>2
  <2>2. QED
    BY <1>1, <2>1, ElementOfSeq
<1>5. /\ SubSeq(asked, 1, n) \in Seq(0 .. 255)
      /\ Len(SubSeq(asked, 1, n)) = IF 1 <= n THEN n - 1 + 1 ELSE 0
      /\ \A i \in 1 .. n - 1 + 1 : SubSeq(asked, 1, n)[i] = asked[1 + i - 1]
  BY <1>2, <1>4, SubSeqProperties
<1>6. Len(first) = n /\ \A i \in 1 .. Len(first) : first[i] = asked[i]
  <2>1. Len(first) = n
    BY <1>2, <1>3, <1>5
  <2>2. \A i \in 1 .. n : i \in 1 .. n - 1 + 1 /\ 1 + i - 1 = i
    BY <1>2
  <2>3. QED
    BY <1>3, <1>5, <2>1, <2>2
<1>7. first \in Codes
  BY <1>2, <1>3, <1>5, <1>6 DEF Codes
<1>8. ~(Len(asked) > MaxAnswered) => first = asked
  <2>1. SUFFICES ASSUME ~(Len(asked) > MaxAnswered) PROVE first = asked
    OBVIOUS
  <2>2. n = Len(asked)
    BY <2>1 DEF n
  <2>3. first \in Seq(0 .. 255) /\ Len(first) = Len(asked)
    BY <1>6, <1>7, <2>2 DEF Codes
  <2>4. \A i \in 1 .. Len(asked) : first[i] = asked[i]
    BY <1>6, <2>3
  <2>5. QED
    BY <1>1, <2>3, <2>4, SeqEqual
<1>9. Len(asked) > MaxAnswered => first = SubSeq(asked, 1, MaxAnswered)
  BY <1>3 DEF n
<1>10. QED
  BY <1>6, <1>7, <1>8, <1>9 DEF n

\* The steps of Begin(), NextCode() and TimeStamp(), each in its own thread.
LEMMA BeginStep ==
  ASSUME TypeInv, NEW t \in Threads, Begin(t)
  PROVE  /\ slot' = First(slot) /\ slot' \in Codes
         /\ task'[t] \in Task
         /\ task'[t] = [task[t] EXCEPT !.stage = "insert", !.next = 1,
                          !.rc = IF Len(slot) > MaxAnswered THEN RC_TRUNCATED ELSE @]
         /\ \A u \in Threads \ {t} : task'[u] = task[u]
         /\ task' \in [Threads -> Task]
<1> DEFINE rc == IF Len(slot) > MaxAnswered THEN RC_TRUNCATED ELSE task[t].rc
           k  == [task[t] EXCEPT !.stage = "insert", !.next = 1, !.rc = rc]
<1>1. task \in [Threads -> Task] /\ task[t] \in Task
  BY DEF TypeInv
<1>2. rc \in 0 .. 255
  BY <1>1 DEF RC_TRUNCATED, Task
<1>3. task' = [task EXCEPT ![t] = k]
  BY <1>1 DEF Begin
<1> HIDE DEF rc
<1>4. k \in Task
  BY <1>1, <1>2 DEF Task
<1>5. slot' = First(slot) /\ slot' \in Codes
  <2>1. slot \in Codes
    BY DEF TypeInv
  <2>2. slot' = IF Len(slot) > MaxAnswered THEN SubSeq(slot, 1, MaxAnswered) ELSE slot
    BY DEF Begin
  <2>3. slot' = First(slot)
    BY <2>1, <2>2, FirstCodes
  <2>4. QED
    BY <2>1, <2>3, FirstCodes
<1> HIDE DEF k
<1>6. /\ task'[t] = k /\ task' \in [Threads -> Task]
      /\ \A u \in Threads \ {t} : task'[u] = task[u]
  BY <1>1, <1>3, <1>4
<1>7. QED
  BY <1>4, <1>5, <1>6 DEF k, rc

LEMMA NextCodeStep ==
  ASSUME TypeInv, NEW t \in Threads, NextCode(t)
  PROVE  LET k == task[t]  n == k.next  s == slot[n]
         IN  /\ n \in 1 .. Len(slot) /\ s \in 0 .. 255
             /\ task'[t] \in Task
             /\ s > 250 => task'[t] = [k EXCEPT !.rc = RC_INVALID, !.out = <<>>, !.next = 0]
             /\ ~(s > 250) => \E parts : /\ Answer(s, parts)
                                         /\ task'[t] = [k EXCEPT !.next = n + 1, !.todo = parts]
             /\ \A u \in Threads \ {t} : task'[u] = task[u]
             /\ task' \in [Threads -> Task]
<1> DEFINE k == task[t]
           n == k.next
           s == slot[n]
           parts == IF s # 3 /\ devVarPtr(s) # None THEN insertSlot(s)
                    ELSE insertUnsupported(s)
<1>1. task \in [Threads -> Task] /\ k \in Task /\ slot \in Seq(0 .. 255)
  BY DEF TypeInv, Codes
<1>2. n \in 1 .. Len(slot)
  BY DEF NextCode
<1>3. s \in 0 .. 255
  BY <1>1, <1>2, ElementOfSeq
<1>4. Answer(s, parts)
  BY <1>3, AnswerParts
<1>5. /\ s > 250 => task' = [task EXCEPT ![t] = [k EXCEPT !.rc = RC_INVALID, !.out = <<>>, !.next = 0]]
      /\ ~(s > 250) => task' = [task EXCEPT ![t] = [k EXCEPT !.next = n + 1, !.todo = parts]]
  BY DEF NextCode
<1> HIDE DEF parts
<1> DEFINE refused == [k EXCEPT !.rc = RC_INVALID, !.out = <<>>, !.next = 0]
           goesOn  == [k EXCEPT !.next = n + 1, !.todo = parts]
<1>6. refused \in Task
  <2>1. <<>> \in Seq(Entry) /\ RC_INVALID \in 0 .. 255
    BY DEF RC_INVALID
  <2>2. QED
    BY <1>1, <2>1 DEF Task
<1>7. goesOn \in Task
  <2>1. n + 1 \in Nat /\ parts \in Seq(Part)
    BY <1>1, <1>4 DEF Task, Answer
  <2>2. QED
    BY <1>1, <2>1 DEF Task
<1> HIDE DEF refused, goesOn
<1>8. CASE s > 250
  <2>1. task' = [task EXCEPT ![t] = refused]
    BY <1>5, <1>8 DEF refused
  <2>2. /\ task'[t] = refused /\ task' \in [Threads -> Task]
        /\ \A u \in Threads \ {t} : task'[u] = task[u]
    BY <1>1, <1>6, <2>1
  <2>3. QED
    BY <1>2, <1>3, <1>6, <1>8, <2>2 DEF refused
<1>9. CASE ~(s > 250)
  <2>1. task' = [task EXCEPT ![t] = goesOn]
    BY <1>5, <1>9 DEF goesOn
  <2>2. /\ task'[t] = goesOn /\ task' \in [Threads -> Task]
        /\ \A u \in Threads \ {t} : task'[u] = task[u]
    BY <1>1, <1>7, <2>1
  <2>3. QED
    BY <1>2, <1>3, <1>4, <1>7, <1>9, <2>2 DEF goesOn
<1>10. QED
  BY <1>8, <1>9

LEMMA TimeStampStep ==
  ASSUME TypeInv, NEW t \in Threads, TimeStamp(t)
  PROVE  /\ task'[t] \in Task
         /\ task'[t] = [task[t] EXCEPT !.todo = Items(<<"dateTimeStamp">>), !.next = 0]
         /\ \A u \in Threads \ {t} : task'[u] = task[u]
         /\ task' \in [Threads -> Task]
<1> DEFINE k == [task[t] EXCEPT !.todo = Items(<<"dateTimeStamp">>), !.next = 0]
<1>1. task \in [Threads -> Task] /\ task[t] \in Task
  BY DEF TypeInv
<1>2. <<"dateTimeStamp">> \in Seq(PlainNames)
  BY DEF PlainNames
<1>3. Items(<<"dateTimeStamp">>) \in Seq(Part)
  BY <1>2, ItemsSound DEF SoundReply
<1>4. k \in Task
  BY <1>1, <1>3 DEF Task
<1>5. task' = [task EXCEPT ![t] = k]
  BY <1>1 DEF TimeStamp
<1> HIDE DEF k
<1>6. /\ task'[t] = k /\ task' \in [Threads -> Task]
      /\ \A u \in Threads \ {t} : task'[u] = task[u]
  BY <1>1, <1>4, <1>5
<1>7. QED
  BY <1>4, <1>6 DEF k

LEMMA SendStep ==
  ASSUME TypeInv, NEW t \in Threads, Send(t)
  PROVE  /\ task'[t] = Nothing
         /\ \A u \in Threads \ {t} : task'[u] = task[u]
         /\ task' \in [Threads -> Task]
<1>1. task \in [Threads -> Task] /\ task' = [task EXCEPT ![t] = Nothing]
  BY DEF TypeInv, Send
<1>2. Nothing \in Task
  BY NothingTyped
<1>3. QED
  BY <1>1, <1>2

LEMMA TypeInit == Init => TypeInv
<1> SUFFICES ASSUME Init PROVE TypeInv
  OBVIOUS
<1>1. units \in [Variables -> 0 .. 255]
  <2>1. ASSUME NEW v \in Variables
        PROVE  (CHOOSE u \in UnitSet[v] : \A w \in UnitSet[v] : u <= w) \in 0 .. 255
    <3>1. UnitSet[v] \in SUBSET (1 .. 255) /\ UnitSet[v] # {}
      BY CommandAssumption
    <3>2. UnitSet[v] \in SUBSET Nat
      BY <3>1
    <3>3. \E u \in UnitSet[v] : \A w \in UnitSet[v] : u <= w
      BY <3>1, <3>2, Least
    <3> DEFINE least == CHOOSE u \in UnitSet[v] : \A w \in UnitSet[v] : u <= w
    <3>4. least \in UnitSet[v]
      BY <3>3, Zenon
    <3> HIDE DEF least
    <3>5. least \in 0 .. 255
      BY <3>1, <3>4
    <3>6. QED
      BY <3>5 DEF least
  <2>2. QED
    BY <2>1 DEF Init
<1>2. slot \in Codes
  BY DEF Init, Codes
<1>3. task \in [Threads -> Task]
  BY NothingTyped DEF Init
<1>4. /\ store \in [Held -> 0 .. 255] /\ kept \in [Held -> 0 .. 255]
      /\ simulated \in [Variables -> 0 .. 255]
  BY DEF Init
<1>5. disturbed \in [Threads -> SUBSET {"slot", "units"}]
  BY DEF Init
<1>6. QED
  BY <1>1, <1>2, <1>3, <1>4, <1>5 DEF TypeInv

LEMMA TypeStep == TypeInv /\ [Next]_vars => TypeInv'
<1> SUFFICES ASSUME TypeInv, [Next]_vars
             PROVE  TypeInv'
  OBVIOUS
<1>0. "slot" \in {"slot", "units"} /\ "units" \in {"slot", "units"}
      /\ "burst" \in Threads /\ "command" \in Threads
  BY DEF Threads
<1>1. ASSUME NEW r \in Requests, Receive(r) PROVE TypeInv'
  <2>1. r \in Request /\ r.value \in 0 .. 255 /\ r.codes \in Codes
    BY CommandAssumption DEF Request
  <2>2. task' \in [Threads -> Task]
    BY <1>1, ReceiveStarts
  <2> DEFINE c == CommandOf(r)
             Written(place, old) == IF place \in c.writes THEN r.value ELSE old
             what == (IF slot' # slot THEN {"slot"} ELSE {})
                       \cup (IF units' # units THEN {"units"} ELSE {})
  <2>3. /\ store' = [i \in Held |-> Written(<<"store", i>>, store[i])]
        /\ units' = [v \in Variables |-> Written(<<"units", v>>, units[v])]
        /\ simulated' = [v \in Variables |-> Written(<<"simulated", v>>, simulated[v])]
        /\ kept' = [i \in Held |-> IF isError(c.rc) THEN kept[i]
                                   ELSE Written(<<"store", i>>, kept[i])]
        /\ slot' = IF r.cmd = 9 THEN r.codes ELSE slot
        /\ disturbed' = Disturb("burst", what)
    BY <1>1 DEF Receive
  <2>0. /\ \A i \in Held : store[i] \in 0 .. 255 /\ kept[i] \in 0 .. 255
        /\ \A v \in Variables : units[v] \in 0 .. 255 /\ simulated[v] \in 0 .. 255
    BY DEF TypeInv
  <2>4. store' \in [Held -> 0 .. 255] /\ kept' \in [Held -> 0 .. 255]
    <3>1. store' \in [Held -> 0 .. 255]
      BY <2>0, <2>1, <2>3
    <3>2. kept' \in [Held -> 0 .. 255]
      BY <2>0, <2>1, <2>3
    <3>3. QED
      BY <3>1, <3>2
  <2>5. simulated' \in [Variables -> 0 .. 255] /\ units' \in [Variables -> 0 .. 255]
    BY <2>0, <2>1, <2>3
  <2>6. slot' \in Codes
    BY <2>1, <2>3 DEF TypeInv
  <2>7. disturbed' \in [Threads -> SUBSET {"slot", "units"}]
    BY <1>0, <2>3, DisturbTyped
  <2>8. QED
    BY <2>2, <2>4, <2>5, <2>6, <2>7 DEF TypeInv
<1>2. ASSUME NEW cmd \in BurstCommands, NEW list \in IndexLists, Due(cmd, list)
      PROVE  TypeInv'
  <2>1. task' \in [Threads -> Task]
    BY <1>2, DueStarts
  <2>2. list \in Codes /\ Used(list) \in Codes
    BY CommandAssumption, UsedCodes
  <2>3. slot' = (IF cmd = 9 THEN Used(list) ELSE slot)
    BY <1>2 DEF Due, setIndexes
  <2>4. disturbed' = Disturb("command", IF slot' # slot THEN {"slot"} ELSE {})
        /\ UNCHANGED <<store, simulated, units, kept, writes>>
    BY <1>2 DEF Due
  <2>5. disturbed' \in [Threads -> SUBSET {"slot", "units"}]
    BY <1>0, <2>4, DisturbTyped
  <2>6. slot' \in Codes
    BY <2>2, <2>3 DEF TypeInv
  <2>7. QED
    BY <2>1, <2>4, <2>5, <2>6 DEF TypeInv
<1>3. ASSUME NEW t \in Threads, Begin(t) PROVE TypeInv'
  <2>1. slot' \in Codes /\ task' \in [Threads -> Task]
    BY <1>3, BeginStep
  <2>2. disturbed' = Disturb(Other(t), IF slot' # slot THEN {"slot"} ELSE {})
        /\ UNCHANGED <<store, simulated, units, kept, writes>>
    BY <1>3 DEF Begin
  <2>3. Other(t) \in Threads
    BY OtherThread
  <2>4. disturbed' \in [Threads -> SUBSET {"slot", "units"}]
    BY <1>0, <2>2, <2>3, DisturbTyped
  <2>5. QED
    BY <2>1, <2>2, <2>4 DEF TypeInv
<1>4. ASSUME NEW t \in Threads, Insert(t) PROVE TypeInv'
  BY <1>4, InsertMoves DEF Insert, TypeInv
<1>5. ASSUME NEW t \in Threads, NextCode(t) PROVE TypeInv'
  BY <1>5, NextCodeStep DEF NextCode, TypeInv
<1>6. ASSUME NEW t \in Threads, TimeStamp(t) PROVE TypeInv'
  BY <1>6, TimeStampStep DEF TimeStamp, TypeInv
<1>7. ASSUME NEW t \in Threads, Send(t) PROVE TypeInv'
  BY <1>7, SendStep DEF Send, TypeInv
<1>8. CASE UNCHANGED vars
  BY <1>8 DEF vars, TypeInv
<1>9. QED
  BY <1>1, <1>2, <1>3, <1>4, <1>5, <1>6, <1>7, <1>8, NextCases

\* The items, the units, the codes command 9 keeps and both threads' replies are
\* what they are declared as, whatever is asked for and published in whatever
\* order (the insert_Data() of Commands/cmd_*.h).
THEOREM CommandTypes == Spec => []TypeInv
<1>1. QED
  BY TypeInit, TypeStep, PTL DEF Spec

-----------------------------------------------------------------------------
(* What a reply shows of the items hosts write. *)

LEMMA ShowsStep == TypeInv /\ ShowsInv /\ [Next]_vars => ShowsInv'
<1> SUFFICES ASSUME TypeInv, ShowsInv, [Next]_vars
             PROVE  ShowsInv'
  OBVIOUS
<1> DEFINE Shows(out, st) == \A i \in DOMAIN out :
             out[i].part.item \in Held => out[i].shows = st[out[i].part.item]
<1>0. "burst" \in Threads /\ "command" \in Threads /\ Threads = {"command", "burst"}
  BY DEF Threads
<1>a. store = kept /\ Shows(task["command"].out, store)
  BY DEF ShowsInv, ShowsLastAccepted
<1>b. store' = kept' /\ Shows(task'["command"].out, store') => ShowsInv'
  BY DEF ShowsInv, ShowsLastAccepted
<1>c. Shows(<<>>, store')
  OBVIOUS
<1>d. task["command"] \in Task
  BY <1>0 DEF TypeInv
<1>1. ASSUME NEW r \in Requests, Receive(r) PROVE ShowsInv'
  <2>1. task'["command"].out = <<>>
    BY <1>1, ReceiveStarts DEF Fresh
  <2>2. r \in Request
    BY CommandAssumption
  <2>3. isError(CommandOf(r).rc) => \A i \in Held : <<"store", i>> \notin CommandOf(r).writes
    BY <2>2, CommandsSound DEF Sound
  <2>4. /\ store' = [i \in Held |-> IF <<"store", i>> \in CommandOf(r).writes THEN r.value
                                    ELSE store[i]]
        /\ kept' = [i \in Held |-> IF isError(CommandOf(r).rc) THEN kept[i]
                                   ELSE IF <<"store", i>> \in CommandOf(r).writes THEN r.value
                                   ELSE kept[i]]
    BY <1>1 DEF Receive
  <2>5. store' = kept'
    BY <1>a, <2>3, <2>4
  <2>6. QED
    BY <1>b, <1>c, <2>1, <2>5
<1>2. ASSUME NEW cmd \in BurstCommands, NEW list \in IndexLists, Due(cmd, list)
      PROVE  ShowsInv'
  <2>1. task'["command"] = task["command"]
    BY <1>2, DueStarts
  <2>2. store' = store /\ kept' = kept
    BY <1>2 DEF Due
  <2>3. QED
    BY <1>a, <1>b, <2>1, <2>2
<1>3. ASSUME NEW t \in Threads, Begin(t) PROVE ShowsInv'
  <2>1. task'["command"].out = task["command"].out
    <3>1. CASE t = "command"
      <4>1. task'[t] = [task[t] EXCEPT !.stage = "insert", !.next = 1,
                          !.rc = IF Len(slot) > MaxAnswered THEN RC_TRUNCATED ELSE @]
        BY <1>3, BeginStep
      <4>2. QED
        BY <1>d, <3>1, <4>1 DEF Task
    <3>2. CASE t # "command"
      BY <1>0, <1>3, <3>2, BeginStep
    <3>3. QED
      BY <3>1, <3>2
  <2>2. store' = store /\ kept' = kept
    BY <1>3 DEF Begin
  <2>3. QED
    BY <1>a, <1>b, <2>1, <2>2
<1>4. ASSUME NEW t \in Threads, Insert(t) PROVE ShowsInv'
  <2>1. store' = store /\ kept' = kept
    BY <1>4 DEF Insert
  <2>2. CASE t = "command"
    <3> DEFINE k == task[t]
               l == task'[t]
    <3>1. PICK n \in 1 .. Len(k.todo) : Moved(k, l, n)
      BY <1>4, InsertMoves
    <3>2. k.out \in Seq(Entry) /\ k.todo \in Seq(Part) /\ l.out \in Seq(Entry)
      BY <1>0, <3>1 DEF TypeInv, Task, Moved
    <3>3. ASSUME NEW i \in DOMAIN l.out, l.out[i].part.item \in Held
          PROVE  l.out[i].shows = store[l.out[i].part.item]
      <4>1. CASE i \in 1 .. Len(k.out)
        <5>1. l.out[i] = k.out[i] /\ i \in DOMAIN k.out
          BY <3>1, <3>2, <4>1 DEF Moved
        <5>2. QED
          BY <1>a, <2>2, <3>3, <5>1
      <4>2. CASE i \notin 1 .. Len(k.out)
        <5>a. i \in 1 .. Len(k.out) + n /\ Len(k.out) \in Nat /\ n \in Nat
          BY <3>1, <3>2 DEF Moved
        <5>b. \A a \in Nat, b \in Nat : \A c \in 1 .. a + b : c \notin 1 .. a =>
                c - a \in 1 .. b /\ c = a + (c - a)
          OBVIOUS
        <5>c. i - Len(k.out) \in 1 .. n /\ i = Len(k.out) + (i - Len(k.out))
          BY <4>2, <5>a, <5>b
        <5>1. PICK j \in 1 .. n : i = Len(k.out) + j
          BY <5>c
        <5>2. l.out[i] = [part |-> k.todo[j], shows |-> Shown(k.todo[j])]
          BY <3>1, <5>1 DEF Moved
        <5>3. k.todo[j] \in Part
          BY <3>1, <3>2, <5>1
        <5>4. QED
          BY <3>3, <5>2, <5>3, ShownTyped
      <4>3. QED
        BY <4>1, <4>2
    <3>4. QED
      BY <1>a, <1>b, <2>1, <2>2, <3>3
  <2>3. CASE t # "command"
    BY <1>0, <1>4, <1>a, <1>b, <2>1, <2>3, InsertMoves
  <2>4. QED
    BY <2>2, <2>3
<1>5. ASSUME NEW t \in Threads, NextCode(t) PROVE ShowsInv'
  <2>1. task'["command"].out \in {task["command"].out, <<>>}
    <3>1. CASE t = "command"
      <4>1. CASE slot[task[t].next] > 250
        <5>1. task'[t] = [task[t] EXCEPT !.rc = RC_INVALID, !.out = <<>>, !.next = 0]
          BY <1>5, <4>1, NextCodeStep
        <5>2. QED
          BY <1>d, <3>1, <5>1 DEF Task
      <4>2. CASE ~(slot[task[t].next] > 250)
        <5>1. PICK parts : task'[t] = [task[t] EXCEPT !.next = task[t].next + 1, !.todo = parts]
          BY <1>5, <4>2, NextCodeStep
        <5>2. QED
          BY <1>d, <3>1, <5>1 DEF Task
      <4>3. QED
        BY <4>1, <4>2
    <3>2. CASE t # "command"
      BY <1>0, <1>5, <3>2, NextCodeStep
    <3>3. QED
      BY <3>1, <3>2
  <2>2. store' = store /\ kept' = kept
    BY <1>5 DEF NextCode
  <2>3. QED
    BY <1>a, <1>b, <1>c, <2>1, <2>2
<1>6. ASSUME NEW t \in Threads, TimeStamp(t) PROVE ShowsInv'
  <2>1. task'["command"].out = task["command"].out
    <3>1. CASE t = "command"
      <4>1. task'[t] = [task[t] EXCEPT !.todo = Items(<<"dateTimeStamp">>), !.next = 0]
        BY <1>6, TimeStampStep
      <4>2. QED
        BY <1>d, <3>1, <4>1 DEF Task
    <3>2. CASE t # "command"
      BY <1>0, <1>6, <3>2, TimeStampStep
    <3>3. QED
      BY <3>1, <3>2
  <2>2. store' = store /\ kept' = kept
    BY <1>6 DEF TimeStamp
  <2>3. QED
    BY <1>a, <1>b, <2>1, <2>2
<1>7. ASSUME NEW t \in Threads, Send(t) PROVE ShowsInv'
  <2>1. task'["command"].out \in {task["command"].out, <<>>}
    BY <1>0, <1>7, SendStep DEF Nothing
  <2>2. store' = store /\ kept' = kept
    BY <1>7 DEF Send
  <2>3. QED
    BY <1>a, <1>b, <1>c, <2>1, <2>2
<1>8. CASE UNCHANGED vars
  BY <1>8, <1>a, <1>b DEF vars
<1>9. QED
  BY <1>1, <1>2, <1>3, <1>4, <1>5, <1>6, <1>7, <1>8, NextCases

\* A reply shows what the last accepted request has written, whichever command
\* wrote it and whichever shows it (cmd_18.h:45, cmd_c513.h:48), and
\* never what a refused one carried.
THEOREM CommandsShowLastAccepted == Spec => []ShowsLastAccepted
<1>1. Init => ShowsInv
  BY DEF Init, ShowsInv, ShowsLastAccepted, Threads, Nothing
<1>2. QED
  BY <1>1, ShowsStep, CommandTypes, PTL DEF Spec, ShowsInv

-----------------------------------------------------------------------------
(* The units of the values in a reply. *)

\* Greatest element.
LEMMA Greatest ==
  ASSUME NEW n \in Nat, NEW A \in SUBSET (1 .. n), A # {}
  PROVE  \E x \in A : \A y \in A : y <= x
<1> DEFINE B == {m \in 0 .. n : n - m \in A}
<1>1. B \in SUBSET Nat
  OBVIOUS
<1>2. \A y \in A : n - y \in B
  OBVIOUS
<1>3. B # {}
  BY <1>2
<1>4. PICK m \in B : \A k \in B : m <= k
  <2> HIDE DEF B
  <2>1. QED BY <1>1, <1>3, Least
<1>5. n - m \in A /\ m \in 0 .. n
  OBVIOUS
<1>6. \A y \in A : y <= n - m
  <2>1. ASSUME NEW y \in A PROVE y <= n - m
    <3>1. m <= n - y
      BY <1>2, <1>4
    <3>2. QED
      BY <3>1, <1>5
  <2>2. QED BY <2>1
<1>7. QED
  BY <1>5, <1>6

\* The positions of two sequences, one after the other.
LEMMA Split ==
  ASSUME NEW a \in Nat, NEW b \in Nat
  PROVE  /\ a + b \in Nat
         /\ \A i \in 1 .. a : i \in 1 .. a + b /\ i <= a
         /\ \A i \in 1 .. b : a + i \in 1 .. a + b /\ ~(a + i <= a) /\ (a + i) - a = i
         /\ \A i \in 1 .. a + b : \/ i \in 1 .. a
                                  \/ \E j \in 1 .. b : i = a + j
<1>1. \A i \in 1 .. a + b : i \notin 1 .. a => i - a \in 1 .. b /\ i = a + (i - a)
  OBVIOUS
<1>2. \A i \in 1 .. a + b : \/ i \in 1 .. a
                            \/ \E j \in 1 .. b : i = a + j
  BY <1>1
<1>3. QED
  BY <1>2

\* How the whole of a reply changes with the steps.
LEMMA ReplyTyped ==
  ASSUME NEW k \in Task
  PROVE  /\ Reply(k) \in Seq(Part)
         /\ Len(Reply(k)) = Len(k.out) + Len(k.todo)
         /\ DOMAIN Reply(k) = 1 .. Len(k.out) + Len(k.todo)
         /\ \A i \in 1 .. Len(k.out) : Reply(k)[i] = k.out[i].part
         /\ \A i \in 1 .. Len(k.todo) : Reply(k)[Len(k.out) + i] = k.todo[i]
<1>1. k.out \in Seq(Entry) /\ k.todo \in Seq(Part) /\ Len(k.out) \in Nat /\ Len(k.todo) \in Nat
  BY DEF Task
<1>2. \A i \in 1 .. Len(k.out) : k.out[i].part \in Part
  <2>1. \A i \in 1 .. Len(k.out) : k.out[i] \in Entry
    BY <1>1, ElementOfSeq
  <2>2. QED
    BY <2>1 DEF Entry
<1>3. \A i \in 1 .. Len(k.todo) : k.todo[i] \in Part
  BY <1>1, ElementOfSeq
<1>4. PICK a \in Nat, b \in Nat : a = Len(k.out) /\ b = Len(k.todo)
  BY <1>1
<1>5. /\ a + b \in Nat
      /\ \A i \in 1 .. a : i \in 1 .. a + b /\ i <= a
      /\ \A i \in 1 .. b : a + i \in 1 .. a + b /\ ~(a + i <= a) /\ (a + i) - a = i
      /\ \A i \in 1 .. a + b : i \in 1 .. a \/ \E j \in 1 .. b : i = a + j
  BY Split
<1>6. PICK whole : whole = [i \in 1 .. a + b |-> IF i <= a THEN k.out[i].part
                                                ELSE k.todo[i - a]]
  OBVIOUS
<1>7. Reply(k) = whole
  BY <1>4, <1>6 DEF Reply
<1>8. \A i \in 1 .. a : whole[i] = k.out[i].part
  BY <1>5, <1>6
<1>9. \A i \in 1 .. b : whole[a + i] = k.todo[i]
  BY <1>5, <1>6
<1>10. \A i \in 1 .. a + b : whole[i] \in Part
  <2>1. ASSUME NEW i \in 1 .. a + b PROVE whole[i] \in Part
    <3>1. CASE i \in 1 .. a
      BY <1>2, <1>4, <1>8, <3>1
    <3>2. CASE \E j \in 1 .. b : i = a + j
      BY <1>3, <1>4, <1>9, <3>2
    <3>3. QED
      BY <1>5, <3>1, <3>2
  <2>2. QED
    BY <2>1
<1>11. whole \in [1 .. a + b -> Part]
  BY <1>6, <1>10
<1>12. whole \in Seq(Part) /\ Len(whole) = a + b /\ DOMAIN whole = 1 .. a + b
  BY <1>5, <1>11
<1>13. QED
  BY <1>4, <1>7, <1>8, <1>9, <1>12

\* Two replies that agree on both of their parts are the same.
LEMMA ReplyIs ==
  ASSUME NEW k \in Task, NEW parts \in Seq(Part), Len(parts) = Len(k.out) + Len(k.todo),
         \A i \in 1 .. Len(k.out) : parts[i] = k.out[i].part,
         \A i \in 1 .. Len(k.todo) : parts[Len(k.out) + i] = k.todo[i]
  PROVE  Reply(k) = parts
<1>1. PICK a \in Nat, b \in Nat : a = Len(k.out) /\ b = Len(k.todo)
  BY DEF Task
<1>2. PICK whole : whole = Reply(k)
  OBVIOUS
<1>3. /\ whole \in Seq(Part) /\ Len(whole) = a + b
      /\ \A i \in 1 .. a : whole[i] = k.out[i].part
      /\ \A i \in 1 .. b : whole[a + i] = k.todo[i]
  BY <1>1, <1>2, ReplyTyped
<1>4. \A i \in 1 .. a + b : i \in 1 .. a \/ \E j \in 1 .. b : i = a + j
  BY Split
<1>5. \A i \in 1 .. a + b : whole[i] = parts[i]
  <2>1. \A i \in 1 .. a : whole[i] = parts[i]
    BY <1>1, <1>3
  <2>2. \A i \in 1 .. b : whole[a + i] = parts[a + i]
    BY <1>1, <1>3
  <2>3. QED
    BY <1>4, <2>1, <2>2
<1>6. whole = parts
  BY <1>1, <1>3, <1>5, SeqEqual
<1>7. QED
  BY <1>2, <1>6

LEMMA ReplyFresh ==
  ASSUME NEW k \in Task, k.out = <<>>
  PROVE  Reply(k) = k.todo
<1>1. k.todo \in Seq(Part) /\ Len(k.todo) \in Nat /\ Len(k.out) = 0
  BY DEF Task
<1>2. Len(k.todo) = Len(k.out) + Len(k.todo)
  BY <1>1
<1>3. \A i \in 1 .. Len(k.out) : k.todo[i] = k.out[i].part
  BY <1>1
<1>4. \A i \in 1 .. Len(k.todo) : k.todo[Len(k.out) + i] = k.todo[i]
  BY <1>1
<1>5. QED
  BY <1>1, <1>2, <1>3, <1>4, ReplyIs

LEMMA ReplyMoved ==
  ASSUME NEW k \in Task, NEW l, NEW n, Moved(k, l, n)
  PROVE  Reply(l) = Reply(k)
<1>1. l \in Task /\ n \in 1 .. Len(k.todo)
  BY DEF Moved
<1>0. Len(k.out) \in Nat /\ Len(k.todo) \in Nat /\ Len(l.todo) \in Nat
  BY <1>1 DEF Task
<1>2. PICK a \in Nat, b \in Nat, c \in Nat : a = Len(k.out) /\ b = n /\ c = Len(l.todo)
  <2>1. n \in Nat
    BY <1>0, <1>1
  <2>2. QED
    BY <1>0, <2>1
<1>w. PICK whole : whole = Reply(k)
  OBVIOUS
<1>3. Len(l.out) = a + b /\ Len(k.todo) = b + c
  <2>1. Len(l.out) = Len(k.out) + n /\ Len(l.todo) = Len(k.todo) - n
    BY DEF Moved
  <2>2. QED
    BY <1>0, <1>2, <2>1
<1>4. /\ \A i \in 1 .. a : l.out[i] = k.out[i]
      /\ \A i \in 1 .. b : l.out[a + i].part = k.todo[i]
      /\ \A i \in 1 .. c : l.todo[i] = k.todo[b + i]
  <2>1. \A i \in 1 .. b : l.out[a + i] = [part |-> k.todo[i], shows |-> Shown(k.todo[i])]
    BY <1>2 DEF Moved
  <2>2. \A i \in 1 .. b : l.out[a + i].part = k.todo[i]
    <3>1. TAKE i \in 1 .. b
    <3>2. l.out[a + i] = [part |-> k.todo[i], shows |-> Shown(k.todo[i])]
      BY <2>1
    <3>3. QED
      BY <3>2
  <2>3. \A i \in 1 .. a : l.out[i] = k.out[i]
    BY <1>2 DEF Moved
  <2>4. \A i \in 1 .. c : l.todo[i] = k.todo[b + i]
    BY <1>2 DEF Moved
  <2>5. QED
    BY <2>2, <2>3, <2>4
<1>5. /\ whole \in Seq(Part) /\ Len(whole) = a + (b + c)
      /\ \A i \in 1 .. a : whole[i] = k.out[i].part
      /\ \A i \in 1 .. b + c : whole[a + i] = k.todo[i]
  BY <1>2, <1>3, <1>w, ReplyTyped
<1>6. Len(whole) = Len(l.out) + Len(l.todo)
  <2>1. a + (b + c) = (a + b) + c
    OBVIOUS
  <2>2. QED
    BY <1>2, <1>3, <1>5, <2>1
<1>7. \A i \in 1 .. Len(l.out) : whole[i] = l.out[i].part
  <2>1. \A i \in 1 .. a + b : i \in 1 .. a \/ \E j \in 1 .. b : i = a + j
    BY Split
  <2>2. \A j \in 1 .. b : j \in 1 .. b + c
    BY Split
  <2>3. \A j \in 1 .. b : whole[a + j] = l.out[a + j].part
    BY <1>4, <1>5, <2>2
  <2>4. \A i \in 1 .. a : whole[i] = l.out[i].part
    BY <1>4, <1>5
  <2>5. QED
    BY <1>3, <2>1, <2>3, <2>4
<1>8. \A i \in 1 .. Len(l.todo) : whole[Len(l.out) + i] = l.todo[i]
  <2>1. \A j \in 1 .. c : b + j \in 1 .. b + c /\ a + (b + j) = (a + b) + j
    OBVIOUS
  <2>2. \A j \in 1 .. c : whole[(a + b) + j] = k.todo[b + j]
    BY <1>5, <2>1
  <2>3. QED
    BY <1>2, <1>3, <1>4, <2>2
<1>9. Reply(l) = whole
  BY <1>1, <1>5, <1>6, <1>7, <1>8, ReplyIs
<1>10. QED
  BY <1>w, <1>9

LEMMA ReplyGrown ==
  ASSUME NEW k \in Task, NEW l \in Task, k.todo = <<>>, l.out = k.out
  PROVE  Reply(l) = Reply(k) \o l.todo
<1>0. Len(k.out) \in Nat /\ Len(l.todo) \in Nat /\ Len(k.todo) = 0
  BY DEF Task
<1>a. PICK a \in Nat, b \in Nat : a = Len(k.out) /\ b = Len(l.todo)
  BY <1>0
<1>p. PICK p, q : p = Reply(k) /\ q = l.todo
  OBVIOUS
<1>1. a = Len(k.out) /\ b = Len(l.todo) /\ p = Reply(k) /\ q = l.todo
  BY <1>a, <1>p
<1>2. /\ p \in Seq(Part) /\ Len(p) = a + Len(k.todo) /\ \A i \in 1 .. a : p[i] = k.out[i].part
  BY <1>1, ReplyTyped
<1>3. q \in Seq(Part) /\ Len(q) = b /\ Len(p) = a
  BY <1>0, <1>1, <1>2 DEF Task
<1>4. PICK both : both = p \o q
  OBVIOUS
<1>5. /\ both \in Seq(Part) /\ Len(both) = a + b
      /\ \A i \in 1 .. a + b : both[i] = IF i <= a THEN p[i] ELSE q[i - a]
  <2>1. /\ p \o q \in Seq(Part) /\ Len(p \o q) = Len(p) + Len(q)
        /\ \A i \in 1 .. Len(p) + Len(q) :
             (p \o q)[i] = IF i <= Len(p) THEN p[i] ELSE q[i - Len(p)]
    <3>1. p \in Seq(Part) /\ q \in Seq(Part)
      BY <1>2, <1>3
    <3>2. QED
      BY <3>1, ConcatProperties
  <2>2. QED
    BY <1>3, <1>4, <2>1
<1>6. /\ \A i \in 1 .. a : i \in 1 .. a + b /\ i <= a
      /\ \A i \in 1 .. b : a + i \in 1 .. a + b /\ ~(a + i <= a) /\ (a + i) - a = i
  BY Split
<1>7. \A i \in 1 .. a : both[i] = l.out[i].part
  BY <1>2, <1>5, <1>6
<1>8. \A i \in 1 .. b : both[a + i] = l.todo[i]
  <2>1. \A i \in 1 .. b : both[a + i] = q[(a + i) - a]
    BY <1>5, <1>6
  <2>2. QED
    BY <1>1, <1>6, <2>1
<1>9. Reply(l) = both
  <2>1. both \in Seq(Part) /\ Len(both) = Len(l.out) + Len(l.todo)
    BY <1>1, <1>5
  <2>2. \A i \in 1 .. Len(l.out) : both[i] = l.out[i].part
    BY <1>1, <1>7
  <2>3. \A i \in 1 .. Len(l.todo) : both[Len(l.out) + i] = l.todo[i]
    BY <1>1, <1>8
  <2>4. QED
    BY <2>1, <2>2, <2>3, ReplyIs
<1>10. QED
  BY <1>1, <1>4, <1>9

\* Every step keeps UnitsInv.
UnitsOf(k) == WithUnitsOfPV(k.req) \/ UnitsNamed(Reply(k))

LEMMA FreshUnits ==
  ASSUME NEW k, NEW r, Fresh(k, r)
  PROVE  UnitsOf(k) /\ k.out = <<>>
<1>1. Reply(k) = k.todo
  BY ReplyFresh DEF Fresh
<1>2. QED
  BY <1>1 DEF Fresh, SoundReply, UnitsOf

LEMMA GrownUnits ==
  ASSUME NEW k \in Task, NEW l \in Task, k.todo = <<>>, l.out = k.out, l.req = k.req,
         UnitsOf(k), UnitsNamed(l.todo)
  PROVE  UnitsOf(l)
<1>1. Reply(l) = Reply(k) \o l.todo
  BY ReplyGrown
<1>2. Reply(k) \in Seq(Part) /\ l.todo \in Seq(Part)
  BY ReplyTyped DEF Task
<1>3. UnitsNamed(Reply(k)) => UnitsNamed(Reply(l))
  <2>1. UnitsNamed(Reply(k)) /\ UnitsNamed(l.todo) => UnitsNamed(Reply(k) \o l.todo)
    BY <1>2, NamedConcat
  <2>2. QED
    BY <1>1, <2>1
<1>4. QED
  BY <1>3 DEF UnitsOf

LEMMA MovedUnits ==
  ASSUME TypeInv, NEW k \in Task, NEW l, NEW n, Moved(k, l, n), InUnits(k.out)
  PROVE  InUnits(l.out)
<1>1. k.todo \in Seq(Part) /\ Len(k.out) \in Nat /\ Len(k.todo) \in Nat
      /\ l.out \in Seq(Entry) /\ k.out \in Seq(Entry) /\ n \in 1 .. Len(k.todo)
      /\ Len(l.out) = Len(k.out) + n
  BY DEF Task, Moved
<1>2. PICK a \in Nat, b \in Nat : a = Len(k.out) /\ b = n
  <2>1. n \in Nat
    BY <1>1
  <2>2. QED
    BY <1>1, <2>1
<1>3. \A i \in 1 .. a + b : i \in 1 .. a \/ \E j \in 1 .. b : i = a + j
  BY Split
<1> DEFINE Right(o) ==
      /\ \A v \in Variables : o.part = Units(v) => o.shows = units[v]
      /\ o.part.by # None => o.shows = frmStandard(o.part.by, units[o.part.by])
<1>4. ASSUME NEW i \in 1 .. a PROVE Right(l.out[i])
  <2>1. l.out[i] = k.out[i] /\ i \in DOMAIN k.out
    BY <1>1, <1>2 DEF Moved
  <2>2. QED
    BY <2>1 DEF InUnits
<1>5. ASSUME NEW j \in 1 .. b PROVE Right(l.out[a + j])
  <2>1. l.out[a + j] = [part |-> k.todo[j], shows |-> Shown(k.todo[j])]
    BY <1>2 DEF Moved
  <2>2. k.todo[j] \in Part
    <3>1. j \in 1 .. Len(k.todo)
      BY <1>1, <1>2
    <3>2. QED
      BY <1>1, <3>1, ElementOfSeq
  <2>3. QED
    BY <2>1, <2>2, ShownTyped
<1> HIDE DEF Right
<1>6. \A i \in 1 .. a + b : Right(l.out[i])
  BY <1>3, <1>4, <1>5
<1>7. \A i \in DOMAIN l.out : Right(l.out[i])
  <2>1. DOMAIN l.out = 1 .. a + b
    BY <1>1, <1>2
  <2>2. QED
    BY <1>6, <2>1
<1>8. QED
  BY <1>7 DEF Right, InUnits

LEMMA UnitsStep == TypeInv /\ UnitsInv /\ [Next]_vars => UnitsInv'
<1> SUFFICES ASSUME TypeInv, UnitsInv, [Next]_vars
             PROVE  UnitsInv'
  OBVIOUS
<1> DEFINE Holds(t) == /\ UnitsOf(task[t])
                       /\ "units" \in disturbed[t] \/ InUnits(task[t].out)
                       /\ task[t].stage = "idle" => task[t].out = <<>>
<1>0. "burst" \in Threads /\ "command" \in Threads /\ Threads = {"command", "burst"}
  BY DEF Threads
<1>a. \A t \in Threads : Holds(t)
  BY DEF UnitsInv, UnitsOf
<1>b. (\A t \in Threads : Holds(t)') => UnitsInv'
  BY DEF UnitsInv, UnitsOf
<1>c. InUnits(<<>>)'
  BY DEF InUnits
<1>d. \A t \in Threads : task[t] \in Task
  BY DEF TypeInv
<1>e. ASSUME NEW t \in Threads, task'[t] = task[t], units' = units,
             "units" \in disturbed[t] => "units" \in disturbed'[t]
      PROVE  Holds(t)'
  <2>1. InUnits(task[t].out) => InUnits(task[t].out)'
    BY <1>e DEF InUnits
  <2>2. QED
    BY <1>a, <1>e, <2>1 DEF UnitsOf
<1>f. \A t, u \in Threads, what \in SUBSET {"slot", "units"} :
        "units" \in disturbed[t] => "units" \in Disturb(u, what)[t]
  BY DEF Disturb, TypeInv
<1>1. ASSUME NEW r \in Requests, Receive(r) PROVE UnitsInv'
  <2>1. Fresh(task'["command"], r) /\ task'["burst"] = task["burst"]
    BY <1>1, ReceiveStarts
  <2>2. Holds("command")'
    BY <1>c, <2>1, FreshUnits DEF Fresh
  <2>3. disturbed' = Disturb("burst", (IF slot' # slot THEN {"slot"} ELSE {})
                                        \cup (IF units' # units THEN {"units"} ELSE {}))
    BY <1>1 DEF Receive
  <2>4. "units" \in disturbed["burst"] => "units" \in disturbed'["burst"]
    BY <1>0, <1>f, <2>3
  <2>5. CASE units' = units
    BY <1>0, <1>b, <1>e, <2>1, <2>2, <2>4, <2>5
  <2>6. CASE units' # units /\ task["burst"].stage = "idle"
    BY <1>0, <1>a, <1>b, <1>c, <2>1, <2>2, <2>6
  <2>7. CASE units' # units /\ task["burst"].stage # "idle"
    <3>1. "units" \in disturbed'["burst"]
      BY <1>0, <2>3, <2>7 DEF Disturb, TypeInv
    <3>2. QED
      BY <1>0, <1>a, <1>b, <2>1, <2>2, <2>7, <3>1
  <2>8. QED
    BY <2>5, <2>6, <2>7
<1>2. ASSUME NEW cmd \in BurstCommands, NEW list \in IndexLists, Due(cmd, list)
      PROVE  UnitsInv'
  <2>1. Fresh(task'["burst"], task'["burst"].req) /\ task'["command"] = task["command"]
    BY <1>2, DueStarts
  <2>2. Holds("burst")'
    BY <1>c, <2>1, FreshUnits DEF Fresh
  <2>3. units' = units /\ disturbed' = Disturb("command", IF slot' # slot THEN {"slot"} ELSE {})
    BY <1>2 DEF Due
  <2>4. Holds("command")'
    BY <1>0, <1>e, <1>f, <2>1, <2>3
  <2>5. QED
    BY <1>0, <1>b, <2>2, <2>4
<1>3. ASSUME NEW t \in Threads, Begin(t) PROVE UnitsInv'
  <2>1. units' = units
        /\ disturbed' = Disturb(Other(t), IF slot' # slot THEN {"slot"} ELSE {})
    BY <1>3 DEF Begin
  <2>2. \A u \in Threads : "units" \in disturbed[u] => "units" \in disturbed'[u]
    BY <1>f, <2>1, OtherThread
  <2>3. \A u \in Threads \ {t} : Holds(u)'
    BY <1>3, <1>e, <2>1, <2>2, BeginStep
  <2>4. /\ task'[t].out = task[t].out /\ task'[t].todo = task[t].todo
        /\ task'[t].req = task[t].req /\ task'[t].stage = "insert"
    <3>1. task'[t] = [task[t] EXCEPT !.stage = "insert", !.next = 1,
                        !.rc = IF Len(slot) > MaxAnswered THEN RC_TRUNCATED ELSE @]
      BY <1>3, BeginStep
    <3>2. QED
      BY <1>d, <3>1 DEF Task
  <2>5. Reply(task'[t]) = Reply(task[t])
    BY <2>4 DEF Reply
  <2>6. InUnits(task[t].out) => InUnits(task[t].out)'
    BY <2>1, <2>4 DEF InUnits
  <2>7. Holds(t)'
    BY <1>a, <2>2, <2>4, <2>5, <2>6 DEF UnitsOf
  <2>8. QED
    BY <1>b, <2>3, <2>7
<1>4. ASSUME NEW t \in Threads, Insert(t) PROVE UnitsInv'
  <2>1. units' = units /\ disturbed' = disturbed /\ task[t].stage = "insert"
    BY <1>4 DEF Insert
  <2>2. PICK n \in 1 .. Len(task[t].todo) : Moved(task[t], task'[t], n)
    BY <1>4, InsertMoves
  <2>3. \A u \in Threads \ {t} : Holds(u)'
    BY <1>4, <1>e, <2>1, InsertMoves
  <2>4. Reply(task'[t]) = Reply(task[t])
    BY <1>d, <2>2, ReplyMoved
  <2>5. InUnits(task[t].out) => InUnits(task'[t].out)
    BY <1>d, <2>2, MovedUnits
  <2>6. InUnits(task'[t].out) => InUnits(task[t].out)'
    BY <2>1 DEF InUnits
  <2>7. task'[t].req = task[t].req /\ task'[t].stage = "insert"
    BY <2>1, <2>2 DEF Moved
  <2>8. Holds(t)'
    BY <1>a, <2>1, <2>4, <2>5, <2>6, <2>7 DEF UnitsOf
  <2>9. QED
    BY <1>b, <2>3, <2>8
<1>5. ASSUME NEW t \in Threads, NextCode(t) PROVE UnitsInv'
  <2>1. /\ units' = units /\ disturbed' = disturbed
        /\ task[t].stage = "insert" /\ task[t].todo = <<>>
    BY <1>5 DEF NextCode
  <2>2. \A u \in Threads \ {t} : Holds(u)'
    BY <1>5, <1>e, <2>1, NextCodeStep
  <2>3. CASE slot[task[t].next] > 250
    <3>1. task'[t] = [task[t] EXCEPT !.rc = RC_INVALID, !.out = <<>>, !.next = 0]
      BY <1>5, <2>3, NextCodeStep
    <3>2. task'[t].out = <<>> /\ task'[t].todo = <<>>
      BY <1>d, <2>1, <3>1 DEF Task
    <3>3. Len(task'[t].out) = 0 /\ Len(task'[t].todo) = 0
      BY <3>2
    <3>4. UnitsNamed(Reply(task'[t]))
      BY <3>3 DEF Reply, UnitsNamed
    <3>5. QED
      BY <1>b, <1>c, <2>2, <3>2, <3>4 DEF UnitsOf
  <2>4. CASE ~(slot[task[t].next] > 250)
    <3>1. PICK parts : /\ Answer(slot[task[t].next], parts)
                       /\ task'[t] = [task[t] EXCEPT !.next = task[t].next + 1, !.todo = parts]
      BY <1>5, <2>4, NextCodeStep
    <3>2. /\ task'[t].out = task[t].out /\ task'[t].req = task[t].req
          /\ task'[t].todo = parts /\ task'[t].stage = task[t].stage
      BY <1>d, <3>1 DEF Task
    <3>3. task'[t] \in Task
      BY <1>5, NextCodeStep
    <3>4. UnitsNamed(parts)
      BY <3>1 DEF Answer
    <3>5. UnitsOf(task[t])
      BY <1>a
    <3>6. UnitsOf(task'[t])
      BY <1>d, <2>1, <3>2, <3>3, <3>4, <3>5, GrownUnits
    <3>7. InUnits(task[t].out) => InUnits(task[t].out)'
      BY <2>1, <3>2 DEF InUnits
    <3>8. Holds(t)'
      BY <1>a, <2>1, <3>2, <3>6, <3>7 DEF UnitsOf
    <3>9. QED
      BY <1>b, <2>2, <3>8
  <2>5. QED
    BY <2>3, <2>4
<1>6. ASSUME NEW t \in Threads, TimeStamp(t) PROVE UnitsInv'
  <2>1. /\ units' = units /\ disturbed' = disturbed
        /\ task[t].stage = "insert" /\ task[t].todo = <<>>
    BY <1>6 DEF TimeStamp
  <2>2. \A u \in Threads \ {t} : Holds(u)'
    BY <1>6, <1>e, <2>1, TimeStampStep
  <2>3. task'[t] = [task[t] EXCEPT !.todo = Items(<<"dateTimeStamp">>), !.next = 0]
        /\ task'[t] \in Task
    BY <1>6, TimeStampStep
  <2>4. /\ task'[t].out = task[t].out /\ task'[t].req = task[t].req
        /\ task'[t].todo = Items(<<"dateTimeStamp">>) /\ task'[t].stage = task[t].stage
    BY <1>d, <2>3 DEF Task
  <2>5. UnitsNamed(Items(<<"dateTimeStamp">>))
    BY DEF UnitsNamed, Items, Item
  <2>6. UnitsOf(task[t])
    BY <1>a
  <2>7. UnitsOf(task'[t])
    BY <1>d, <2>1, <2>3, <2>4, <2>5, <2>6, GrownUnits
  <2>8. InUnits(task[t].out) => InUnits(task[t].out)'
    BY <2>1, <2>4 DEF InUnits
  <2>9. Holds(t)'
    BY <1>a, <2>1, <2>4, <2>7, <2>8 DEF UnitsOf
  <2>10. QED
    BY <1>b, <2>2, <2>9
<1>7. ASSUME NEW t \in Threads, Send(t) PROVE UnitsInv'
  <2>1. units' = units /\ disturbed' = [disturbed EXCEPT ![t] = {}]
    BY <1>7 DEF Send
  <2>2. \A u \in Threads \ {t} : "units" \in disturbed[u] => "units" \in disturbed'[u]
    BY <2>1 DEF TypeInv
  <2>3. \A u \in Threads \ {t} : Holds(u)'
    BY <1>7, <1>e, <2>1, <2>2, SendStep
  <2>4. task'[t].out = <<>> /\ task'[t].todo = <<>>
    BY <1>7, SendStep DEF Nothing
  <2>5. UnitsNamed(Reply(task'[t]))
    <3>1. Len(task'[t].out) = 0 /\ Len(task'[t].todo) = 0
      BY <2>4
    <3>2. QED
      BY <3>1 DEF Reply, UnitsNamed
  <2>6. Holds(t)'
    BY <1>c, <2>4, <2>5 DEF UnitsOf
  <2>7. QED
    BY <1>b, <2>3, <2>6
<1>8. CASE UNCHANGED vars
  <2>1. task' = task /\ units' = units /\ disturbed' = disturbed
    BY <1>8 DEF vars
  <2>2. QED
    BY <1>b, <1>e, <2>1
<1>9. QED
  BY <1>1, <1>2, <1>3, <1>4, <1>5, <1>6, <1>7, <1>8, NextCases

\* A reply that is whole shows every value in the units it names.
LEMMA NamedUnits ==
  ASSUME TypeInv, NEW t \in Threads, task[t].todo = <<>>,
         UnitsNamed(Reply(task[t])), InUnits(task[t].out),
         NEW i \in DOMAIN task[t].out, task[t].out[i].part.by # None
  PROVE  task[t].out[i].shows
           = frmStandard(task[t].out[i].part.of,
                         Named(task[t].out, task[t].out[i].part.of, i))
<1> DEFINE k   == task[t]
           v   == k.out[i].part.by
           before == {j \in 1 .. i - 1 : k.out[j].part = Units(v)}
           last   == CHOOSE j \in before : \A m \in before : m <= j
<1>1. k \in Task /\ k.out \in Seq(Entry) /\ Len(k.out) \in Nat
  BY DEF TypeInv, Task
<1>2. i \in 1 .. Len(k.out) /\ i \in Nat
  BY <1>1
<1>3. Len(k.todo) = 0
  OBVIOUS
<1>4. /\ \A j \in 1 .. Len(k.out) : Reply(k)[j] = k.out[j].part
      /\ DOMAIN Reply(k) = 1 .. Len(k.out)
  <2>1. Len(k.out) + Len(k.todo) = Len(k.out)
    BY <1>1, <1>3
  <2>2. QED
    BY <1>1, <2>1, ReplyTyped
<1>5. k.out[i].part.of = v /\ \E j \in 1 .. i - 1 : Reply(k)[j] = Units(v)
  BY <1>2, <1>4 DEF UnitsNamed
<1>6. v \in Variables
  <2>1. k.out[i] \in Entry
    BY <1>1, <1>2, ElementOfSeq
  <2>2. QED
    BY <2>1 DEF Entry, Part
<1>7. \A j \in 1 .. i - 1 : j \in 1 .. Len(k.out)
  BY <1>1, <1>2
<1>8. before # {}
  BY <1>4, <1>5, <1>7
<1>9. last \in before
  <2>1. before \in SUBSET (1 .. i - 1) /\ i - 1 \in Nat
    BY <1>2
  <2>2. \E j \in before : \A m \in before : m <= j
    <3> HIDE DEF before
    <3>1. QED BY <1>8, <2>1, Greatest
  <2>3. QED
    BY <2>2, Zenon
<1>10. k.out[last].shows = units[v]
  <2> HIDE DEF last
  <2>0. last \in 1 .. i - 1 /\ k.out[last].part = Units(v)
    BY <1>9
  <2>1. last \in DOMAIN k.out /\ k.out[last].part = Units(v)
    BY <1>1, <1>7, <2>0
  <2>2. QED
    BY <1>6, <2>1 DEF InUnits
<1>11. k.out[i].shows = frmStandard(v, units[v])
  BY DEF InUnits
<1>12. Named(k.out, v, i) = units[v]
  BY <1>10 DEF Named
<1>13. QED
  BY <1>5, <1>11, <1>12

\* A value is sent in the units its own message names (cmd_01.h:63, cmd_03.h:66,
\* cmd_09.h:168), unless a command changes them while a message is put together,
\* and except in the reply of command 54 for another variable than the PV.
THEOREM CommandsNameUnits == Spec => []ValueInNamedUnits
<1>1. Init => UnitsInv
  <2> SUFFICES ASSUME Init PROVE UnitsInv
    OBVIOUS
  <2>1. \A t \in Threads : task[t].out = <<>> /\ task[t].todo = <<>>
    BY DEF Init, Nothing
  <2>2. \A t \in Threads : UnitsNamed(Reply(task[t]))
    <3>1. TAKE t \in Threads
    <3>2. Len(task[t].out) = 0 /\ Len(task[t].todo) = 0
      BY <2>1
    <3>3. QED
      BY <3>2 DEF Reply, UnitsNamed
  <2>3. InUnits(<<>>)
    BY DEF InUnits
  <2>4. QED
    BY <2>1, <2>2, <2>3 DEF UnitsInv
<1>2. TypeInv /\ UnitsInv => ValueInNamedUnits
  BY NamedUnits DEF UnitsInv, ValueInNamedUnits, Done
<1>3. QED
  BY <1>1, <1>2, UnitsStep, CommandTypes, PTL DEF Spec

-----------------------------------------------------------------------------
(* The codes that command 9 answers. *)

LEMMA Sums ==
  /\ \A s \in 0 .. 255 : ~(s > 250) <=> s <= 250
  /\ \A m \in Nat : (5 * m + 1) + 5 = 5 * (m + 1) + 1
  /\ \A m \in Nat : 1 \in 1 .. m + 1
  /\ 0 + 1 = 5 * (1 - 1) + 1
  /\ \A a \in Nat, b \in Nat : \A n \in 1 .. b : (a + n) + (b - n) = a + b
OBVIOUS

\* Two replies, one after the other, item by item.
LEMMA Joined ==
  ASSUME NEW p \in Seq(Part), NEW q \in Seq(Part)
  PROVE  /\ p \o q \in Seq(Part)
         /\ DOMAIN (p \o q) = 1 .. Len(p) + Len(q)
         /\ \A i \in 1 .. Len(p) : (p \o q)[i] = p[i]
         /\ \A i \in 1 .. Len(q) : (p \o q)[Len(p) + i] = q[i]
<1>1. PICK a \in Nat, b \in Nat : a = Len(p) /\ b = Len(q)
  OBVIOUS
<1>2. PICK both : both = p \o q
  OBVIOUS
<1>3. /\ both \in Seq(Part) /\ Len(both) = a + b
      /\ \A i \in 1 .. a + b : both[i] = IF i <= a THEN p[i] ELSE q[i - a]
  BY <1>1, <1>2, ConcatProperties
<1>4. /\ \A i \in 1 .. a : i \in 1 .. a + b /\ i <= a
      /\ \A i \in 1 .. b : a + i \in 1 .. a + b /\ ~(a + i <= a) /\ (a + i) - a = i
  BY Split
<1>5. \A i \in 1 .. a : both[i] = p[i]
  BY <1>3, <1>4
<1>6. \A i \in 1 .. b : both[a + i] = q[i]
  <2>1. \A i \in 1 .. b : both[a + i] = q[(a + i) - a]
    BY <1>3, <1>4
  <2>2. QED
    BY <1>4, <2>1
<1>7. DOMAIN both = 1 .. a + b
  BY <1>3
<1>8. QED
  BY <1>1, <1>2, <1>3, <1>5, <1>6, <1>7

\* The answer to one more code, and the end of the message.
LEMMA AnswersMore ==
  ASSUME NEW p \in Seq(Part), NEW q, NEW list, NEW m \in Nat, Len(p) = 5 * m + 1,
         AnswersFirst(p, list, m), Answer(list[m + 1], q)
  PROVE  AnswersFirst(p \o q, list, m + 1)
<1>1. q \in Seq(Part) /\ Len(q) = 5
  BY DEF Answer
<1>2. PICK a \in Nat : a = Len(p)
  OBVIOUS
<1>3. PICK both : both = p \o q
  OBVIOUS
<1>4. /\ DOMAIN both = 1 .. a + 5
      /\ \A i \in 1 .. a : both[i] = p[i]
      /\ \A i \in 1 .. 5 : both[a + i] = q[i]
  <2>1. /\ DOMAIN both = 1 .. Len(p) + Len(q)
        /\ \A i \in 1 .. Len(p) : both[i] = p[i]
        /\ \A i \in 1 .. Len(q) : both[Len(p) + i] = q[i]
    BY <1>1, <1>3, Joined
  <2>2. QED
    BY <1>1, <1>2, <2>1
<1>5. \A i \in 1 .. a + 5 : i \in 1 .. a \/ \E j \in 1 .. 5 : i = a + j
  BY Split
<1>6. a + 1 = 5 * (m + 1) - 3 /\ a + 1 \in 1 .. a + 5 /\ m + 1 \in 1 .. m + 1
  BY <1>2
<1>7. both[a + 1].item = "slot" /\ both[a + 1].of = list[m + 1]
  BY <1>4 DEF Answer
<1>8. ASSUME NEW n \in 1 .. m + 1
      PROVE  /\ 5 * n - 3 \in DOMAIN both
             /\ both[5 * n - 3].item = "slot"
             /\ both[5 * n - 3].of = list[n]
  <2>1. CASE n = m + 1
    BY <1>4, <1>6, <1>7, <2>1
  <2>2. CASE n # m + 1
    <3>1. n \in 1 .. m
      BY <2>2
    <3>2. 5 * n - 3 \in 1 .. a /\ p[5 * n - 3].item = "slot" /\ p[5 * n - 3].of = list[n]
      BY <1>2, <3>1 DEF AnswersFirst
    <3>3. 5 * n - 3 \in 1 .. a + 5
      BY <3>2
    <3>4. QED
      BY <1>4, <3>2, <3>3
  <2>3. QED
    BY <2>1, <2>2
<1>9. ASSUME NEW i \in DOMAIN both, both[i].item = "slot"
      PROVE  \E n \in 1 .. m + 1 : i = 5 * n - 3
  <2>1. CASE i \in 1 .. a
    <3>1. p[i].item = "slot" /\ i \in DOMAIN p
      BY <1>2, <1>4, <1>9, <2>1
    <3>2. PICK n \in 1 .. m : i = 5 * n - 3
      BY <3>1 DEF AnswersFirst
    <3>3. n \in 1 .. m + 1
      OBVIOUS
    <3>4. QED
      BY <3>2, <3>3
  <2>2. CASE \E j \in 1 .. 5 : i = a + j
    <3>1. PICK j \in 1 .. 5 : i = a + j
      BY <2>2
    <3>2. q[j].item = "slot"
      BY <1>4, <1>9, <3>1
    <3>3. j = 1
      BY <3>2 DEF Answer
    <3>4. QED
      BY <1>6, <3>1, <3>3
  <2>3. QED
    BY <1>4, <1>5, <2>1, <2>2
<1>10. AnswersFirst(both, list, m + 1)
  BY <1>8, <1>9 DEF AnswersFirst
<1>11. QED
  BY <1>3, <1>10

LEMMA AnswersEnd ==
  ASSUME NEW p \in Seq(Part), NEW q \in Seq(Part), NEW list, NEW m \in Nat,
         AnswersFirst(p, list, m), NoSlots(q)
  PROVE  AnswersFirst(p \o q, list, m)
<1>1. PICK a \in Nat, b \in Nat : a = Len(p) /\ b = Len(q)
  OBVIOUS
<1>2. PICK both : both = p \o q
  OBVIOUS
<1>3. /\ DOMAIN both = 1 .. a + b
      /\ \A i \in 1 .. a : both[i] = p[i]
      /\ \A i \in 1 .. b : both[a + i] = q[i]
  BY <1>1, <1>2, Joined
<1>4. /\ \A i \in 1 .. a + b : i \in 1 .. a \/ \E j \in 1 .. b : i = a + j
      /\ \A i \in 1 .. a : i \in 1 .. a + b
  BY Split
<1>5. ASSUME NEW n \in 1 .. m
      PROVE  /\ 5 * n - 3 \in DOMAIN both
             /\ both[5 * n - 3].item = "slot"
             /\ both[5 * n - 3].of = list[n]
  <2>1. 5 * n - 3 \in 1 .. a /\ p[5 * n - 3].item = "slot" /\ p[5 * n - 3].of = list[n]
    BY <1>1 DEF AnswersFirst
  <2>2. QED
    BY <1>3, <1>4, <2>1
<1>6. ASSUME NEW i \in DOMAIN both, both[i].item = "slot"
      PROVE  \E n \in 1 .. m : i = 5 * n - 3
  <2>1. CASE i \in 1 .. a
    BY <1>1, <1>3, <1>6, <2>1 DEF AnswersFirst
  <2>2. CASE \E j \in 1 .. b : i = a + j
    BY <1>1, <1>3, <1>6, <2>2 DEF NoSlots
  <2>3. QED
    BY <1>3, <1>4, <2>1, <2>2
<1>7. AnswersFirst(both, list, m)
  BY <1>5, <1>6 DEF AnswersFirst
<1>8. QED
  BY <1>2, <1>7

\* The steps of one task on the way through the codes.
LEMMA BeginCodes ==
  ASSUME NEW k \in Task, NEW l \in Task, NEW list \in Codes, AtBegin(k, list),
         l = [k EXCEPT !.stage = "insert", !.next = 1,
                       !.rc = IF Len(list) > MaxAnswered THEN RC_TRUNCATED ELSE @]
  PROVE  AtCodes(l, First(list)) /\ l.req = k.req
<1>1. /\ l.stage = "insert" /\ l.next = 1 /\ l.req = k.req /\ l.out = k.out
      /\ l.todo = k.todo
      /\ l.rc = IF Len(list) > MaxAnswered THEN RC_TRUNCATED ELSE k.rc
  BY DEF Task
<1>2. /\ list = k.req.codes /\ k.rc = RC_SUCCESS /\ k.out = <<>> /\ Len(k.todo) = 1
      /\ k.todo[1].item # "slot"
  BY DEF AtBegin
<1>3. l.rc = CodeOf(l.req.codes)
  BY <1>1, <1>2 DEF CodeOf
<1>4. Reply(l) = l.todo
  BY <1>1, <1>2, ReplyFresh
<1>5. Len(First(list)) \in Nat
  BY FirstCodes DEF Codes
<1>6. l.todo \in Seq(Part) /\ Len(l.todo) = 1 /\ l.todo[1].item # "slot" /\ Len(l.out) = 0
  BY <1>1, <1>2 DEF Task
<1>7. AnswersFirst(l.todo, First(list), 0)
  BY <1>6 DEF AnswersFirst
<1>8. /\ l.next \in 1 .. Len(First(list)) + 1
      /\ \A i \in 1 .. l.next - 1 : First(list)[i] <= 250
      /\ Len(l.out) + Len(l.todo) = 5 * (l.next - 1) + 1
  <2>1. l.next = 1 /\ Len(l.out) = 0 /\ Len(l.todo) = 1
    BY <1>1, <1>6
  <2>2. l.next \in 1 .. Len(First(list)) + 1
    BY <1>5, <2>1, Sums
  <2>3. Len(l.out) + Len(l.todo) = 5 * (l.next - 1) + 1
    BY <2>1, Sums
  <2>4. \A i \in 1 .. l.next - 1 : FALSE
    BY <2>1
  <2>5. QED
    BY <2>2, <2>3, <2>4
<1>9. AnswersFirst(Reply(l), First(list), l.next - 1)
  <2>1. l.next - 1 = 0
    BY <1>1
  <2>2. QED
    BY <1>4, <1>7, <2>1
<1>10. l.stage = "insert" /\ First(list) = First(l.req.codes)
  BY <1>1, <1>2
<1>11. AtCodes(l, First(list))
  BY <1>3, <1>8, <1>9, <1>10 DEF AtCodes
<1>12. QED
  BY <1>1, <1>11

LEMMA MovedCodes ==
  ASSUME NEW k \in Task, NEW l, NEW n, Moved(k, l, n), NEW list
  PROVE  /\ AtCodes(k, list) => AtCodes(l, list)
         /\ AtEnd(k) => AtEnd(l)
         /\ ~AtRefusal(k)
<1>1. Reply(l) = Reply(k)
  BY ReplyMoved
<1>2. /\ l.stage = k.stage /\ l.req = k.req /\ l.rc = k.rc /\ l.next = k.next
      /\ Len(l.out) = Len(k.out) + n /\ Len(l.todo) = Len(k.todo) - n /\ n \in 1 .. Len(k.todo)
  BY DEF Moved
<1>3. Len(k.out) \in Nat /\ Len(k.todo) \in Nat
  BY DEF Task
<1>4. Len(l.out) + Len(l.todo) = Len(k.out) + Len(k.todo) /\ k.todo # <<>>
  <2>1. PICK a \in Nat, b \in Nat : a = Len(k.out) /\ b = Len(k.todo)
    BY <1>3
  <2>2. n \in 1 .. b /\ Len(l.out) = a + n /\ Len(l.todo) = b - n
    BY <1>2, <2>1
  <2>3. Len(l.out) + Len(l.todo) = a + b
    BY <2>2, Sums
  <2>4. k.todo # <<>>
    <3>1. Len(k.todo) # 0
      BY <2>1, <2>2
    <3>2. QED
      BY <3>1
  <2>5. QED
    BY <2>1, <2>3, <2>4
<1>5. AtCodes(k, list) => AtCodes(l, list)
  BY <1>1, <1>2, <1>4 DEF AtCodes
<1>6. AtEnd(k) => AtEnd(l)
  BY <1>1, <1>2 DEF AtEnd
<1>7. QED
  BY <1>4, <1>5, <1>6 DEF AtRefusal

LEMMA RefusedCodes ==
  ASSUME NEW k \in Task, NEW l, NEW list \in Codes, AtCodes(k, list), k.todo = <<>>,
         k.next \in 1 .. Len(list), list[k.next] > 250,
         l = [k EXCEPT !.rc = RC_INVALID, !.out = <<>>, !.next = 0]
  PROVE  AtRefusal(l) /\ l.req = k.req
<1>1. /\ l.stage = k.stage /\ l.req = k.req /\ l.rc = RC_INVALID /\ l.out = <<>>
      /\ l.next = 0 /\ l.todo = <<>>
  BY DEF Task
<1>2. k.stage = "insert" /\ list = First(k.req.codes)
  BY DEF AtCodes
<1>3. k.next \in DOMAIN list
  BY DEF Codes
<1>4. QED
  BY <1>1, <1>2, <1>3 DEF AtRefusal

LEMMA NextCodes ==
  ASSUME NEW k \in Task, NEW l \in Task, NEW list \in Codes, AtCodes(k, list),
         k.todo = <<>>, k.next \in 1 .. Len(list), ~(list[k.next] > 250), NEW parts,
         Answer(list[k.next], parts),
         l = [k EXCEPT !.next = k.next + 1, !.todo = parts]
  PROVE  AtCodes(l, list) /\ l.req = k.req
<1>1. /\ l.stage = k.stage /\ l.req = k.req /\ l.rc = k.rc /\ l.out = k.out
      /\ l.next = k.next + 1 /\ l.todo = parts
  BY DEF Task
<1>2. /\ k.stage = "insert" /\ list = First(k.req.codes) /\ k.rc = CodeOf(k.req.codes)
      /\ \A i \in 1 .. k.next - 1 : list[i] <= 250
      /\ Len(k.out) + Len(k.todo) = 5 * (k.next - 1) + 1
      /\ AnswersFirst(Reply(k), list, k.next - 1)
  BY DEF AtCodes
<1>3. list \in Seq(0 .. 255) /\ Len(list) \in Nat
  BY DEF Codes
<1>4. PICK m \in Nat : m = k.next - 1 /\ k.next = m + 1
  BY <1>3
<1>5. list[k.next] <= 250
  <2>1. list[k.next] \in 0 .. 255
    BY <1>3, ElementOfSeq
  <2>2. QED
    BY <2>1, Sums
<1>6. \A i \in 1 .. k.next : list[i] <= 250
  <2>1. \A i \in 1 .. m + 1 : i = m + 1 \/ i \in 1 .. m
    OBVIOUS
  <2>2. QED
    BY <1>2, <1>4, <1>5, <2>1
<1>7. Len(parts) = 5 /\ parts \in Seq(Part)
  BY DEF Answer
<1>8. Len(k.out) \in Nat /\ Len(k.todo) = 0
  BY DEF Task
<1>9. Len(l.out) + Len(l.todo) = 5 * (l.next - 1) + 1
  <2>1. l.next - 1 = m + 1 /\ Len(k.out) = 5 * m + 1
    BY <1>1, <1>2, <1>4, <1>8
  <2>2. Len(l.out) = 5 * m + 1 /\ Len(l.todo) = 5
    BY <1>1, <1>7, <2>1
  <2>3. Len(l.out) + Len(l.todo) = (5 * m + 1) + 5
    BY <2>2
  <2>4. QED
    BY <2>1, <2>3, Sums
<1>10. Reply(l) = Reply(k) \o l.todo
  BY <1>1, ReplyGrown
<1>11. Reply(k) \in Seq(Part) /\ Len(Reply(k)) = 5 * m + 1
  BY <1>2, <1>4, ReplyTyped
<1>12. AnswersFirst(Reply(k), list, m) /\ Answer(list[m + 1], l.todo)
  BY <1>1, <1>2, <1>4
<1>13. AnswersFirst(Reply(k) \o l.todo, list, m + 1)
  BY <1>11, <1>12, AnswersMore
<1>14. AnswersFirst(Reply(l), list, l.next - 1)
  <2>1. l.next - 1 = m + 1
    BY <1>1, <1>4
  <2>2. QED
    BY <1>10, <1>13, <2>1
<1>15. l.next \in 1 .. Len(list) + 1 /\ \A i \in 1 .. l.next - 1 : list[i] <= 250
  <2>1. l.next - 1 = k.next /\ l.next \in 1 .. Len(list) + 1
    BY <1>1, <1>3, <1>4
  <2>2. QED
    BY <1>6, <2>1
<1>16. QED
  BY <1>1, <1>2, <1>9, <1>14, <1>15 DEF AtCodes

LEMMA LastCodes ==
  ASSUME NEW k \in Task, NEW l \in Task, NEW list \in Codes, AtCodes(k, list),
         k.todo = <<>>, k.next > Len(list),
         l = [k EXCEPT !.todo = Items(<<"dateTimeStamp">>), !.next = 0]
  PROVE  AtEnd(l) /\ l.req = k.req
<1>1. /\ l.stage = k.stage /\ l.req = k.req /\ l.rc = k.rc /\ l.out = k.out
      /\ l.next = 0 /\ l.todo = Items(<<"dateTimeStamp">>)
  BY DEF Task
<1>2. /\ k.stage = "insert" /\ list = First(k.req.codes) /\ k.rc = CodeOf(k.req.codes)
      /\ k.next \in 1 .. Len(list) + 1
      /\ \A i \in 1 .. k.next - 1 : list[i] <= 250
      /\ AnswersFirst(Reply(k), list, k.next - 1)
  BY DEF AtCodes
<1>3. list \in Seq(0 .. 255) /\ Len(list) \in Nat
  BY DEF Codes
<1>4. k.next - 1 = Len(list)
  BY <1>2, <1>3
<1>5. NoSlots(l.todo)
  BY <1>1 DEF NoSlots, Items, Item
<1>6. Reply(l) = Reply(k) \o l.todo
  BY <1>1, ReplyGrown
<1>7. Reply(k) \in Seq(Part) /\ l.todo \in Seq(Part)
  BY ReplyTyped DEF Task
<1>8. AnswersFirst(Reply(k) \o l.todo, list, Len(list))
  BY <1>2, <1>3, <1>4, <1>5, <1>7, AnswersEnd
<1>9. DOMAIN list = 1 .. Len(list)
  BY <1>3
<1>10. QED
  BY <1>1, <1>2, <1>4, <1>6, <1>8, <1>9 DEF AtEnd

\* A request for codes, or a message of them, before its first answer.
LEMMA StartsCodes ==
  ASSUME NEW r \in Request, r.cmd = 9, NEW places, NEW k,
         k = Start(r, Command(RC_SUCCESS, places, Items(<<"extended_fld_dev_status">>)))
  PROVE  AtBegin(k, r.codes)
<1>1. <<"extended_fld_dev_status">> \in Seq(PlainNames)
  BY DEF PlainNames
<1>2. PICK reply : reply = Items(<<"extended_fld_dev_status">>)
  OBVIOUS
<1>3. reply \in Seq(Part)
  BY <1>1, <1>2, ItemsSound DEF SoundReply
<1>4. Len(reply) = 1 /\ reply[1].item # "slot"
  BY <1>2 DEF Items, Item
<1>5. RC_SUCCESS \in 0 .. 255 /\ ~isError(RC_SUCCESS)
  BY DEF RC_SUCCESS, isError
<1>6. Begins(k, r, RC_SUCCESS, reply)
  BY <1>2, <1>3, <1>5, Started
<1>7. QED
  BY <1>4, <1>5, <1>6 DEF Begins, AtBegin

Somewhere(t) == \/ AtBegin(task[t], slot) \/ AtCodes(task[t], slot)
                \/ AtEnd(task[t]) \/ AtRefusal(task[t])

\* Every step keeps CodesInv.
LEMMA CodesStep == TypeInv /\ CodesInv /\ [Next]_vars => CodesInv'
<1> SUFFICES ASSUME TypeInv, CodesInv, [Next]_vars
             PROVE  CodesInv'
  OBVIOUS
<1>0. "burst" \in Threads /\ "command" \in Threads /\ Threads = {"command", "burst"}
  BY DEF Threads
<1>a. \A t \in Threads : Asking(t) => Somewhere(t)
  BY DEF CodesInv, Somewhere
<1>b. (\A t \in Threads : Asking(t)' => Somewhere(t)') => CodesInv'
  BY DEF CodesInv, Somewhere
<1>c. slot \in Codes /\ \A t \in Threads : task[t] \in Task
  BY DEF TypeInv
<1> DEFINE what == IF slot' # slot THEN {"slot"} ELSE {}
\* A step of one thread that leaves the task of another alone.
<1>d. ASSUME NEW t \in Threads, task'[t] = task[t],
             "slot" \in disturbed[t] => "slot" \in disturbed'[t],
             \/ slot' = slot
             \/ task[t].stage = "idle"
             \/ "slot" \in disturbed'[t],
             Asking(t)'
      PROVE  Somewhere(t)'
  <2>1. Asking(t) /\ slot' = slot
    BY <1>d DEF Asking
  <2>2. Somewhere(t)
    BY <1>a, <2>1
  <2>3. QED
    BY <1>d, <2>1, <2>2 DEF Somewhere
<1>e. ASSUME NEW t \in Threads, NEW more \in SUBSET {"slot", "units"}, what \subseteq more,
             disturbed' = Disturb(t, more)
      PROVE  /\ "slot" \in disturbed[t] => "slot" \in disturbed'[t]
             /\ \/ slot' = slot
                \/ task[t].stage = "idle"
                \/ "slot" \in disturbed'[t]
             /\ \A u \in Threads \ {t} : disturbed'[u] = disturbed[u]
  BY <1>e DEF Disturb, TypeInv
<1>1. ASSUME NEW r \in Requests, Receive(r) PROVE CodesInv'
  <2>1. /\ Fresh(task'["command"], r) /\ task'["burst"] = task["burst"]
        /\ \E rc \in MayReturn(r, CommandOf(r)) :
             task'["command"] = Start(r, Command(rc, CommandOf(r).writes, CommandOf(r).reply))
    BY <1>1, ReceiveStarts
  <2>2. /\ disturbed' = Disturb("burst", what \cup (IF units' # units THEN {"units"} ELSE {}))
        /\ slot' = IF r.cmd = 9 THEN r.codes ELSE slot
    BY <1>1 DEF Receive
  <2>3. Asking("burst")' => Somewhere("burst")'
    <3>1. what \cup (IF units' # units THEN {"units"} ELSE {}) \in SUBSET {"slot", "units"}
      OBVIOUS
    <3>2. QED
      BY <1>0, <1>d, <1>e, <2>1, <2>2, <3>1
  <2>4. ASSUME Asking("command")' PROVE Somewhere("command")'
    <3> DEFINE k == task'["command"]
    <3>1. r.cmd = 9 /\ r.codes # <<>> /\ slot' = r.codes /\ k.req = r /\ r \in Request
      BY <2>1, <2>2, <2>4 DEF Asking, Fresh
    <3>2. CommandOf(r) = Command(RC_SUCCESS, {}, Items(<<"extended_fld_dev_status">>))
      BY <3>1 DEF CommandOf, cmd_09
    <3>3. /\ MayReturn(r, CommandOf(r)) = {RC_SUCCESS}
          /\ CommandOf(r).reply = Items(<<"extended_fld_dev_status">>)
      BY <3>1, <3>2 DEF MayReturn, Command
    <3>4. k = Start(r, Command(RC_SUCCESS, CommandOf(r).writes, Items(<<"extended_fld_dev_status">>)))
      BY <2>1, <3>3
    <3>5. AtBegin(k, r.codes)
      BY <3>1, <3>4, StartsCodes
    <3>6. QED
      BY <3>1, <3>5 DEF Somewhere
  <2>5. QED
    BY <1>0, <1>b, <2>3, <2>4
<1>2. ASSUME NEW cmd \in BurstCommands, NEW list \in IndexLists, Due(cmd, list)
      PROVE  CodesInv'
  <2> DEFINE k == task'["burst"]
             r == k.req
  <2>1. /\ Fresh(k, r) /\ task'["command"] = task["command"]
        /\ r.cmd = cmd /\ r.codes = IF cmd = 9 THEN Used(list) ELSE <<>>
        /\ k = Start(r, Command(RC_SUCCESS, {}, CommandOf(r).reply))
    BY <1>2, DueStarts
  <2>2. disturbed' = Disturb("command", what) /\ (cmd = 9 => slot' = Used(list))
    BY <1>2 DEF Due, setIndexes
  <2>3. Asking("command")' => Somewhere("command")'
    <3>1. what \in SUBSET {"slot", "units"}
      OBVIOUS
    <3>2. QED
      BY <1>0, <1>d, <1>e, <2>1, <2>2, <3>1
  <2>4. ASSUME Asking("burst")' PROVE Somewhere("burst")'
    <3>1. r.cmd = 9 /\ r \in Request
      BY <2>1, <2>4 DEF Asking, Fresh
    <3>2. slot' = r.codes
      BY <2>1, <2>2, <3>1
    <3>3. CommandOf(r).reply = Items(<<"extended_fld_dev_status">>)
      BY <3>1 DEF CommandOf, cmd_09, Command
    <3>4. AtBegin(k, r.codes)
      BY <2>1, <3>1, <3>3, StartsCodes
    <3>5. QED
      BY <3>2, <3>4 DEF Somewhere
  <2>5. QED
    BY <1>0, <1>b, <2>3, <2>4
<1>3. ASSUME NEW t \in Threads, Begin(t) PROVE CodesInv'
  <2>1. disturbed' = Disturb(Other(t), what) /\ task[t].stage = "begin"
    BY <1>3 DEF Begin
  <2>2. Other(t) \in Threads /\ Other(t) # t /\ \A u \in Threads \ {t} : u = Other(t)
    BY OtherThread
  <2>3. what \in SUBSET {"slot", "units"}
    OBVIOUS
  <2>4. /\ slot' = First(slot)
        /\ task'[t] \in Task
        /\ task'[t] = [task[t] EXCEPT !.stage = "insert", !.next = 1,
                         !.rc = IF Len(slot) > MaxAnswered THEN RC_TRUNCATED ELSE @]
        /\ \A u \in Threads \ {t} : task'[u] = task[u]
    BY <1>3, BeginStep
  <2>5. \A u \in Threads \ {t} : Asking(u)' => Somewhere(u)'
    BY <1>d, <1>e, <2>1, <2>2, <2>3, <2>4
  <2>6. ASSUME Asking(t)' PROVE Somewhere(t)'
    <3>1. disturbed'[t] = disturbed[t]
      BY <1>e, <2>1, <2>2, <2>3
    <3>2. task'[t].req = task[t].req
      BY <1>c, <2>4 DEF Task
    <3>3. Asking(t)
      BY <2>1, <2>6, <3>1, <3>2 DEF Asking
    <3>4. AtBegin(task[t], slot)
      BY <1>a, <2>1, <3>3 DEF Somewhere, AtCodes, AtEnd, AtRefusal
    <3>5. AtCodes(task'[t], First(slot))
      BY <1>c, <2>4, <3>4, BeginCodes
    <3>6. QED
      BY <2>4, <3>5 DEF Somewhere
  <2>7. QED
    BY <1>b, <2>5, <2>6
<1>4. ASSUME NEW t \in Threads, Insert(t) PROVE CodesInv'
  <2>1. slot' = slot /\ disturbed' = disturbed /\ task[t].stage = "insert"
    BY <1>4 DEF Insert
  <2>2. PICK n \in 1 .. Len(task[t].todo) : Moved(task[t], task'[t], n)
    BY <1>4, InsertMoves
  <2>3. \A u \in Threads \ {t} : Asking(u)' => Somewhere(u)'
    BY <1>4, <1>d, <2>1, InsertMoves
  <2>4. ASSUME Asking(t)' PROVE Somewhere(t)'
    <3>1. Asking(t)
      BY <2>1, <2>2, <2>4 DEF Asking, Moved
    <3>2. ~AtBegin(task[t], slot)
      BY <2>1 DEF AtBegin
    <3>3. QED
      BY <1>a, <1>c, <2>1, <2>2, <3>1, <3>2, MovedCodes DEF Somewhere
  <2>5. QED
    BY <1>b, <2>3, <2>4
<1>5. ASSUME NEW t \in Threads, NextCode(t) PROVE CodesInv'
  <2> DEFINE k == task[t]
             l == task'[t]
  <2>1. /\ slot' = slot /\ disturbed' = disturbed
        /\ k.stage = "insert" /\ k.todo = <<>> /\ k.next \in 1 .. Len(slot)
    BY <1>5 DEF NextCode
  <2>2. \A u \in Threads \ {t} : Asking(u)' => Somewhere(u)'
    BY <1>5, <1>d, <2>1, NextCodeStep
  <2>3. ASSUME Asking(t)' PROVE Somewhere(t)'
    <3>1. ASSUME l.req = k.req PROVE AtCodes(k, slot)
      <4>1. Asking(t)
        BY <2>1, <2>3, <3>1 DEF Asking
      <4>2. k.next # 0
        BY <2>1
      <4>3. QED
        BY <1>a, <2>1, <4>1, <4>2 DEF Somewhere, AtBegin, AtEnd, AtRefusal
    <3>2. CASE slot[k.next] > 250
      <4>1. l = [k EXCEPT !.rc = RC_INVALID, !.out = <<>>, !.next = 0]
        BY <1>5, <3>2, NextCodeStep
      <4>2. l.req = k.req
        BY <1>c, <4>1 DEF Task
      <4>3. AtRefusal(l)
        BY <1>c, <2>1, <3>1, <3>2, <4>1, <4>2, RefusedCodes
      <4>4. QED
        BY <4>3 DEF Somewhere
    <3>3. CASE ~(slot[k.next] > 250)
      <4>1. PICK parts : /\ Answer(slot[k.next], parts)
                         /\ l = [k EXCEPT !.next = k.next + 1, !.todo = parts]
        BY <1>5, <3>3, NextCodeStep
      <4>2. l.req = k.req
        BY <1>c, <4>1 DEF Task
      <4>3. l \in Task
        BY <1>5, NextCodeStep
      <4>4. AtCodes(k, slot)
        BY <3>1, <4>2
      <4>5. AtCodes(l, slot)
        BY <1>c, <2>1, <3>3, <4>1, <4>3, <4>4, NextCodes
      <4>6. QED
        BY <2>1, <4>5 DEF Somewhere
    <3>4. QED
      BY <3>2, <3>3
  <2>4. QED
    BY <1>b, <2>2, <2>3
<1>6. ASSUME NEW t \in Threads, TimeStamp(t) PROVE CodesInv'
  <2> DEFINE k == task[t]
             l == task'[t]
  <2>1. /\ slot' = slot /\ disturbed' = disturbed
        /\ k.stage = "insert" /\ k.todo = <<>> /\ k.next > Len(slot)
    BY <1>6 DEF TimeStamp
  <2>2. \A u \in Threads \ {t} : Asking(u)' => Somewhere(u)'
    BY <1>6, <1>d, <2>1, TimeStampStep
  <2>3. ASSUME Asking(t)' PROVE Somewhere(t)'
    <3>1. l \in Task /\ l = [k EXCEPT !.todo = Items(<<"dateTimeStamp">>), !.next = 0]
      BY <1>6, TimeStampStep
    <3>2. l.req = k.req
      BY <1>c, <3>1 DEF Task
    <3>3. Asking(t)
      BY <2>1, <2>3, <3>2 DEF Asking
    <3>4. k.next # 0
      BY <1>c, <2>1 DEF Codes
    <3>5. AtCodes(k, slot)
      BY <1>a, <2>1, <3>3, <3>4 DEF Somewhere, AtBegin, AtEnd, AtRefusal
    <3>6. AtEnd(l)
      BY <1>c, <2>1, <3>1, <3>5, LastCodes
    <3>7. QED
      BY <3>6 DEF Somewhere
  <2>4. QED
    BY <1>b, <2>2, <2>3
<1>7. ASSUME NEW t \in Threads, Send(t) PROVE CodesInv'
  <2>1. slot' = slot /\ disturbed' = [disturbed EXCEPT ![t] = {}]
    BY <1>7 DEF Send
  <2>2. \A u \in Threads \ {t} : disturbed'[u] = disturbed[u]
    BY <2>1 DEF TypeInv
  <2>3. \A u \in Threads \ {t} : Asking(u)' => Somewhere(u)'
    BY <1>7, <1>d, <2>1, <2>2, SendStep
  <2>4. ~Asking(t)'
    BY <1>7, SendStep DEF Asking, Nothing
  <2>5. QED
    BY <1>b, <2>3, <2>4
<1>8. CASE UNCHANGED vars
  <2>1. task' = task /\ slot' = slot /\ disturbed' = disturbed
    BY <1>8 DEF vars
  <2>2. QED
    BY <1>b, <1>d, <2>1
<1>9. QED
  BY <1>1, <1>2, <1>3, <1>4, <1>5, <1>6, <1>7, <1>8, NextCases

\* The positions of the first m answers are m.
LEMMA Fives ==
  ASSUME NEW m \in Nat
  PROVE  Cardinality({5 * q - 3 : q \in 1 .. m}) = m
<1> DEFINE T == {5 * q - 3 : q \in 1 .. m}
           f == [q \in 1 .. m |-> 5 * q - 3]
<1>1. f \in [1 .. m -> T]
  OBVIOUS
<1>2. \A p, q \in 1 .. m : f[p] = f[q] => p = q
  OBVIOUS
<1>3. \A x \in T : \E q \in 1 .. m : f[q] = x
  OBVIOUS
<1> HIDE DEF f, T
<1>4. f \in Bijection(1 .. m, T)
  BY <1>1, <1>2, <1>3, Fun_IsBij
<1>5. ExistsBijection(1 .. m, T)
  BY <1>4 DEF ExistsBijection
<1>6. Cardinality(T) = m
  BY <1>5, FS_CountingElements
<1>7. QED
  BY <1>6 DEF T

\* A message with the answers to the codes of a list has as many slots as there
\* are codes, in their order.
LEMMA AnswersAll ==
  ASSUME NEW k \in Task, k.todo = <<>>, NEW list \in Codes,
         AnswersFirst(Reply(k), list, Len(list))
  PROVE  Answers(k.out, list)
<1> DEFINE slots == {i \in DOMAIN k.out : k.out[i].part.item = "slot"}
<1>1. k.out \in Seq(Entry) /\ Len(k.out) \in Nat /\ Len(k.todo) = 0
  BY DEF Task
<1>2. PICK m \in Nat : m = Len(list)
  BY DEF Codes
<1>3. /\ DOMAIN k.out = 1 .. Len(k.out)
      /\ DOMAIN Reply(k) = 1 .. Len(k.out)
      /\ \A i \in 1 .. Len(k.out) : Reply(k)[i] = k.out[i].part
  <2>1. Len(k.out) + Len(k.todo) = Len(k.out)
    BY <1>1
  <2>2. DOMAIN k.out = 1 .. Len(k.out)
    BY <1>1
  <2>3. DOMAIN Reply(k) = 1 .. Len(k.out) + Len(k.todo)
        /\ \A i \in 1 .. Len(k.out) : Reply(k)[i] = k.out[i].part
    BY ReplyTyped
  <2>4. QED
    BY <2>1, <2>2, <2>3
<1>4. \A i \in DOMAIN k.out : k.out[i].part.item = "slot" => \E q \in 1 .. m : i = 5 * q - 3
  BY <1>2, <1>3 DEF AnswersFirst
<1>5. \A q \in 1 .. m : 5 * q - 3 \in DOMAIN k.out /\ k.out[5 * q - 3].part.item = "slot"
                        /\ k.out[5 * q - 3].part.of = list[q]
  BY <1>2, <1>3 DEF AnswersFirst
<1>6. slots = {5 * q - 3 : q \in 1 .. m}
  BY <1>4, <1>5
<1> HIDE DEF slots
<1>7. Cardinality(slots) = m
  BY <1>6, Fives
<1>8. ASSUME NEW i \in slots
      PROVE  k.out[i].part.of = list[Cardinality({j \in slots : j <= i})]
  <2>1. PICK q \in 1 .. m : i = 5 * q - 3
    BY <1>6
  <2>2. {j \in slots : j <= i} = {5 * p - 3 : p \in 1 .. q}
    BY <1>6, <2>1
  <2>3. Cardinality({j \in slots : j <= i}) = q
    BY <2>2, Fives
  <2>4. QED
    BY <1>5, <2>1, <2>3
<1>9. QED
  BY <1>2, <1>7, <1>8 DEF Answers, slots

\* Command 9 answers the codes it was asked for, no more than it has room for and
\* with the warning that goes with that, or refuses them all (cmd_09.h:31-32),
\* though the codes are kept in the object both threads use.
THEOREM CommandsAnswerCodes == Spec => []CodesAnswered
<1>1. Init => CodesInv
  BY DEF Init, CodesInv, Asking, Nothing
<1>2. TypeInv /\ CodesInv => CodesAnswered
  <2> SUFFICES ASSUME TypeInv, CodesInv, NEW t \in Threads,
                      Done(t), task[t].req.cmd = 9, "slot" \notin disturbed[t],
                      t = "command" => task[t].req.codes # <<>>
               PROVE  LET k     == task[t]
                          first == First(k.req.codes)
                      IN  IF \E i \in DOMAIN first : first[i] > 250
                          THEN k.rc = RC_INVALID /\ k.out = <<>>
                          ELSE Answers(k.out, first) /\ k.rc = CodeOf(k.req.codes)
    BY DEF CodesAnswered, First, CodeOf
  <2> DEFINE k     == task[t]
             first == First(k.req.codes)
  <2>1. k \in Task /\ k.req.codes \in Codes
    BY DEF TypeInv, Task, Request
  <2>2. first \in Codes
    BY <2>1, FirstCodes
  <2>3. k.stage = "insert" /\ k.todo = <<>> /\ k.next = 0
    BY DEF Done
  <2>4. Asking(t)
    BY <2>3 DEF Asking
  <2>5. AtEnd(k) \/ AtRefusal(k)
    <3>1. ~AtBegin(k, slot)
      BY <2>3 DEF AtBegin
    <3>2. ~AtCodes(k, slot)
      <4>1. ~(0 \in 1 .. Len(first) + 1)
        OBVIOUS
      <4>2. QED
        BY <2>3, <4>1 DEF AtCodes
    <3>3. QED
      BY <2>4, <3>1, <3>2 DEF CodesInv
  <2>6. CASE AtEnd(k)
    <3>1. /\ k.rc = CodeOf(k.req.codes) /\ \A i \in DOMAIN first : first[i] <= 250
          /\ AnswersFirst(Reply(k), first, Len(first))
      BY <2>6 DEF AtEnd
    <3>2. Answers(k.out, first)
      BY <2>1, <2>2, <2>3, <3>1, AnswersAll
    <3>3. \A i \in DOMAIN first : ~(first[i] > 250)
      <4>1. \A i \in DOMAIN first : first[i] \in 0 .. 255
        <5>1. first \in Seq(0 .. 255) /\ DOMAIN first = 1 .. Len(first)
          BY <2>2 DEF Codes
        <5>2. \A i \in 1 .. Len(first) : first[i] \in 0 .. 255
          BY <5>1, ElementOfSeq
        <5>3. QED
          BY <5>1, <5>2
      <4>2. QED
        BY <3>1, <4>1, Sums
    <3>4. QED
      BY <3>1, <3>2, <3>3
  <2>7. CASE AtRefusal(k)
    BY <2>7 DEF AtRefusal
  <2>8. QED
    BY <2>5, <2>6, <2>7
<1>3. QED
  BY <1>1, <1>2, CodesStep, CommandTypes, PTL DEF Spec
-----------------------------------------------------------------------------
(* Data items: widths, and what an item can hold. *)

\* Values[n] is Byte to the n.  A recursive function is one that satisfies its
\* equation: here is one that does.
LEMMA ValuesAre == Values = [n \in 0 .. 8 |-> IF n = 0 THEN 1 ELSE Byte * Values[n - 1]]
<1> DEFINE p1 == Byte * 1   p2 == Byte * p1  p3 == Byte * p2  p4 == Byte * p3
           p5 == Byte * p4  p6 == Byte * p5  p7 == Byte * p6  p8 == Byte * p7
           g == [n \in 0 .. 8 |-> CASE n = 0 -> 1  [] n = 1 -> p1 [] n = 2 -> p2
                                    [] n = 3 -> p3 [] n = 4 -> p4 [] n = 5 -> p5
                                    [] n = 6 -> p6 [] n = 7 -> p7 [] n = 8 -> p8]
<1>1. /\ p1 = Byte * 1  /\ p2 = Byte * p1 /\ p3 = Byte * p2 /\ p4 = Byte * p3
      /\ p5 = Byte * p4 /\ p6 = Byte * p5 /\ p7 = Byte * p6 /\ p8 = Byte * p7
  OBVIOUS
<1> HIDE DEF p1, p2, p3, p4, p5, p6, p7, p8
<1>2. \A n \in 0 .. 8 : g[n] = IF n = 0 THEN 1 ELSE Byte * g[n - 1]
  BY <1>1
<1>3. g = [n \in 0 .. 8 |-> IF n = 0 THEN 1 ELSE Byte * g[n - 1]]
  BY <1>2
<1> HIDE DEF g
<1>4. \E f : f = [n \in 0 .. 8 |-> IF n = 0 THEN 1 ELSE Byte * f[n - 1]]
  BY <1>3
<1>5. QED
  BY <1>4 DEF Values

LEMMA ValuesGrow ==
  /\ Values[0] = 1 /\ Values[1] = Byte
  /\ \A n \in 0 .. 7 : Values[n + 1] = Byte * Values[n]
  /\ \A n \in 0 .. 8 : Values[n] \in Nat /\ Values[n] >= 1
  /\ \A m, n \in 0 .. 8 : m <= n => Values[m] <= Values[n]
<1>1. Values[0] = 1
  BY ValuesAre
<1>2. \A n \in 1 .. 8 : Values[n] = Byte * Values[n - 1]
  BY ValuesAre
<1>3. \A n \in 0 .. 7 : Values[n + 1] = Byte * Values[n]
  <2>1. \A n \in 0 .. 7 : n + 1 \in 1 .. 8 /\ (n + 1) - 1 = n
    OBVIOUS
  <2>2. QED
    BY <1>2, <2>1
<1>4. \A x \in Nat : x >= 1 => Byte * x \in Nat /\ Byte * x >= 1 /\ x <= Byte * x
  BY ByteAssumption
<1> DEFINE Grows(n) == Values[n] \in Nat /\ Values[n] >= 1 /\ Values[n] <= Values[n + 1]
<1>5. \A n \in 0 .. 7 : Values[n] \in Nat /\ Values[n] >= 1 =>
        Grows(n) /\ Values[n + 1] \in Nat /\ Values[n + 1] >= 1
  BY <1>3, <1>4
<1>6. /\ Values[1] \in Nat /\ Values[1] >= 1 /\ Values[2] \in Nat /\ Values[2] >= 1
      /\ Values[3] \in Nat /\ Values[3] >= 1 /\ Values[4] \in Nat /\ Values[4] >= 1
      /\ Values[5] \in Nat /\ Values[5] >= 1 /\ Values[6] \in Nat /\ Values[6] >= 1
      /\ Values[7] \in Nat /\ Values[7] >= 1 /\ Values[8] \in Nat /\ Values[8] >= 1
      /\ Values[0] <= Values[1] /\ Values[1] <= Values[2] /\ Values[2] <= Values[3]
      /\ Values[3] <= Values[4] /\ Values[4] <= Values[5] /\ Values[5] <= Values[6]
      /\ Values[6] <= Values[7] /\ Values[7] <= Values[8]
  <2>1. Grows(0) /\ Values[1] \in Nat /\ Values[1] >= 1
    BY <1>1, <1>5
  <2>2. Grows(1) /\ Values[2] \in Nat /\ Values[2] >= 1
    BY <2>1, <1>5
  <2>3. Grows(2) /\ Values[3] \in Nat /\ Values[3] >= 1
    BY <2>2, <1>5
  <2>4. Grows(3) /\ Values[4] \in Nat /\ Values[4] >= 1
    BY <2>3, <1>5
  <2>5. Grows(4) /\ Values[5] \in Nat /\ Values[5] >= 1
    BY <2>4, <1>5
  <2>6. Grows(5) /\ Values[6] \in Nat /\ Values[6] >= 1
    BY <2>5, <1>5
  <2>7. Grows(6) /\ Values[7] \in Nat /\ Values[7] >= 1
    BY <2>6, <1>5
  <2>8. Grows(7) /\ Values[8] \in Nat /\ Values[8] >= 1
    BY <2>7, <1>5
  <2>9. QED
    BY <2>1, <2>2, <2>3, <2>4, <2>5, <2>6, <2>7, <2>8
<1>7. \A n \in 0 .. 8 : Values[n] \in Nat /\ Values[n] >= 1
  BY <1>1, <1>6
<1>8. \A m, n \in 0 .. 8 : m <= n => Values[m] <= Values[n]
  BY <1>1, <1>6
<1>9. Values[1] = Byte
  BY <1>1, <1>3, ByteAssumption
<1>10. QED
  BY <1>1, <1>3, <1>7, <1>8, <1>9

\* The widths of the whole types.
LEMMA Widths ==
  /\ Whole = {"ht_int8", "ht_int16", "ht_int24", "ht_int32", "ht_int40", "ht_int48",
              "ht_int56", "ht_int64"}
  /\ Wide["ht_int8"] = 1 /\ Wide["ht_int16"] = 2 /\ Wide["ht_int24"] = 3
  /\ Wide["ht_int32"] = 4 /\ Wide["ht_int40"] = 5 /\ Wide["ht_int48"] = 6
  /\ Wide["ht_int56"] = 7 /\ Wide["ht_int64"] = 8
  /\ Kept["ht_int8"] = 1 /\ Kept["ht_int16"] = 2 /\ Kept["ht_int24"] = 4
  /\ Kept["ht_int32"] = 4 /\ Kept["ht_int40"] = 8 /\ Kept["ht_int48"] = 8
  /\ Kept["ht_int56"] = 8 /\ Kept["ht_int64"] = 8
BY DEF Whole, Wide, Kept

\* What items there are.
LEMMA ItemKinds ==
  ASSUME NEW it \in Declared \union Undeclared
  PROVE  /\ it.type \in Types /\ it.len \in Nat /\ it.len >= 1
         /\ it.config \in BOOLEAN /\ it.volatile \in BOOLEAN
         /\ it.type \notin {"ht_int8", "ht_packed"} => it.len = 1
         /\ it.config => it.type \notin {"ht_int24", "ht_double"}
<1>1. ASSUME NEW vol, NEW con, NEW types, NEW lens, it \in Kinds(vol, con, types, lens)
      PROVE  /\ it.volatile \in vol /\ it.config \in con /\ it.type \in types
             /\ it.len \in lens
  BY <1>1 DEF Kinds
<1>2. PICK vol \in SUBSET BOOLEAN, con \in SUBSET BOOLEAN, types \in SUBSET Types,
           lens \in SUBSET (1 .. MaxLen) :
        /\ it \in Kinds(vol, con, types, lens)
        /\ types \subseteq {"ht_int8", "ht_packed"} \/ lens = {1}
        /\ con = {FALSE} \/ types \cap {"ht_int24", "ht_double"} = {}
  <2> DEFINE Has(vol, con, types, lens) ==
               /\ it \in Kinds(vol, con, types, lens)
               /\ vol \in SUBSET BOOLEAN /\ con \in SUBSET BOOLEAN
               /\ types \in SUBSET Types /\ lens \in SUBSET (1 .. MaxLen)
               /\ types \subseteq {"ht_int8", "ht_packed"} \/ lens = {1}
               /\ con = {FALSE} \/ types \cap {"ht_int24", "ht_double"} = {}
  <2>0. /\ {1} \in SUBSET (1 .. MaxLen) /\ 1 .. MaxLen \in SUBSET (1 .. MaxLen)
        /\ {TRUE} \in SUBSET BOOLEAN /\ {FALSE} \in SUBSET BOOLEAN
        /\ {TRUE, FALSE} \in SUBSET BOOLEAN
        /\ Types = {"ht_int8", "ht_int16", "ht_int24", "ht_int32", "ht_int40", "ht_int48",
                    "ht_int56", "ht_int64", "ht_float", "ht_double", "ht_ascii", "ht_packed"}
    BY Widths, BoundsAssumption DEF Types, Floating, TextTypes
  <2>1. CASE it \in DeviceItems
    <3>1. \/ Has({TRUE, FALSE}, {FALSE}, {"ht_int8"}, 1 .. MaxLen)
          \/ Has({FALSE}, {TRUE}, {"ht_int8", "ht_packed"}, 1 .. MaxLen)
          \/ Has({TRUE, FALSE}, {FALSE}, {"ht_int16"}, {1})
          \/ Has({TRUE}, {FALSE}, {"ht_float", "ht_int32"}, {1})
          \/ Has({FALSE}, {TRUE}, {"ht_float"}, {1})
          \/ Has({FALSE}, {FALSE}, {"ht_double"}, {1})
      BY <2>0, <2>1 DEF DeviceItems
    <3>2. QED
      BY <3>1
  <2>2. CASE it \in VariableItems
    <3>1. \/ Has({TRUE}, {FALSE}, {"ht_float", "ht_int8"}, {1})
          \/ Has({FALSE}, {TRUE}, {"ht_int8", "ht_float", "ht_int32"}, {1})
          \/ Has({FALSE}, {FALSE}, {"ht_int8", "ht_int24"}, {1})
      BY <2>0, <2>2 DEF VariableItems
    <3>2. QED
      BY <3>1
  <2>3. CASE it \in BurstItems
    <3>1. Has({FALSE}, {TRUE, FALSE}, {"ht_int8", "ht_int16", "ht_int32", "ht_float"}, {1})
      BY <2>0, <2>3 DEF BurstItems
    <3>2. QED
      BY <3>1
  <2>4. CASE it \in Undeclared
    <3>1. Has({FALSE}, {TRUE, FALSE}, {"ht_int40", "ht_int48", "ht_int56", "ht_int64",
                                       "ht_ascii"}, {1})
      BY <2>0, <2>4 DEF Undeclared
    <3>2. QED
      BY <3>1
  <2>5. QED
    BY <2>1, <2>2, <2>3, <2>4 DEF Declared
<1>3. it.volatile \in vol /\ it.config \in con /\ it.type \in types /\ it.len \in lens
  BY <1>1, <1>2
<1>4. it.len \in Nat /\ it.len >= 1
  <2>1. it.len \in 1 .. MaxLen
    BY <1>2, <1>3
  <2>2. QED
    BY <2>1, BoundsAssumption
<1>5. it.type \in Types /\ it.config \in BOOLEAN /\ it.volatile \in BOOLEAN
  BY <1>2, <1>3
<1>6. it.type \notin {"ht_int8", "ht_packed"} => it.len = 1
  BY <1>2, <1>3
<1>7. it.config => it.type \notin {"ht_int24", "ht_double"}
  BY <1>2, <1>3
<1>8. QED
  BY <1>4, <1>5, <1>6, <1>7

\* What an element of an item of type t holds, and holds with its HART width.
Elements(t) == IF t \in Floating THEN Int \union {NaN} ELSE 0 .. (Room(t) - 1)
Fits(t, x)  == t \in Whole => x \in 0 .. (Values[Wide[t]] - 1)

\* What setValue() leaves, and that it tells of a change.
Leaves(t, o) == o.raw \in Elements(t) /\ (t # "ht_int24" => Fits(t, o.raw))
Tells(t, old, o) == t # "ht_int24" /\ Fits(t, old) /\ ~o.changed => o.raw = old

LEMMA Remainders ==
  \A n \in 0 .. 8 :
    /\ \A v \in Int : v % Values[n] \in 0 .. (Values[n] - 1)
    /\ \A v \in 0 .. (Values[n] - 1) : v % Values[n] = v
<1>1. \A p \in Nat : p >= 1 => /\ \A v \in Int : v % p \in 0 .. (p - 1)
                               /\ \A v \in 0 .. (p - 1) : v % p = v
  OBVIOUS
<1>2. QED
  BY <1>1, ValuesGrow

LEMMA Ranges ==
  /\ \A m, n \in 0 .. 8 : m <= n => 0 .. (Values[m] - 1) \subseteq 0 .. (Values[n] - 1)
  /\ \A n \in 0 .. 8 : 0 \in 0 .. (Values[n] - 1) /\ Values[n] - 1 \in 0 .. (Values[n] - 1)
<1>1. \A p \in Nat : p >= 1 => 0 \in 0 .. (p - 1) /\ p - 1 \in 0 .. (p - 1)
  OBVIOUS
<1>2. \A p, q \in Nat : p <= q => 0 .. (p - 1) \subseteq 0 .. (q - 1)
  OBVIOUS
<1>3. QED
  BY <1>1, <1>2, ValuesGrow

\* The elements a type holds, width by width.
LEMMA ElementsAre ==
  /\ \A t \in Whole : /\ Wide[t] \in 1 .. 8 /\ Kept[t] \in 1 .. 8 /\ Wide[t] <= Kept[t]
                      /\ Elements(t) = 0 .. (Values[Kept[t]] - 1)
                      /\ \A x : Fits(t, x) => x \in Elements(t)
  /\ \A t \in TextTypes : Elements(t) = 0 .. (Values[1] - 1) /\ \A x : Fits(t, x)
  /\ \A t \in Floating : Elements(t) = Int \union {NaN} /\ \A x : Fits(t, x)
  /\ \A t \in {"ht_int8", "ht_int16", "ht_int32"} : \A x \in Elements(t) : Fits(t, x)
  /\ \A t \in Types : 0 \in Elements(t)
<1>1. \A t \in Whole : Wide[t] \in 1 .. 8 /\ Kept[t] \in 1 .. 8 /\ Wide[t] <= Kept[t]
  BY Widths
<1>2. Whole \cap Floating = {} /\ Whole \cap TextTypes = {} /\ Floating \cap TextTypes = {}
  BY Widths DEF Floating, TextTypes
<1>3. \A t \in Whole : Elements(t) = 0 .. (Values[Kept[t]] - 1)
  BY <1>2 DEF Elements, Room
<1>4. \A t \in Whole : \A x : Fits(t, x) => x \in Elements(t)
  <2>1. TAKE t \in Whole
  <2>2. 0 .. (Values[Wide[t]] - 1) \subseteq 0 .. (Values[Kept[t]] - 1)
    BY <1>1, Ranges
  <2>3. QED
    BY <1>3, <2>2 DEF Fits
<1>5. \A t \in TextTypes : Elements(t) = 0 .. (Values[1] - 1) /\ \A x : Fits(t, x)
  BY <1>2 DEF Elements, Room, Fits
<1>6. \A t \in Floating : Elements(t) = Int \union {NaN} /\ \A x : Fits(t, x)
  BY <1>2 DEF Elements, Fits
<1>7. \A t \in {"ht_int8", "ht_int16", "ht_int32"} : \A x \in Elements(t) : Fits(t, x)
  BY <1>3, Widths DEF Fits
<1>8. \A t \in Types : 0 \in Elements(t)
  <2>1. \A n \in 1 .. 8 : n \in 0 .. 8 /\ 0 \in 0 .. (Values[n] - 1)
    BY Ranges
  <2>2. \A t \in Whole : 0 \in Elements(t)
    BY <1>1, <1>3, <2>1
  <2>3. \A t \in Floating \union TextTypes : 0 \in Elements(t)
    <3>1. 1 \in 1 .. 8
      OBVIOUS
    <3>2. 0 \in 0 .. (Values[1] - 1)
      BY <2>1, <3>1
    <3>3. \A t \in TextTypes : 0 \in Elements(t)
      BY <1>5, <3>2
    <3>4. \A t \in Floating : 0 \in Elements(t)
      BY <1>6
    <3>5. QED
      BY <3>3, <3>4
  <2>4. QED
    BY <2>2, <2>3 DEF Types
<1>9. QED
  BY <1>1, <1>3, <1>4, <1>5, <1>6, <1>7, <1>8

\* A value that is stored as it is, and one that is cut to the width.
LEMMA StoredWhole ==
  ASSUME NEW t \in Whole \union Floating, NEW old, NEW v \in Int, NEW o,
         o = Set(old, v, v), t # "ht_int24" => Fits(t, v), v \in Elements(t)
  PROVE  Leaves(t, o) /\ Tells(t, old, o)
BY DEF Leaves, Tells, Set, Differs

LEMMA StoredCut ==
  ASSUME NEW t \in Whole, NEW old, NEW v \in Int, NEW o, o = Set(old, v, v % Values[Wide[t]])
  PROVE  Leaves(t, o) /\ Tells(t, old, o)
<1>0. PICK n \in 0 .. 8 : n = Wide[t]
  <2>1. Wide[t] \in 1 .. 8
    BY ElementsAre
  <2>2. Wide[t] \in 0 .. 8
    BY <2>1
  <2>3. QED
    BY <2>2
<1>1. v % Values[Wide[t]] \in 0 .. (Values[Wide[t]] - 1)
  BY <1>0, Remainders
<1>2. v \in 0 .. (Values[Wide[t]] - 1) => v % Values[Wide[t]] = v
  BY <1>0, Remainders
<1>3. Leaves(t, o)
  BY <1>1, ElementsAre DEF Leaves, Fits, Set
<1>4. QED
  BY <1>2, <1>3 DEF Tells, Fits, Set, Differs

LEMMA StoredNot ==
  ASSUME NEW t \in TextTypes, NEW old \in Elements(t), NEW o, o = Untouched(old)
  PROVE  Leaves(t, o) /\ Tells(t, old, o)
BY ElementsAre DEF Leaves, Tells, Untouched

LEMMA Stored8 ==
  ASSUME NEW t \in Types, NEW old \in Elements(t), NEW v \in 0 .. (Values[1] - 1),
         NEW o \in setValue8(t, old, v)
  PROVE  Leaves(t, o) /\ Tells(t, old, o)
<1>1. CASE t \in TextTypes
  BY <1>1, StoredNot DEF setValue8
<1>2. CASE t \in Floating
  <2>1. o = Set(old, v, v) /\ v \in Int
    BY <1>2, Widths, ValuesGrow DEF setValue8, Floating, TextTypes
  <2>2. QED
    BY <1>2, <2>1, ElementsAre, StoredWhole
<1>3. CASE t \in Whole
  <2>1. o = Set(old, v, v) /\ v \in Int
    BY <1>3, Widths, ValuesGrow DEF setValue8, TextTypes
  <2>2. Fits(t, v)
    <3>1. Wide[t] \in 0 .. 8 /\ 1 <= Wide[t] /\ 1 \in 0 .. 8
      BY <1>3, Widths
    <3>2. 0 .. (Values[1] - 1) \subseteq 0 .. (Values[Wide[t]] - 1)
      BY <3>1, Ranges
    <3>3. QED
      BY <3>2 DEF Fits
  <2>3. QED
    BY <1>3, <2>1, <2>2, ElementsAre, StoredWhole
<1>4. QED
  BY <1>1, <1>2, <1>3 DEF Types

LEMMA Stored16 ==
  ASSUME NEW t \in Types, NEW old \in Elements(t), NEW v \in 0 .. (Values[2] - 1),
         NEW o \in setValue16(t, old, v)
  PROVE  Leaves(t, o) /\ Tells(t, old, o)
<1>0. v \in Int
  BY ValuesGrow
<1>1. CASE t \in TextTypes
  BY <1>1, StoredNot DEF setValue16
<1>2. CASE t \in Floating
  <2>1. o = Set(old, v, v)
    BY <1>2, Widths DEF setValue16, Floating, TextTypes
  <2>2. QED
    BY <1>0, <1>2, <2>1, ElementsAre, StoredWhole
<1>3. CASE t = "ht_int8"
  <2>1. o = Set(old, v, v % Byte) /\ Byte = Values[Wide[t]] /\ t \in Whole
    BY <1>3, Widths, ValuesGrow DEF setValue16, TextTypes
  <2>2. QED
    BY <1>0, <2>1, StoredCut
<1>4. CASE t \in Whole \ {"ht_int8"}
  <2>1. o = Set(old, v, v)
    BY <1>4, Widths DEF setValue16, TextTypes
  <2>2. Wide[t] \in 0 .. 8 /\ 2 <= Wide[t] /\ 2 \in 0 .. 8
    BY <1>4, Widths
  <2>3. 0 .. (Values[2] - 1) \subseteq 0 .. (Values[Wide[t]] - 1)
    BY <2>2, Ranges
  <2>4. Fits(t, v)
    BY <2>3 DEF Fits
  <2>5. QED
    BY <1>0, <1>4, <2>1, <2>4, ElementsAre, StoredWhole
<1>5. QED
  BY <1>1, <1>2, <1>3, <1>4 DEF Types

LEMMA Stored32 ==
  ASSUME NEW t \in Types, NEW old \in Elements(t), NEW v \in 0 .. (Values[4] - 1),
         NEW o \in setValue32(t, old, v)
  PROVE  Leaves(t, o) /\ Tells(t, old, o)
<1>0. v \in Int
  BY ValuesGrow
<1>1. CASE t \in TextTypes
  BY <1>1, StoredNot DEF setValue32
<1>2. CASE t \in Floating
  <2>1. o = Set(old, v, v)
    BY <1>2, Widths DEF setValue32, Floating, TextTypes
  <2>2. QED
    BY <1>0, <1>2, <2>1, ElementsAre, StoredWhole
<1>3. CASE t \in {"ht_int8", "ht_int16"}
  <2>1. o = Set(old, v, v % Values[Wide[t]]) /\ t \in Whole
    BY <1>3, Widths DEF setValue32, TextTypes
  <2>2. QED
    BY <1>0, <2>1, StoredCut
<1>4. CASE t \in Whole \ {"ht_int8", "ht_int16"}
  <2>1. o = Set(old, v, v)
    BY <1>4, Widths DEF setValue32, TextTypes
  <2>2. t # "ht_int24" => Fits(t, v)
    <3>1. SUFFICES ASSUME t # "ht_int24" PROVE Fits(t, v)
      OBVIOUS
    <3>2. Wide[t] \in 0 .. 8 /\ 4 <= Wide[t] /\ 4 \in 0 .. 8
      BY <1>4, <3>1, Widths
    <3>3. 0 .. (Values[4] - 1) \subseteq 0 .. (Values[Wide[t]] - 1)
      BY <3>2, Ranges
    <3>4. QED
      BY <3>3 DEF Fits
  <2>3. v \in Elements(t)
    <3>1. Kept[t] \in 0 .. 8 /\ 4 <= Kept[t] /\ 4 \in 0 .. 8
      BY <1>4, Widths
    <3>2. 0 .. (Values[4] - 1) \subseteq 0 .. (Values[Kept[t]] - 1)
      BY <3>1, Ranges
    <3>3. QED
      BY <1>4, <3>2, ElementsAre
  <2>4. QED
    BY <1>0, <1>4, <2>1, <2>2, <2>3, StoredWhole
<1>5. QED
  BY <1>1, <1>2, <1>3, <1>4 DEF Types

\* 64 bits into 32 are added, and into 48 are set without a word.
LEMMA Stored64 ==
  ASSUME NEW t \in Types, NEW old \in Elements(t), NEW v \in 0 .. (Values[8] - 1),
         NEW o \in setValue64(t, old, v)
  PROVE  /\ Leaves(t, o)
         /\ t \notin {"ht_int32", "ht_int48"} => Tells(t, old, o)
<1>0. v \in Int
  BY ValuesGrow
<1>1. CASE t \in TextTypes
  BY <1>1, StoredNot, Widths DEF setValue64, TextTypes, Floating
<1>2. CASE t \in Floating
  <2>1. o = Set(old, v, v)
    BY <1>2, Widths DEF setValue64, Floating, TextTypes
  <2>2. QED
    BY <1>0, <1>2, <2>1, ElementsAre, StoredWhole
<1>3. CASE t = "ht_int32"
  <2>1. o.raw = (old + v) % Values[4]
    BY <1>3 DEF setValue64, Floating, TextTypes, Set
  <2>2. old \in 0 .. (Values[4] - 1)
    BY <1>3, Widths, ElementsAre
  <2>3. old \in Int /\ old + v \in Int /\ 4 \in 0 .. 8
    BY <1>0, <2>2, ValuesGrow
  <2>4. o.raw \in 0 .. (Values[4] - 1)
    BY <2>1, <2>3, Remainders
  <2>5. QED
    BY <1>3, <2>4, Widths, ElementsAre DEF Leaves, Fits
<1>4. CASE t = "ht_int48"
  <2>1. o.raw = v % Values[6]
    BY <1>4 DEF setValue64, Floating, TextTypes
  <2>2. o.raw \in 0 .. (Values[6] - 1)
    <3>1. 6 \in 0 .. 8
      OBVIOUS
    <3>2. QED
      BY <1>0, <2>1, <3>1, Remainders
  <2>3. Fits(t, o.raw)
    BY <1>4, <2>2, Widths DEF Fits
  <2>4. QED
    BY <1>4, <2>3, Widths, ElementsAre DEF Leaves
<1>5. CASE t \in Whole \ {"ht_int32", "ht_int48"}
  <2>1. o = Set(old, v, v % Values[Wide[t]])
    BY <1>5, Widths DEF setValue64, Floating, TextTypes
  <2>2. QED
    BY <1>0, <1>5, <2>1, StoredCut
<1>6. QED
  BY <1>1, <1>2, <1>3, <1>4, <1>5 DEF Types

\* A float or double, cast to 32 or 64 bits.
LEMMA StoredReal ==
  ASSUME NEW t \in Types, NEW old \in Elements(t), NEW v \in Int \union {NaN},
         NEW own \in Floating, NEW o \in setValueFloat(own, t, old, v)
  PROVE  Leaves(t, o) /\ Tells(t, old, o)
<1>1. CASE t \in TextTypes
  BY <1>1, StoredNot DEF setValueFloat, TextTypes, Floating
<1>2. CASE t = own
  <2>1. o = [raw |-> v, changed |-> old # v]
    BY <1>2 DEF setValueFloat, Floating, TextTypes
  <2>2. QED
    BY <1>2, <2>1, ElementsAre DEF Leaves, Tells
<1>3. CASE t \in Floating /\ t # own
  <2>1. o = Set(old, v, v)
    BY <1>3 DEF setValueFloat, Floating, TextTypes
  <2>2. QED
    BY <1>3, <2>1, ElementsAre DEF Leaves, Tells, Set, Differs
<1>4. CASE t \in Whole
  <2> DEFINE n == IF Wide[t] <= 4 THEN 4 ELSE 8
  <2>1. t \notin TextTypes /\ t \notin Floating /\ t # own
    BY <1>4, Widths DEF Floating, TextTypes
  <2>2. PICK c \in Cast(v, n) : o = Set(old, v, c % Values[Wide[t]])
    BY <2>1 DEF setValueFloat
  <2>3. Wide[t] \in 0 .. 8 /\ n \in 0 .. 8 /\ Wide[t] <= n
    BY <1>4, Widths
  <2> HIDE DEF n
  <2>4. c \in Int /\ (v \in 0 .. (Values[n] - 1) => c = v)
    <3>1. Values[n] \in Nat
      BY <2>3, ValuesGrow
    <3>2. v \in 0 .. (Values[n] - 1) => v # NaN
      BY <3>1, GivenAssumption
    <3>3. QED
      BY <3>1, <3>2 DEF Cast
  <2>5. 0 .. (Values[Wide[t]] - 1) \subseteq 0 .. (Values[n] - 1)
    BY <2>3, Ranges
  <2>6. c % Values[Wide[t]] \in 0 .. (Values[Wide[t]] - 1)
    BY <2>3, <2>4, Remainders
  <2>7. v \in 0 .. (Values[Wide[t]] - 1) => c % Values[Wide[t]] = v
    BY <2>3, <2>4, <2>5, Remainders
  <2>8. Leaves(t, o)
    BY <1>4, <2>2, <2>6, ElementsAre DEF Leaves, Fits, Set
  <2>9. Tells(t, old, o)
    BY <1>4, <2>2, <2>7 DEF Tells, Fits, Set, Differs
  <2>10. QED
    BY <2>8, <2>9
<1>5. QED
  BY <1>1, <1>2, <1>3, <1>4 DEF Types

\* What each parameter type of setValue() may bring.
Brings(from, v) ==
  \/ from = "uint8"  /\ v \in Fitting(1)
  \/ from = "uint16" /\ v \in Fitting(2)
  \/ from = "uint32" /\ v \in Fitting(4)
  \/ from = "uint64" /\ v \in Fitting(8)
  \/ from = "int8"   /\ v \in Signed(1)
  \/ from = "int16"  /\ v \in Signed(2)
  \/ from = "int32"  /\ v \in Signed(4)
  \/ from = "int64"  /\ v \in Signed(8)
  \/ from \in {"float", "double"} /\ v \in Reals

LEMMA Stored ==
  ASSUME item.type \in Types, here[1] \in Elements(item.type),
         NEW from, NEW v, Brings(from, v), NEW o \in Outcomes(from, v)
  PROVE  /\ Leaves(item.type, o)
         /\ ~(from \in {"uint64", "int64"} /\ item.type \in {"ht_int32", "ht_int48"})
              => Tells(item.type, here[1], o)
<1>1. \A n \in 0 .. 8 : \A w \in Fitting(n) : w \in 0 .. (Values[n] - 1)
  BY DEF Fitting
<1>2. \A n \in 0 .. 8 : \A w \in Signed(n) : w % Values[n] \in 0 .. (Values[n] - 1)
  BY GivenAssumption, Remainders DEF Signed
<1>3. \A w \in Reals : w \in Int \union {NaN}
  BY GivenAssumption DEF Reals
<1>4. Values[1] = Byte /\ 1 \in 0 .. 8 /\ 2 \in 0 .. 8 /\ 4 \in 0 .. 8 /\ 8 \in 0 .. 8
  BY ValuesGrow
<1>5. CASE from = "uint8" /\ v \in Fitting(1)
  BY <1>1, <1>4, <1>5, Stored8 DEF Outcomes
<1>6. CASE from = "int8" /\ v \in Signed(1)
  <2>1. v % Byte \in 0 .. (Values[1] - 1)
    BY <1>2, <1>4, <1>6
  <2>2. QED
    BY <1>6, <2>1, Stored8 DEF Outcomes
<1>7. CASE from = "uint16" /\ v \in Fitting(2)
  BY <1>1, <1>4, <1>7, Stored16 DEF Outcomes
<1>8. CASE from = "int16" /\ v \in Signed(2)
  BY <1>2, <1>4, <1>8, Stored16 DEF Outcomes
<1>9. CASE from = "uint32" /\ v \in Fitting(4)
  BY <1>1, <1>4, <1>9, Stored32 DEF Outcomes
<1>10. CASE from = "int32" /\ v \in Signed(4)
  BY <1>2, <1>4, <1>10, Stored32 DEF Outcomes
<1>11. CASE from = "uint64" /\ v \in Fitting(8)
  BY <1>1, <1>4, <1>11, Stored64 DEF Outcomes
<1>12. CASE from = "int64" /\ v \in Signed(8)
  BY <1>2, <1>4, <1>12, Stored64 DEF Outcomes
<1>13. CASE from = "float" /\ v \in Reals
  BY <1>3, <1>13, StoredReal DEF Outcomes, setValue_float, Floating
<1>14. CASE from = "double" /\ v \in Reals
  BY <1>3, <1>14, StoredReal DEF Outcomes, setValue_double, Floating
<1>15. QED
  BY <1>5, <1>6, <1>7, <1>8, <1>9, <1>10, <1>11, <1>12, <1>13, <1>14 DEF Brings

-----------------------------------------------------------------------------
(* Data items: into a message and out of it. *)

Anything == Int \union {NaN}

\* A number of p values is its upper and its lower digit.
LEMMA Digits ==
  ASSUME NEW p \in Nat, p >= 1, NEW q \in Nat, q >= 1, NEW x \in Nat
  PROVE  /\ x \div p \in Nat
         /\ (x \div p) * p + (x % p) = x
         /\ (x \div p) \div q = x \div (q * p)
         /\ x < q * p => x \div p < q
<1>1. x \div p \in Nat /\ (x \div p) * p + (x % p) = x /\ x % p \in 0 .. (p - 1)
  OBVIOUS
<1>2. PICK a \in Nat, r \in Nat : a = x \div p /\ r = x % p /\ r <= p - 1 /\ x = a * p + r
  BY <1>1
<1>3. PICK b \in Nat, s \in Nat : b = a \div q /\ s = a % q /\ s <= q - 1 /\ a = b * q + s
  OBVIOUS
<1>4. x = b * (q * p) + (s * p + r) /\ q * p \in Nat /\ q * p >= 1
  <2>1. \A k, l, m, n, o \in Nat : (k * l + m) * n + o = k * (l * n) + (m * n + o)
    OBVIOUS
  <2>2. q * p \in Nat /\ q * p >= 1
    OBVIOUS
  <2>3. x = (b * q + s) * p + r
    BY <1>2, <1>3
  <2>4. QED
    BY <2>1, <2>2, <2>3
<1>5. s * p + r \in Nat /\ s * p + r <= q * p - 1
  <2>1. s * p <= (q - 1) * p
    BY <1>3
  <2>2. QED
    BY <1>2, <2>1
<1>6. x \div (q * p) = b
  <2>1. \A d \in Nat : d >= 1 => \A m \in Nat : \A e \in 0 .. (d - 1) : (m * d + e) \div d = m
    OBVIOUS
  <2>2. QED
    BY <1>4, <1>5, <2>1
<1>7. x < q * p => a < q
  <2>1. SUFFICES ASSUME a >= q PROVE x >= q * p
    BY <1>2
  <2>2. a * p >= q * p
    BY <2>1
  <2>3. QED
    BY <1>2, <2>2
<1>8. QED
  BY <1>1, <1>2, <1>3, <1>6, <1>7

\* The bytes of a number make the number again.
LEMMA TwoBytes ==
  ASSUME NEW x \in 0 .. (Values[2] - 1)
  PROVE  Number(Bytes(x, 2)) = x
<1> DEFINE b == Bytes(x, 2)
           g == [i \in 0 .. 2 |-> CASE i = 0 -> 0 [] i = 1 -> b[1] [] i = 2 -> b[1] * Byte + b[2]]
<1>1. Values[2] = Byte * Byte /\ Values[1] = Byte /\ Values[0] = 1 /\ x \in Nat
  BY ValuesGrow, ByteAssumption
<1>2. b[1] = (x \div Byte) % Byte /\ b[2] = (x \div 1) % Byte /\ Len(b) = 2
  BY <1>1 DEF Bytes
<1>3. b[1] = x \div Byte /\ b[2] = x % Byte
  <2>1. x \div Byte \in Nat /\ x \div Byte < Byte
    <3>1. Byte \in Nat /\ Byte >= 1 /\ x < Byte * Byte
      BY <1>1, ByteAssumption
    <3>2. QED
      BY <1>1, <3>1, Digits
  <2>2. x \div 1 = x
    BY <1>1
  <2>3. \A y \in Nat : y < Byte => y % Byte = y
    BY ByteAssumption
  <2>4. QED
    BY <1>2, <2>1, <2>2, <2>3
<1>4. b[1] * Byte + b[2] = x
  <2>1. Byte \in Nat /\ Byte >= 1
    BY ByteAssumption
  <2>2. (x \div Byte) * Byte + (x % Byte) = x
    BY <1>1, <2>1, Digits
  <2>3. QED
    BY <1>3, <2>2
<1> HIDE DEF b
<1>5. \A i \in 0 .. 2 : g[i] = IF i = 0 THEN 0 ELSE g[i - 1] * Byte + b[i]
  <2>1. b[1] \in Int
    BY <1>1, <1>3, ByteAssumption, Digits
  <2>2. 0 * Byte + b[1] = b[1]
    BY <2>1, ByteAssumption
  <2>3. g[0] = 0 /\ g[1] = b[1] /\ g[2] = b[1] * Byte + b[2]
    OBVIOUS
  <2>4. QED
    BY <2>2, <2>3
<1> DEFINE sum == CHOOSE sum : sum = [i \in 0 .. Len(b) |-> IF i = 0 THEN 0 ELSE sum[i - 1] * Byte + b[i]]
<1>6. Number(b) = sum[Len(b)]
  BY DEF Number
<1>7. g = [i \in 0 .. Len(b) |-> IF i = 0 THEN 0 ELSE g[i - 1] * Byte + b[i]]
  BY <1>2, <1>5
<1> HIDE DEF g
<1>9. sum = [i \in 0 .. Len(b) |-> IF i = 0 THEN 0 ELSE sum[i - 1] * Byte + b[i]]
  BY <1>7
<1> HIDE DEF sum
<1>10. sum[0] = 0 /\ sum[1] = sum[0] * Byte + b[1] /\ sum[2] = sum[1] * Byte + b[2]
  BY <1>2, <1>9
<1>11. sum[2] = x
  <2>1. b[1] \in Int
    BY <1>1, <1>3, ByteAssumption, Digits
  <2>2. 0 * Byte + b[1] = b[1]
    BY <2>1, ByteAssumption
  <2>3. QED
    BY <1>4, <1>10, <2>2
<1>12. QED
  BY <1>2, <1>6, <1>11 DEF b

LEMMA FourBytes ==
  ASSUME NEW x \in 0 .. (Values[4] - 1)
  PROVE  Number(Bytes(x, 4)) = x
<1> DEFINE b == Bytes(x, 4)
           u == x \div Byte
           v == u \div Byte
           w == v \div Byte
           n2 == w * Byte + b[2]
           n3 == n2 * Byte + b[3]
           n4 == n3 * Byte + b[4]
           g == [i \in 0 .. 4 |-> CASE i = 0 -> 0  [] i = 1 -> b[1] [] i = 2 -> n2
                                    [] i = 3 -> n3 [] i = 4 -> n4]
           sum == CHOOSE sum : sum = [i \in 0 .. Len(b) |->
                                        IF i = 0 THEN 0 ELSE sum[i - 1] * Byte + b[i]]
<1>0. Byte \in Nat /\ Byte >= 1 /\ x \in Nat
  BY ByteAssumption, ValuesGrow
<1>1. /\ Values[0] = 1 /\ Values[1] = Byte /\ Values[2] = Byte * Byte
      /\ Values[3] = Byte * (Byte * Byte) /\ Values[4] = Byte * (Byte * (Byte * Byte))
  BY ValuesGrow
<1>2. u \in Nat /\ u * Byte + (x % Byte) = x /\ u < Byte * (Byte * Byte)
      /\ u \div Byte = x \div (Byte * Byte)
      /\ u \div (Byte * Byte) = x \div ((Byte * Byte) * Byte)
  <2>1. x < (Byte * (Byte * Byte)) * Byte
    BY <1>0, <1>1
  <2>2. Byte * (Byte * Byte) \in Nat /\ Byte * (Byte * Byte) >= 1
        /\ Byte * Byte \in Nat /\ Byte * Byte >= 1
    BY <1>0
  <2>3. u \in Nat /\ u * Byte + (x % Byte) = x
    BY <1>0, Digits
  <2>4. u < Byte * (Byte * Byte)
    BY <1>0, <2>1, <2>2, Digits
  <2>5. u \div Byte = x \div (Byte * Byte)
    BY <1>0, Digits
  <2>6. u \div (Byte * Byte) = x \div ((Byte * Byte) * Byte)
    BY <1>0, <2>2, Digits
  <2>7. QED
    BY <2>3, <2>4, <2>5, <2>6
<1> HIDE DEF u
<1>3. v \in Nat /\ v * Byte + (u % Byte) = u /\ v < Byte * Byte
      /\ v \div Byte = u \div (Byte * Byte)
  <2>1. u < (Byte * Byte) * Byte /\ Byte * Byte \in Nat /\ Byte * Byte >= 1
    BY <1>0, <1>2
  <2>2. v \in Nat /\ v * Byte + (u % Byte) = u
    BY <1>0, <1>2, Digits
  <2>3. v < Byte * Byte
    BY <1>0, <1>2, <2>1, Digits
  <2>4. v \div Byte = u \div (Byte * Byte)
    BY <1>0, <1>2, Digits
  <2>5. QED
    BY <2>2, <2>3, <2>4
<1>4. v = x \div (Byte * Byte)
  BY <1>2
<1> HIDE DEF v
<1>5. w \in Nat /\ w * Byte + (v % Byte) = v /\ w < Byte
  BY <1>0, <1>3, Digits
<1>6. w = x \div (Byte * (Byte * Byte))
  <2>1. (Byte * Byte) * Byte = Byte * (Byte * Byte)
    BY <1>0
  <2>2. QED
    BY <1>2, <1>3, <2>1
<1> HIDE DEF w
<1>7. b[1] = w % Byte /\ b[2] = v % Byte /\ b[3] = u % Byte /\ b[4] = x % Byte /\ Len(b) = 4
  <2>1. b[1] = (x \div Values[3]) % Byte /\ b[2] = (x \div Values[2]) % Byte
        /\ b[3] = (x \div Values[1]) % Byte /\ b[4] = (x \div Values[0]) % Byte /\ Len(b) = 4
    BY DEF Bytes
  <2>2. x \div 1 = x
    BY <1>0
  <2>3. QED
    BY <1>1, <1>4, <1>6, <2>1, <2>2 DEF u
<1>8. b[1] = w
  BY <1>0, <1>5, <1>7
<1> HIDE DEF b
<1>9. n2 = v /\ n3 = u /\ n4 = x
  BY <1>2, <1>3, <1>5, <1>7
<1>10. 0 * Byte + b[1] = w
  BY <1>0, <1>5, <1>8
<1> HIDE DEF n2, n3, n4
<1>11. g[0] = 0 /\ g[1] = w /\ g[2] = v /\ g[3] = u /\ g[4] = x
  BY <1>8, <1>9
<1>12. /\ v = w * Byte + b[2] /\ u = v * Byte + b[3] /\ x = u * Byte + b[4]
  BY <1>2, <1>3, <1>5, <1>7
<1>13. \A i \in 0 .. 4 : g[i] = IF i = 0 THEN 0 ELSE g[i - 1] * Byte + b[i]
  BY <1>10, <1>11, <1>12
<1>14. g = [i \in 0 .. Len(b) |-> IF i = 0 THEN 0 ELSE g[i - 1] * Byte + b[i]]
  BY <1>7, <1>13
<1> HIDE DEF g
<1>15. Number(b) = sum[Len(b)]
  BY DEF Number
<1>16. sum = [i \in 0 .. Len(b) |-> IF i = 0 THEN 0 ELSE sum[i - 1] * Byte + b[i]]
  BY <1>14
<1> HIDE DEF sum
<1>17. sum[0] = 0 /\ sum[1] = sum[0] * Byte + b[1] /\ sum[2] = sum[1] * Byte + b[2]
       /\ sum[3] = sum[2] * Byte + b[3] /\ sum[4] = sum[3] * Byte + b[4]
  BY <1>7, <1>16
<1>18. sum[4] = x
  BY <1>10, <1>12, <1>17, <1>8
<1>19. QED
  BY <1>7, <1>15, <1>18 DEF b

\* An item of as many elements as one has.
Filled(it, x) == x \in [1 .. it.len -> Elements(it.type)]

\* The bytes of an item whose type both ways know are as many as the way back
\* needs, and bring the item back.
Returns(it, x) == /\ Inserted(it.type, x) \in Seq(Anything)
                  /\ Len(Inserted(it.type, x)) = Needed(it)
                  /\ Found(it.type, Inserted(it.type, x)) = x

LEMMA ElementsAny ==
  /\ \A t \in Types : Elements(t) \subseteq Anything
  /\ \A n \in 0 .. 8 : \A x \in Int : Bytes(x, n) \in Seq(Anything) /\ Len(Bytes(x, n)) = n
<1>1. \A t \in Whole : Elements(t) \subseteq Int
  <2>1. TAKE t \in Whole
  <2>2. Kept[t] \in 0 .. 8
    BY Widths
  <2>3. Values[Kept[t]] \in Nat
    BY <2>2, ValuesGrow
  <2>4. QED
    BY <2>3, ElementsAre
<1>2. \A t \in TextTypes : Elements(t) \subseteq Int
  <2>1. Values[1] \in Nat
    BY ValuesGrow
  <2>2. QED
    BY <2>1, ElementsAre
<1>3. \A t \in Types : Elements(t) \subseteq Anything
  BY <1>1, <1>2, ElementsAre DEF Types, Anything
<1>4. ASSUME NEW n \in 0 .. 8, NEW x \in Int
      PROVE  Bytes(x, n) \in Seq(Anything) /\ Len(Bytes(x, n)) = n
  <2>1. \A y \in Int : y % Byte \in Int
    BY ByteAssumption
  <2>2. \A i \in 1 .. n : x \div Values[n - i] \in Int
    <3>1. \A i \in 1 .. n : n - i \in 0 .. 8
      OBVIOUS
    <3>2. \A i \in 1 .. n : Values[n - i] \in Nat /\ Values[n - i] >= 1
      BY <3>1, ValuesGrow
    <3>3. \A p \in Nat : p >= 1 => x \div p \in Int
      OBVIOUS
    <3>4. QED
      BY <3>2, <3>3
  <2>3. Bytes(x, n) \in [1 .. n -> Anything]
    BY <2>1, <2>2 DEF Bytes, Anything
  <2>4. QED
    BY <2>3
<1>5. QED
  BY <1>3, <1>4

\* A sequence of one element.
LEMMA OneElement ==
  ASSUME NEW S, NEW x \in [1 .. 1 -> S]
  PROVE  x = <<x[1]>>
OBVIOUS

LEMMA ComesBack ==
  ASSUME NEW it \in Declared \union Undeclared, NEW x, Filled(it, x), it.type \in Extractable
  PROVE  Returns(it, x)
<1>1. /\ it.type \in Types /\ it.len \in Nat /\ it.len >= 1
      /\ it.type \notin {"ht_int8", "ht_packed"} => it.len = 1
  BY ItemKinds
<1>2. Elements(it.type) \subseteq Anything
  BY <1>1, ElementsAny
<1>3. x \in [1 .. it.len -> Elements(it.type)]
  BY DEF Filled
<1>4. CASE it.type \in {"ht_int8", "ht_packed"}
  <2>1. x \in Seq(Anything) /\ Len(x) = it.len
    BY <1>1, <1>2, <1>3
  <2>2. Inserted(it.type, x) = x /\ Found(it.type, x) = x /\ Needed(it) = it.len
    BY <1>4 DEF Inserted, Found, Needed
  <2>3. QED
    BY <2>1, <2>2 DEF Returns
<1>5. CASE it.type \notin {"ht_int8", "ht_packed"}
  <2>1. x[1] \in Elements(it.type) /\ x[1] \in Anything /\ x = <<x[1]>>
    BY <1>1, <1>2, <1>3, <1>5, OneElement
  <2>2. CASE it.type = "ht_float"
    <3>1. Parts(x[1]) \in [1 .. 4 -> Anything]
      BY <2>1 DEF Parts
    <3>2. Parts(x[1]) \in Seq(Anything) /\ Len(Parts(x[1])) = 4 /\ Parts(x[1])[1] = x[1]
      BY <3>1 DEF Parts
    <3>3. Inserted(it.type, x) = Parts(x[1]) /\ Needed(it) = 4
          /\ \A b : Found(it.type, b) = <<b[1]>>
      BY <2>2 DEF Inserted, Found, Needed
    <3>4. QED
      BY <2>1, <3>2, <3>3 DEF Returns
  <2>3. CASE it.type = "ht_int16"
    <3>1. Inserted(it.type, x) = Bytes(x[1], 2) /\ Needed(it) = 2
          /\ \A b : Found(it.type, b) = <<Number(b)>>
      BY <2>3, Widths DEF Inserted, Found, Needed
    <3>2. x[1] \in 0 .. (Values[2] - 1) /\ x[1] \in Int
      <4>1. "ht_int16" \in Whole /\ Kept["ht_int16"] = 2 /\ 2 \in 0 .. 8
        BY Widths
      <4>2. Elements("ht_int16") = 0 .. (Values[2] - 1)
        BY <4>1, ElementsAre
      <4>3. Values[2] \in Nat
        BY <4>1, ValuesGrow
      <4>4. x[1] \in 0 .. (Values[2] - 1)
        BY <2>1, <2>3, <4>2
      <4>5. QED
        BY <4>3, <4>4
    <3>3. Bytes(x[1], 2) \in Seq(Anything) /\ Len(Bytes(x[1], 2)) = 2
      <4>1. 2 \in 0 .. 8
        OBVIOUS
      <4>2. QED
        BY <3>2, <4>1, ElementsAny
    <3>4. Number(Bytes(x[1], 2)) = x[1]
      BY <3>2, TwoBytes
    <3>5. QED
      BY <2>1, <3>1, <3>3, <3>4 DEF Returns
  <2>4. CASE it.type = "ht_int32"
    <3>1. Inserted(it.type, x) = Bytes(x[1], 4) /\ Needed(it) = 4
          /\ \A b : Found(it.type, b) = <<Number(b)>>
      BY <2>4, Widths DEF Inserted, Found, Needed
    <3>2. x[1] \in 0 .. (Values[4] - 1) /\ x[1] \in Int
      <4>1. "ht_int32" \in Whole /\ Kept["ht_int32"] = 4 /\ 4 \in 0 .. 8
        BY Widths
      <4>2. Elements("ht_int32") = 0 .. (Values[4] - 1)
        BY <4>1, ElementsAre
      <4>3. Values[4] \in Nat
        BY <4>1, ValuesGrow
      <4>4. x[1] \in 0 .. (Values[4] - 1)
        BY <2>1, <2>4, <4>2
      <4>5. QED
        BY <4>3, <4>4
    <3>3. Bytes(x[1], 4) \in Seq(Anything) /\ Len(Bytes(x[1], 4)) = 4
      <4>1. 4 \in 0 .. 8
        OBVIOUS
      <4>2. QED
        BY <3>2, <4>1, ElementsAny
    <3>4. Number(Bytes(x[1], 4)) = x[1]
      BY <3>2, FourBytes
    <3>5. QED
      BY <2>1, <3>1, <3>3, <3>4 DEF Returns
  <2>5. QED
    BY <1>5, <2>2, <2>3, <2>4 DEF Extractable
<1>6. QED
  BY <1>4, <1>5

LEMMA InsertedTyped ==
  ASSUME NEW it \in Declared \union Undeclared, NEW x, Filled(it, x)
  PROVE  Inserted(it.type, x) \in Seq(Anything)
<1>1. CASE it.type \in Extractable
  BY <1>1, ComesBack DEF Returns
<1>2. CASE it.type = "ht_int24"
  <2>1. Inserted(it.type, x) = Bytes(x[1], 3)
    BY <1>2, Widths DEF Inserted
  <2>2. x[1] \in Elements(it.type)
    BY ItemKinds DEF Filled
  <2>3. x[1] \in 0 .. (Values[4] - 1)
    BY <1>2, <2>2, Widths, ElementsAre
  <2>4. x[1] \in Int /\ 3 \in 0 .. 8
    BY <2>3, ValuesGrow
  <2>5. QED
    BY <2>1, <2>4, ElementsAny
<1>3. CASE it.type \notin Extractable \union {"ht_int24"}
  BY <1>3 DEF Inserted, Extractable
<1>4. QED
  BY <1>1, <1>2, <1>3

-----------------------------------------------------------------------------
(* Data items: the invariant. *)

\* A message is as much as is left of what was inserted.
Rest(m, whole) == /\ m \in Seq(Anything) /\ Len(m) <= Len(whole)
                  /\ \A i \in 1 .. Len(m) : m[i] = whole[i]

ItemInv ==
  /\ item \in Declared \union Undeclared
  /\ Filled(item, here) /\ Filled(item, there) /\ Filled(item, sent)
  /\ Rest(message, Inserted(item.type, sent))
  /\ changeCnt \in 0 .. MaxCount /\ writeNeeded \in BOOLEAN /\ silent \in BOOLEAN

LEMMA RestWhole ==
  ASSUME NEW whole \in Seq(Anything), NEW m, Rest(m, whole), NEW n \in Nat,
         n = Len(whole), ~(Len(m) < n)
  PROVE  SubSeq(m, 1, n) = whole /\ SubSeq(m, n + 1, Len(m)) = <<>>
<1>1. m \in Seq(Anything) /\ Len(m) <= n /\ Len(m) \in Nat
  BY DEF Rest
<1>2. Len(m) = n
  BY <1>1
<1>3. m = whole
  BY <1>1, <1>2, SeqEqual DEF Rest
<1>4. SubSeq(m, n + 1, Len(m)) = <<>>
  BY <1>2, SubSeqEmpty
<1>5. SubSeq(m, 1, n) = m
  <2>1. /\ SubSeq(m, 1, n) \in Seq(Anything)
        /\ Len(SubSeq(m, 1, n)) = IF 1 <= n THEN n - 1 + 1 ELSE 0
        /\ \A i \in 1 .. n - 1 + 1 : SubSeq(m, 1, n)[i] = m[1 + i - 1]
    <3>1. \A i \in 1 .. n : m[i] \in Anything
      BY <1>1, <1>2, ElementOfSeq
    <3>2. QED
      BY <3>1, SubSeqProperties
  <2>2. Len(SubSeq(m, 1, n)) = n
    BY <2>1
  <2>3. \A i \in 1 .. n : SubSeq(m, 1, n)[i] = m[i]
    <3>1. \A i \in 1 .. n : i \in 1 .. n - 1 + 1 /\ 1 + i - 1 = i
      OBVIOUS
    <3>2. QED
      BY <2>1, <3>1
  <2>4. QED
    BY <1>1, <1>2, <2>1, <2>2, <2>3, SeqEqual
<1>6. QED
  BY <1>3, <1>4, <1>5

LEMMA RestEnds ==
  ASSUME NEW whole \in Seq(Anything)
  PROVE  Rest(<<>>, whole) /\ Rest(whole, whole)
BY DEF Rest

LEMMA RestCut ==
  ASSUME NEW whole \in Seq(Anything), NEW m, Rest(m, whole), m # <<>>
  PROVE  Rest(SubSeq(m, 1, Len(m) - 1), whole)
<1>1. m \in Seq(Anything) /\ Len(m) \in Nat /\ Len(m) <= Len(whole) /\ Len(whole) \in Nat
  BY DEF Rest
<1>2. Len(m) # 0
  BY <1>1, EmptySeq
<1>3. PICK n \in Nat : Len(m) = n + 1
  <2>1. Len(m) - 1 \in Nat /\ Len(m) = (Len(m) - 1) + 1
    BY <1>1, <1>2
  <2>2. QED
    BY <2>1
<1>4. Len(m) - 1 = n
  BY <1>1, <1>3
<1>5. \A i \in 1 .. n : m[i] \in Anything /\ m[i] = whole[i]
  <2>1. \A i \in 1 .. n : i \in 1 .. Len(m)
    BY <1>3
  <2>2. QED
    BY <1>1, <2>1, ElementOfSeq DEF Rest
<1>6. /\ SubSeq(m, 1, n) \in Seq(Anything) /\ Len(SubSeq(m, 1, n)) = n
      /\ \A i \in 1 .. n : SubSeq(m, 1, n)[i] = m[i]
  <2>1. /\ SubSeq(m, 1, n) \in Seq(Anything)
        /\ Len(SubSeq(m, 1, n)) = IF 1 <= n THEN n - 1 + 1 ELSE 0
        /\ \A i \in 1 .. n - 1 + 1 : SubSeq(m, 1, n)[i] = m[1 + i - 1]
    BY <1>5, SubSeqProperties
  <2>2. \A i \in 1 .. n : i \in 1 .. n - 1 + 1 /\ 1 + i - 1 = i
    OBVIOUS
  <2>3. QED
    BY <2>1, <2>2
<1>7. n <= Len(whole)
  BY <1>1, <1>3
<1>8. QED
  BY <1>4, <1>5, <1>6, <1>7 DEF Rest

\* What setValue() and an assignment leave has the shape of the item.
LEMMA Overwritten ==
  ASSUME NEW it \in Declared \union Undeclared, NEW x, Filled(it, x), NEW y \in Elements(it.type)
  PROVE  Filled(it, [x EXCEPT ![1] = y]) /\ [x EXCEPT ![1] = y][1] = y
<1>1. it.len \in Nat /\ it.len >= 1
  BY ItemKinds
<1>2. x \in [1 .. it.len -> Elements(it.type)] /\ 1 \in 1 .. it.len
  BY <1>1 DEF Filled
<1>3. QED
  BY <1>2 DEF Filled

LEMMA Assigned ==
  ASSUME NEW it \in Declared \union Undeclared, NEW x, NEW y, Filled(it, x), Filled(it, y)
  PROVE  Filled(it, dataEqual(it.type, x, y)) /\ Fits(it.type, dataEqual(it.type, x, y)[1])
<1>1. /\ it.type \in Types /\ it.len \in Nat /\ it.len >= 1 /\ 1 \in 1 .. it.len
      /\ it.type \notin {"ht_int8", "ht_packed"} => it.len = 1
  BY ItemKinds
<1>2. y[1] \in Elements(it.type)
  BY <1>1 DEF Filled
<1>3. CASE it.type \in TextTypes \union Floating
  <2>1. dataEqual(it.type, x, y) = y
    BY <1>3, Widths DEF dataEqual, TextTypes, Floating
  <2>2. QED
    BY <1>3, <2>1, ElementsAre
<1>4. CASE it.type \in {"ht_int8", "ht_int16", "ht_int32"}
  <2>1. dataEqual(it.type, x, y) = [x EXCEPT ![1] = y[1]]
    BY <1>4, Widths DEF dataEqual, TextTypes, Floating
  <2>2. Fits(it.type, y[1])
    BY <1>2, <1>4, ElementsAre
  <2>3. QED
    BY <1>2, <2>1, <2>2, Overwritten
<1>5. CASE it.type \in Whole \ {"ht_int8", "ht_int16", "ht_int32"}
  <2> DEFINE n == IF it.type = "ht_int24" THEN 3 ELSE 4
  <2>1. dataEqual(it.type, x, y) = <<y[1] % Values[n]>>
    BY <1>5, Widths DEF dataEqual, TextTypes, Floating
  <2>2. n \in 0 .. 8 /\ n <= Wide[it.type] /\ Wide[it.type] \in 0 .. 8
    BY <1>5, Widths
  <2>3. y[1] \in Int
    <3>1. Kept[it.type] \in 0 .. 8
      BY <1>5, Widths
    <3>2. Elements(it.type) = 0 .. (Values[Kept[it.type]] - 1)
      BY <1>5, ElementsAre
    <3>3. Values[Kept[it.type]] \in Nat
      BY <3>1, ValuesGrow
    <3>4. QED
      BY <1>2, <3>2, <3>3
  <2>4. y[1] % Values[n] \in 0 .. (Values[n] - 1)
    BY <2>2, <2>3, Remainders
  <2>5. y[1] % Values[n] \in 0 .. (Values[Wide[it.type]] - 1)
    BY <2>2, <2>4, Ranges
  <2>6. Fits(it.type, y[1] % Values[n])
    BY <2>5 DEF Fits
  <2>7. y[1] % Values[n] \in Elements(it.type)
    BY <1>5, <2>6, ElementsAre
  <2>8. it.len = 1
    BY <1>1, <1>5, Widths
  <2> HIDE DEF n
  <2>9. <<y[1] % Values[n]>> \in [1 .. 1 -> Elements(it.type)]
    BY <2>7
  <2>10. QED
    BY <2>1, <2>6, <2>8, <2>9 DEF Filled
<1>6. QED
  BY <1>1, <1>3, <1>4, <1>5 DEF Types

\* A call of setValue() brings a value of the type of its parameter.
LEMMA SetValues ==
  ASSUME FromUnsigned \/ FromSigned \/ FromReal
  PROVE  \E from, v : Brings(from, v) /\ setValue(from, v)
<1>1. CASE FromUnsigned
  BY <1>1 DEF FromUnsigned, Brings
<1>2. CASE FromSigned
  BY <1>2 DEF FromSigned, Brings
<1>3. CASE FromReal
  BY <1>3 DEF FromReal, Brings
<1>4. QED
  BY <1>1, <1>2, <1>3

\* What extractSelf() does, in the terms of the invariant.
LEMMA Extracted ==
  ASSUME ItemInv, extractSelf
  PROVE  /\ UNCHANGED <<item, there, sent, known, silent>>
         /\ \/ /\ ret' # RC_SUCCESS
               /\ message' \in {message, <<>>}
               /\ UNCHANGED <<here, changeCnt, writeNeeded>>
            \/ /\ ret' = RC_SUCCESS
               /\ changeCnt < MaxCount
               /\ item.type \in Extractable
               /\ message' = <<>>
               /\ here' = sent
               /\ \E changed \in BOOLEAN :
                    /\ ~changed => here' = here
                    /\ Count(changed)
                    /\ writeNeeded' = (writeNeeded \/ (changed /\ ~item.volatile))
<1>1. UNCHANGED <<item, there, sent, known, silent>> /\ changeCnt < MaxCount
  BY DEF extractSelf
<1>2. CASE item.type \notin Extractable
  BY <1>1, <1>2 DEF extractSelf, RC_NO_TYPE, RC_SUCCESS
<1> DEFINE n == Needed(item)
<1>3. CASE item.type \in Extractable /\ Len(message) < n
  BY <1>1, <1>3 DEF extractSelf, RC_TOO_FEW, RC_SUCCESS
<1>4. CASE item.type \in Extractable /\ ~(Len(message) < n)
  <2>1. Returns(item, sent)
    BY <1>4, ComesBack DEF ItemInv
  <2>2. Inserted(item.type, sent) \in Seq(Anything) /\ Len(Inserted(item.type, sent)) = n
    BY <2>1 DEF Returns
  <2>3. n \in Nat
    BY <2>2
  <2>4. /\ SubSeq(message, 1, n) = Inserted(item.type, sent)
        /\ SubSeq(message, n + 1, Len(message)) = <<>>
    BY <1>4, <2>2, <2>3, RestWhole DEF ItemInv
  <2>5. Found(item.type, SubSeq(message, 1, n)) = sent
    BY <2>1, <2>4 DEF Returns
  <2> DEFINE changed == IsChange(item.type, here, sent)
  <2>6. /\ ret' = RC_SUCCESS /\ message' = <<>>
        /\ here' = IF changed THEN sent ELSE here
        /\ Count(changed)
        /\ writeNeeded' = (writeNeeded \/ (changed /\ ~item.volatile))
    BY <1>4, <2>4, <2>5 DEF extractSelf
  <2>7. ~changed => here = sent
    <3>1. HAVE ~changed
    <3>2. item.type \notin {"ht_int8", "ht_packed"} /\ here[1] = sent[1]
      BY <3>1 DEF IsChange, Differs
    <3>3. item.len = 1
      BY <3>2, ItemKinds DEF ItemInv
    <3>4. here = <<here[1]>> /\ sent = <<sent[1]>>
      BY <3>3, OneElement DEF ItemInv, Filled
    <3>5. QED
      BY <3>2, <3>4
  <2>8. changed \in BOOLEAN
    BY DEF IsChange, Differs
  <2> HIDE DEF changed
  <2>9. here' = sent /\ (~changed => here' = here)
    BY <2>6, <2>7
  <2>10. QED
    BY <1>1, <1>4, <2>6, <2>8, <2>9
<1>5. QED
  BY <1>2, <1>3, <1>4

LEMMA ItemInvInit == ItemInit => ItemInv
<1> SUFFICES ASSUME ItemInit PROVE ItemInv
  OBVIOUS
<1>1. item \in Declared \union Undeclared
  BY DEF ItemInit
<1>2. item.type \in Types
  BY <1>1, ItemKinds
<1>3. 0 \in Elements(item.type)
  BY <1>2, ElementsAre
<1>4. Numbers(item.type) \subseteq Elements(item.type)
  BY GivenAssumption DEF Numbers, Elements
<1>5. Filled(item, here) /\ Filled(item, there) /\ Filled(item, sent)
  BY <1>3, <1>4 DEF ItemInit, Filled
<1>6. Inserted(item.type, sent) \in Seq(Anything)
  BY <1>1, <1>5, InsertedTyped
<1>7. Rest(message, Inserted(item.type, sent))
  BY <1>6, RestEnds DEF ItemInit
<1>8. changeCnt \in 0 .. MaxCount /\ writeNeeded \in BOOLEAN /\ silent \in BOOLEAN
  <2>1. changeCnt = 0 /\ writeNeeded = FALSE /\ silent = FALSE
    BY DEF ItemInit
  <2>2. 0 \in 0 .. MaxCount
    BY BoundsAssumption
  <2>3. QED
    BY <2>1, <2>2
<1>9. QED
  BY <1>1, <1>5, <1>7, <1>8 DEF ItemInv

\* What a count of the change leaves of the counter's range.
LEMMA Counted ==
  ASSUME changeCnt \in 0 .. MaxCount, changeCnt < MaxCount, NEW changed \in BOOLEAN, Count(changed)
  PROVE  /\ changeCnt' \in 0 .. MaxCount
         /\ changeCnt' = changeCnt \/ changeCnt' = changeCnt + 1
         /\ changed /\ item.config => changeCnt' = changeCnt + 1
BY BoundsAssumption DEF Count

LEMMA SetKeeps ==
  ASSUME ItemInv, NEW from, NEW v, Brings(from, v), setValue(from, v)
  PROVE  ItemInv'
<1>1. item.type \in Types /\ 1 \in 1 .. item.len
  BY ItemKinds DEF ItemInv
<1>2. here[1] \in Elements(item.type)
  BY <1>1 DEF ItemInv, Filled
<1>3. PICK o \in Outcomes(from, v) :
        /\ here' = [here EXCEPT ![1] = o.raw]
        /\ \E changed \in Said(from, o.changed) : Count(changed)
  BY DEF setValue
<1>4. o.raw \in Elements(item.type)
  BY <1>1, <1>2, <1>3, Stored DEF Leaves
<1>5. Filled(item, here')
  BY <1>3, <1>4, Overwritten DEF ItemInv
<1>6. changeCnt' \in 0 .. MaxCount
  BY <1>3, BoundsAssumption DEF ItemInv, setValue, Count
<1>7. silent' \in BOOLEAN
  BY DEF ItemInv, setValue, Wrong
<1>8. QED
  BY <1>5, <1>6, <1>7 DEF ItemInv, setValue

LEMMA ItemInvStep == ItemInv /\ [ItemNext]_itemVars => ItemInv'
<1> SUFFICES ASSUME ItemInv, [ItemNext]_itemVars PROVE ItemInv'
  OBVIOUS
<1>0. Inserted(item.type, there) \in Seq(Anything) /\ Inserted(item.type, sent) \in Seq(Anything)
  BY InsertedTyped DEF ItemInv
<1>1. CASE FromUnsigned \/ FromSigned \/ FromReal
  BY <1>1, SetValues, SetKeeps
<1>2. CASE Read
  BY <1>2 DEF ItemInv, Read
<1>3. CASE Assign
  <2>1. Filled(item, here')
    BY <1>3, Assigned DEF ItemInv, Assign
  <2>2. silent' \in BOOLEAN
    BY <1>3 DEF ItemInv, Assign
  <2>3. QED
    BY <1>3, <2>1, <2>2 DEF ItemInv, Assign
<1>4. CASE insertSelf
  <2>1. Rest(message', Inserted(item.type, there))
    BY <1>0, <1>4, RestEnds DEF insertSelf
  <2>2. QED
    BY <1>4, <2>1 DEF ItemInv, insertSelf
<1>5. CASE Cut
  <2>1. Rest(message', Inserted(item.type, sent))
    BY <1>0, <1>5, RestCut DEF ItemInv, Cut
  <2>2. QED
    BY <1>5, <2>1 DEF ItemInv, Cut
<1>6. CASE extractSelf
  <2>1. CASE /\ message' \in {message, <<>>}
             /\ UNCHANGED <<item, there, sent, here, changeCnt, writeNeeded, silent>>
    <3>1. Rest(message', Inserted(item.type, sent))
      BY <1>0, <2>1, RestEnds DEF ItemInv
    <3>2. QED
      BY <2>1, <3>1 DEF ItemInv
  <2>2. CASE ret' = RC_SUCCESS
    <3>1. PICK changed \in BOOLEAN :
            /\ changeCnt < MaxCount /\ message' = <<>> /\ here' = sent
            /\ UNCHANGED <<item, there, sent, silent>>
            /\ Count(changed)
            /\ writeNeeded' = (writeNeeded \/ (changed /\ ~item.volatile))
      BY <1>6, <2>2, Extracted
    <3>2. Rest(message', Inserted(item.type, sent)) /\ changeCnt' \in 0 .. MaxCount
      BY <1>0, <3>1, RestEnds, Counted DEF ItemInv
    <3>3. writeNeeded' \in BOOLEAN
      BY <3>1, ItemKinds DEF ItemInv
    <3>4. QED
      BY <3>1, <3>2, <3>3 DEF ItemInv
  <2>3. QED
    BY <1>6, <2>1, <2>2, Extracted
<1>7. CASE UNCHANGED itemVars
  BY <1>7 DEF ItemInv, itemVars
<1>8. QED
  BY <1>1, <1>2, <1>3, <1>4, <1>5, <1>6, <1>7 DEF ItemNext

\* An item never holds more than its C variable can, whatever is set, assigned
\* or brought by a request (setValue(), dataEqual() and extractSelf() of
\* cDatabase.cpp).
THEOREM ItemTypes == ItemSpec => []TypeOK
<1>1. ItemInv => TypeOK
  <2>1. ASSUME ItemInv, NEW x \in {here, there}
        PROVE  /\ DOMAIN x = 1 .. item.len
               /\ \A i \in 1 .. item.len :
                    IF item.type \in Floating THEN x[i] = NaN \/ x[i] \in Int
                    ELSE x[i] \in 0 .. (Room(item.type) - 1)
    <3>1. x \in [1 .. item.len -> Elements(item.type)]
      BY <2>1 DEF ItemInv, Filled
    <3>2. \A i \in 1 .. item.len : x[i] \in Elements(item.type)
      BY <3>1
    <3>3. QED
      BY <3>1, <3>2 DEF Elements
  <2>2. QED
    BY <2>1 DEF TypeOK, ItemInv
<1>2. QED
  BY <1>1, ItemInvInit, ItemInvStep, PTL DEF ItemSpec

\* A request brings the whole of what was inserted, in the bytes of its type, or
\* leaves item, count and need to save alone (extractSelf() of cDatabase.cpp,
\* insertSelf() and InsertExtract.cpp).
THEOREM ItemsBroughtWhole == ItemSpec => BroughtWholeOrNot
<1> DEFINE Brought == extractSelf =>
              IF ret' = RC_SUCCESS
              THEN /\ here' = sent
                   /\ here' # here /\ ~item.volatile => writeNeeded'
              ELSE UNCHANGED <<here, changeCnt, writeNeeded>>
<1>1. ItemInv => Brought
  <2>1. SUFFICES ASSUME ItemInv, extractSelf
                 PROVE  IF ret' = RC_SUCCESS
                        THEN /\ here' = sent
                             /\ here' # here /\ ~item.volatile => writeNeeded'
                        ELSE UNCHANGED <<here, changeCnt, writeNeeded>>
    OBVIOUS
  <2>2. CASE ret' = RC_SUCCESS
    <3>1. PICK changed \in BOOLEAN :
            /\ here' = sent
            /\ ~changed => here' = here
            /\ writeNeeded' = (writeNeeded \/ (changed /\ ~item.volatile))
      BY <2>1, <2>2, Extracted
    <3>2. here' # here /\ ~item.volatile => writeNeeded'
      BY <3>1
    <3>3. QED
      BY <2>2, <3>1, <3>2
  <2>3. CASE ret' # RC_SUCCESS
    BY <2>1, <2>3, Extracted
  <2>4. QED
    BY <2>2, <2>3
<1>2. ItemSpec => []ItemInv
  BY ItemInvInit, ItemInvStep, PTL DEF ItemSpec
<1>3. ItemSpec => [][Brought]_itemVars
  BY <1>1, <1>2, PTL DEF ItemSpec
<1>4. QED
  BY <1>3 DEF BroughtWholeOrNot

\* What a host has read is what the item holds as long as the count is the same
\* and no call that tells nobody came between, and the item holds no more than the
\* bytes it is sent in.
NamesInv ==
  /\ known.cnt \in Int /\ known.cnt <= changeCnt
  /\ item.config => /\ Fits(item.type, here[1])
                    /\ ~silent /\ changeCnt = known.cnt => here = known.value

LEMMA NamesStep ==
  ASSUME ItemInv, NamesInv, [ItemNext]_itemVars
  PROVE  NamesInv'
<1>0. /\ changeCnt \in Int /\ item.type \in Types /\ item.config \in BOOLEAN
      /\ item.config => item.type # "ht_int24"
      /\ here[1] \in Elements(item.type) /\ sent[1] \in Elements(item.type)
      /\ 1 \in 1 .. item.len
  <2>1. /\ item.type \in Types /\ item.config \in BOOLEAN /\ 1 \in 1 .. item.len
        /\ item.config => item.type # "ht_int24"
    BY ItemKinds DEF ItemInv
  <2>2. QED
    BY <2>1 DEF ItemInv, Filled
<1>1. CASE FromUnsigned \/ FromSigned \/ FromReal
  <2>1. PICK from, v : Brings(from, v) /\ setValue(from, v)
    BY <1>1, SetValues
  <2>0. PICK o \in Outcomes(from, v) :
          /\ here' = [here EXCEPT ![1] = o.raw]
          /\ \E changed \in Said(from, o.changed) : Count(changed)
    BY <2>1 DEF setValue
  <2>2. PICK changed \in Said(from, o.changed) :
          here' = [here EXCEPT ![1] = o.raw] /\ Count(changed)
    BY <2>0
  <2>3. CASE item.config
    <3>1. o.raw \in Elements(item.type) /\ Fits(item.type, o.raw)
      <4>1. Leaves(item.type, o)
        BY <1>0, <2>1, <2>2, Stored
      <4>2. QED
        BY <1>0, <2>3, <4>1 DEF Leaves
    <3>2. here'[1] = o.raw
      BY <2>2, <3>1, Overwritten DEF ItemInv
    <3>3. UNCHANGED <<item, known>>
      BY <2>1 DEF setValue
    <3>4. /\ ~silent' => ~silent
          /\ Wrong(from) /\ here' # here => silent'
      BY <2>1, Zenon DEF setValue
    <3>5. changeCnt' = changeCnt \/ changeCnt' = changeCnt + 1
      BY <1>0, <2>2 DEF Count
    <3>6. CASE here' = here
      <4>1. known.cnt <= changeCnt' /\ (changeCnt' = known.cnt => changeCnt = known.cnt)
        BY <1>0, <3>5 DEF NamesInv
      <4>2. QED
        BY <2>3, <3>1, <3>2, <3>3, <3>6, <3>4, <4>1 DEF NamesInv
    <3>7. CASE Wrong(from) /\ here' # here
      <4>1. known.cnt <= changeCnt' /\ silent'
        BY <1>0, <3>5, <3>7, <3>4 DEF NamesInv
      <4>2. QED
        BY <2>3, <3>1, <3>2, <3>3, <4>1 DEF NamesInv
    <3>8. CASE ~Wrong(from) /\ here' # here
      <4>1. changed = o.changed
        BY <2>2, <3>8 DEF Wrong, Said
      <4>2. Tells(item.type, here[1], o)
        BY <1>0, <2>1, <2>2, <3>8, Stored DEF Wrong
      <4>3. ~o.changed => o.raw = here[1]
        BY <1>0, <2>3, <4>2 DEF Tells, NamesInv
      <4>4. ~o.changed => here' = here
        BY <1>0, <2>2, <4>3 DEF ItemInv, Filled
      <4>5. changeCnt' = changeCnt + 1
        BY <1>0, <2>2, <2>3, <3>8, <4>1, <4>4 DEF Count
      <4>6. QED
        BY <1>0, <2>3, <3>1, <3>2, <3>3, <4>5 DEF NamesInv
    <3>9. QED
      BY <3>6, <3>7, <3>8
  <2>4. CASE ~item.config
    <3>1. changeCnt' = changeCnt /\ UNCHANGED <<item, known>>
      BY <1>0, <2>1, <2>2, <2>4 DEF setValue, Count
    <3>2. QED
      BY <2>4, <3>1 DEF NamesInv
  <2>5. QED
    BY <2>3, <2>4
<1>2. CASE Read
  BY <1>0, <1>2 DEF NamesInv, Read
<1>3. CASE Assign
  <2>1. /\ here' = dataEqual(item.type, here, there)
        /\ silent' = (silent \/ here' # here)
        /\ UNCHANGED <<item, changeCnt, known>>
    BY <1>3 DEF Assign
  <2>2. Fits(item.type, here'[1])
    BY <2>1, Assigned DEF ItemInv
  <2>3. QED
    BY <1>0, <2>1, <2>2 DEF NamesInv
<1>4. CASE insertSelf
  BY <1>4 DEF NamesInv, insertSelf
<1>5. CASE Cut
  BY <1>5 DEF NamesInv, Cut
<1>6. CASE extractSelf
  <2>1. CASE UNCHANGED <<item, here, changeCnt, known, silent>>
    BY <2>1 DEF NamesInv
  <2>2. CASE ret' = RC_SUCCESS
    <3>1. PICK changed \in BOOLEAN :
            /\ item.type \in Extractable /\ here' = sent
            /\ ~changed => here' = here
            /\ Count(changed)
            /\ UNCHANGED <<item, known, silent>>
      BY <1>6, <2>2, Extracted
    <3>2. Fits(item.type, sent[1])
      <4>1. item.type \in {"ht_int8", "ht_int16", "ht_int32"} \union TextTypes \union Floating
        BY <3>1 DEF Extractable, TextTypes, Floating
      <4>2. QED
        BY <1>0, <4>1, ElementsAre
    <3>3. changeCnt' = changeCnt + IF changed /\ item.config THEN 1 ELSE 0
      BY <3>1 DEF Count
    <3>4. QED
      BY <1>0, <3>1, <3>2, <3>3 DEF NamesInv
  <2>3. QED
    BY <1>6, <2>1, <2>2, Extracted
<1>7. CASE UNCHANGED itemVars
  BY <1>7 DEF NamesInv, itemVars
<1>8. QED
  BY <1>1, <1>2, <1>3, <1>4, <1>5, <1>6, <1>7 DEF ItemNext

\* A host that finds the configuration change count it knows finds the value it
\* knows, whatever calls of setValue() and extractSelf() (cDatabase.cpp) came
\* between, but for an assignment and the three calls of `Wrong', which tell
\* nobody of the change they make.
THEOREM CountsNameValues == ItemSpec => []CountNamesValue
<1>1. ItemInit => NamesInv
  <2>1. SUFFICES ASSUME ItemInit PROVE NamesInv
    OBVIOUS
  <2>2. item.type \in Types /\ 1 \in 1 .. item.len
    BY <2>1, ItemKinds DEF ItemInit
  <2>3. here[1] = 0 /\ changeCnt = 0 /\ known = [cnt |-> 0, value |-> here]
        /\ silent = FALSE
    BY <2>1, <2>2 DEF ItemInit
  <2>4. Fits(item.type, 0)
    <3>1. item.type \in Whole => Wide[item.type] \in 0 .. 8
      BY Widths
    <3>2. QED
      BY <3>1, Ranges DEF Fits
  <2>5. QED
    BY <2>3, <2>4 DEF NamesInv
<1>2. ItemInv /\ NamesInv /\ [ItemNext]_itemVars => NamesInv'
  BY NamesStep
<1>3. NamesInv => CountNamesValue
  BY DEF NamesInv, CountNamesValue
<1>4. QED
  BY <1>1, <1>2, <1>3, ItemInvInit, ItemInvStep, PTL DEF ItemSpec
=============================================================================
