---------------------------- MODULE Configuration ----------------------------
(***************************************************************************)
(* The configuration of the device: NONvolatileData in memory, its copy in *)
(* the configuration file, and the commands a host writes it with.  A      *)
(* command that changes the configuration bumps configChangeCnt and asks   *)
(* for a save; handle_device_message() saves before it answers.  A host    *)
(* keeps what it read beside the counter, and trusts it while the counter  *)
(* has not moved.  SIGINT saves memory as it is, also from the middle of a *)
(* handler, of a load or of the filling with defaults, and ends the        *)
(* program.                                                                *)
(*                                                                         *)
(* One burst message of the three stands for the burst part.  Values are   *)
(* in standard units, so the conversions of Units.cpp are left out.        *)
(***************************************************************************)
EXTENDS BurstStep

CONSTANTS
  Items,        \* message, tag, long tag, ...: items a command stores whole
  Texts,        \* what they may hold
  FactoryText,
  EmptyText,    \* what one holds before the file is loaded or filled
  PollAddrs,    \* poll addresses a host sends, beyond 63 too
  LoopModes,    \* loop current modes a host sends, beyond 1 too
  DevVars,      \* the slots of devVarPtr() with a variable of their own: 3 is
                \* the unsupported variable, 244 the percent range
  Slots,        \* the slots a host sends
  UnitCodes,    \* the unit codes a host sends
  UnitSet,      \* UnitSet[d]: the unit codes of device variable d
  FactoryUnit,
  RangeValues,  \* range values a host sends
  LSL, USL,     \* the sensor limits of the PV
  minSpan,
  RawTimes,     \* update periods a host sends
  TriggerModes, ControlCodes, BurstCmds, \* burst settings a host sends
  FactoryPeriod, FactoryMaxPer,
  MaxCnt        \* bound on configChangeCnt, 16 bits in the code

ASSUME ItemAssumption == /\ FactoryText \in Texts /\ EmptyText \in Texts
                         /\ PollAddrs \subseteq 0 .. 255
                         /\ LoopModes \subseteq 0 .. 255

ASSUME VariableAssumption == /\ {0, 3, 244} \subseteq DevVars
                             /\ DevVars \subseteq 0 .. 249
                             /\ Slots \subseteq 0 .. 255

ASSUME UnitAssumption == /\ UnitCodes \subseteq 0 .. 255
                         /\ FactoryUnit \in 0 .. 255

ASSUME UnitSetAssumption == UnitSet \in [DevVars -> SUBSET (0 .. 255)]

ASSUME RangeAssumption == /\ LSL \in Int /\ USL \in Int /\ minSpan \in Int
                          /\ RangeValues \subseteq Int

ASSUME BurstAssumption == /\ RawTimes \subseteq Nat /\ BurstCmds \subseteq Nat
                          /\ TriggerModes \subseteq 0 .. 255
                          /\ ControlCodes \subseteq 0 .. 255

ASSUME FactoryAssumption == FactoryPeriod \in Nat /\ FactoryMaxPer \in Nat

ASSUME CounterAssumption == MaxCnt \in Nat /\ 1 <= MaxCnt /\ MaxCnt <= 65535

VARIABLES
  nv,          \* NONvolatileData
  file,        \* the configuration file: its state, and NONvolatileData in it
  writeNeeded,
  pc,          \* "down" | "fill" | "load" | "idle" | "bump" | "save" | "reply"
               \* | "cut", when SIGINT has come in the middle of a change
  bumps,       \* calls of bumpConfigCnt() the handler has still to make
  rc,          \* "none" | "accepted", with a warning or not | "refused"
  cache,       \* a configuration a host has read, with its counter
  lost         \* whether a write has failed, or SIGINT has saved half a
               \* change or one without its count

vars == <<nv, file, writeNeeded, pc, bumps, rc, cache, lost>>

HART_NOT_USED == 250

SupportedBurstCmds == {1, 2, 3, 9, 38, 48}

\* FillDefaultValues(), with the first burst message.
Factory == [pollAddr |-> 0, loopCurrentMode |-> 0,
            item |-> [i \in Items |-> FactoryText],
            Units |-> [d \in DevVars |-> FactoryUnit],
            rangeValueUnits |-> FactoryUnit,
            upperRangeValue |-> USL, lowerRangeValue |-> LSL,
            Period |-> FactoryPeriod, MaxPer |-> FactoryMaxPer,
            CmdNum |-> 9, Cntrl |-> 4, TrMode |-> 0, TrClas |-> 0,
            TrUnit |-> HART_NOT_USED, Idx0 |-> 0,
            configChangeCnt |-> 1]

\* Memory before the file is loaded or filled: zero, but for what the burst
\* messages write when they are constructed.
Blank == [pollAddr |-> 0, loopCurrentMode |-> 0,
          item |-> [i \in Items |-> EmptyText],
          Units |-> [d \in DevVars |-> 0],
          rangeValueUnits |-> 0, upperRangeValue |-> 0, lowerRangeValue |-> 0,
          Period |-> 0, MaxPer |-> 0,
          CmdNum |-> 255, Cntrl |-> 0, TrMode |-> 0, TrClas |-> 0,
          TrUnit |-> HART_NOT_USED, Idx0 |-> HART_NOT_USED,
          configChangeCnt |-> 0]

\* The first k parts of c on blank memory, an array as one part, in the order in
\* which FillDefaultValues() writes them; the file has the units of the range
\* behind its values.
Partly(c, k) ==
  LET upTo(n, part) == IF n <= k THEN c[part] ELSE Blank[part]
  IN  [configChangeCnt |-> upTo(1, "configChangeCnt"),
       loopCurrentMode |-> upTo(2, "loopCurrentMode"),
       pollAddr        |-> upTo(3, "pollAddr"),
       item            |-> upTo(4, "item"),
       rangeValueUnits |-> upTo(5, "rangeValueUnits"),
       Units           |-> upTo(6, "Units"),
       upperRangeValue |-> upTo(7, "upperRangeValue"),
       lowerRangeValue |-> upTo(8, "lowerRangeValue"),
       CmdNum |-> upTo(9, "CmdNum"),   Cntrl  |-> upTo(10, "Cntrl"),
       Period |-> upTo(11, "Period"),  MaxPer |-> upTo(12, "MaxPer"),
       TrMode |-> upTo(13, "TrMode"),  TrClas |-> upTo(14, "TrClas"),
       TrUnit |-> upTo(15, "TrUnit"),  Idx0   |-> upTo(16, "Idx0")]

\* Command 6 clears the first two before it has a value for them, and command
\* 105, which only reads, writes the third.
Unsteady == {"pollAddr", "loopCurrentMode", "TrUnit"}

\* The rest: what the counter vouches for, and the counter.
Steady(c) == [part \in DOMAIN c \ Unsteady |-> c[part]]

Init == /\ nv = Factory
        /\ file = [state |-> "missing", data |-> Factory]
        /\ writeNeeded = FALSE
        /\ pc = "down"
        /\ bumps = 0
        /\ rc = "none"
        /\ cache = Steady(Factory)
        /\ lost = FALSE
-----------------------------------------------------------------------------
(* The configuration file. *)

full(c) == [state |-> "full", data |-> c]

\* Writing c to the file.  A write that fails leaves a full file as it was; of
\* an empty one it may make a short one, which Open_File() refuses for ever.
Write(ok, c) ==
  IF ok /\ file.state # "short"
  THEN file' = full(c)
  ELSE \/ UNCHANGED file
       \/ file.state = "empty" /\ file' = [file EXCEPT !.state = "short"]

\* putData().
Put(ok, c) == Write(ok, c) /\ lost' = (lost \/ ~ok \/ file.state = "short")

\* NativeData::configure() finds no file: make_file() makes an empty one ...
MakeFile == /\ pc = "down"
            /\ file.state = "missing"
            /\ file' = [file EXCEPT !.state = "empty"]
            /\ pc' = "fill"
            /\ UNCHANGED <<nv, writeNeeded, bumps, rc, cache, lost>>

\* ... or an empty one that an earlier start has left ...
FindEmpty == /\ pc = "down"
             /\ file.state = "empty"
             /\ pc' = "fill"
             /\ UNCHANGED <<nv, file, writeNeeded, bumps, rc, cache, lost>>

\* ... and fills it with the factory's values.  The result of putData() is
\* ignored.
Fill(ok) == /\ pc = "fill"
            /\ nv' = Factory
            /\ Put(ok, Factory)
            /\ pc' = "idle"
            /\ writeNeeded' = FALSE
            /\ UNCHANGED <<bumps, rc, cache>>

\* Load when the burst messages are constructed after the file is read: the
\* constructor clears what they are bound to.
Load_BeforeConstruction ==
  /\ pc = "down"
  /\ file.state = "full"
  /\ nv' = [file.data EXCEPT !.Cntrl = 0]
  /\ pc' = "load"
  /\ UNCHANGED <<file, writeNeeded, bumps, rc, cache, lost>>

\* A whole file is loaded, over blank memory: `nv' is what fread() brings ...
Load == /\ pc = "down"
        /\ file.state = "full"
        /\ nv' = file.data
        /\ pc' = "load"
        /\ UNCHANGED <<file, writeNeeded, bumps, rc, cache, lost>>

\* ... and has brought.
Loaded == /\ pc = "load"
          /\ pc' = "idle"
          /\ UNCHANGED <<nv, file, writeNeeded, bumps, rc, cache, lost>>

\* make_file() fails, or the file is too short to load: the program ends.
StartFails == /\ pc = "down"
              /\ file.state \in {"missing", "short"}
              /\ UNCHANGED vars

Down == /\ pc' = "down"
        /\ nv' = Factory
        /\ writeNeeded' = FALSE
        /\ bumps' = 0
        /\ rc' = "none"

\* The process ends with no chance to save.
Crash == /\ pc # "down"
         /\ Down
         /\ UNCHANGED <<file, cache, lost>>

\* handle_sigint() in the middle of the filling or of the load: memory is as
\* far as either has come.
CutStart == /\ pc \in {"fill", "load"}
            /\ \E k \in 0 .. 16 : nv' = Partly(nv, k)
            /\ pc' = "cut"
            /\ UNCHANGED <<file, writeNeeded, bumps, rc, cache, lost>>

\* handle_sigint(): cleanup() saves whatever the interrupted code left, in the
\* middle of a change half of it or all of it without its count.  Before
\* configure() has opened the file nothing is saved.
Sigint(ok) == /\ pc \in {"idle", "bump", "save", "reply", "cut"}
              /\ \/ pc # "cut" /\ bumps = 0 /\ Put(ok, nv)
                 \/ (pc = "cut" \/ bumps > 0) /\ Write(ok, nv) /\ lost' = TRUE
              /\ Down
              /\ UNCHANGED cache
-----------------------------------------------------------------------------
(* The handlers, one command at a time.  A handler writes the configuration,
   bumps the counter, and leaves the save to handle_device_message(). *)

Handle(c, n, needed, code) ==
  /\ pc = "idle"
  /\ nv.configChangeCnt + n <= MaxCnt
  /\ nv' = c
  /\ bumps' = n
  /\ writeNeeded' = (writeNeeded \/ needed)
  /\ rc' = code
  /\ pc' = "bump"
  /\ UNCHANGED <<file, cache, lost>>

Accept(c, n) == Handle(c, n, n > 0, "accepted")
Refuse == Handle(nv, 0, FALSE, "refused")

Count(changed) == IF changed THEN 1 ELSE 0

\* A command that writes the configuration, with too little data; command 6
\* is not one of these.
TooFew == Refuse

\* Commands 17, 18, 19, 22, 513 and 521.  extractSelf() counts a byte array
\* as changed whatever it held.
StoreItem(i, t) == Accept([nv EXCEPT !.item[i] = t], 1)

\* Command 6 with no, one or two bytes.  Its local items pa and lcm are
\* assigned from items bound to the same bytes, and dataEqual() clears the
\* destination before it reads the source: both bytes are 0 from then on
\* unless the data sets them, and what the data sets stays when it is refused.
Cmd06(data) ==
  LET p  == IF Len(data) > 0 THEN data[1] ELSE 0
      l  == IF Len(data) > 1 THEN data[2] ELSE 0
      ok == Len(data) > 0 /\ p <= 63 /\ l \in {0, 1}
  IN  Handle([nv EXCEPT !.pollAddr = p, !.loopCurrentMode = l],
             Count(ok), Len(data) > 0, IF ok THEN "accepted" ELSE "refused")

\* Command 44, the units of the PV.
Cmd44(u) == \/ u \notin UnitSet[0] /\ Refuse
            \/ /\ u \in UnitSet[0]
               /\ Accept([nv EXCEPT !.Units[0] = u], Count(u # nv.Units[0]))

\* The unit codes command 53 turns down: those of the expansion codes and the
\* reserved ones.  It does not ask the variable's own list.
BadUnit(u) == u \in 170 .. 219 \/ u >= 250

\* Command 53, the units of any device variable.
Cmd53(d, u) == \/ (BadUnit(u) \/ d \notin DevVars) /\ Refuse
               \/ /\ ~BadUnit(u) /\ d \in DevVars
                  /\ Accept([nv EXCEPT !.Units[d] = u], 1)

Ranged(u, hi, lo) == [nv EXCEPT !.rangeValueUnits = u,
                                !.upperRangeValue = hi,
                                !.lowerRangeValue = lo]

InSensorLimits(u, hi, lo) == /\ u \in UnitSet[0]
                             /\ hi \in LSL .. USL /\ lo \in LSL .. USL

TooNarrow(hi, lo) == hi - lo < minSpan /\ lo - hi < minSpan

\* Command 35 that leaves the count to extractData(), which does not make one
\* beside the warning.
Cmd35_CountsOnce(u, hi, lo) ==
  \/ ~InSensorLimits(u, hi, lo) /\ Refuse
  \/ /\ InSensorLimits(u, hi, lo)
     /\ Accept(Ranged(u, hi, lo), Count(~TooNarrow(hi, lo)))

\* Command 35, the range of the PV.  checkNsetValues() counts a change;
\* extractData() counts the command once more, except beside the warning that
\* the range is narrower than the minimum span.
Cmd35(u, hi, lo) ==
  \/ ~InSensorLimits(u, hi, lo) /\ Refuse
  \/ /\ InSensorLimits(u, hi, lo)
     /\ Accept(Ranged(u, hi, lo), Count(Ranged(u, hi, lo) # nv)
                                    + Count(~TooNarrow(hi, lo)))

\* Command 103.  What counts is whether the host's times differ, not the ones
\* they are settled to.
Cmd103(p, m) ==
  LET r == stepTimes(p, m)
  IN  Accept([nv EXCEPT !.Period = r.Period, !.MaxPer = r.MaxPer],
             Count(p # nv.Period \/ m # nv.MaxPer))

\* The device variable the trigger of the burst message watches.  For command 2
\* the index of the percent range is taken for its slot.
TriggerVar == CASE nv.CmdNum \in {1, 3} -> 0
                [] nv.CmdNum = 2 -> 3
                [] OTHER -> nv.Idx0

HasTriggerVar == nv.CmdNum \in {1, 2, 3, 9} /\ TriggerVar \in DevVars

\* The trigger mode and units command 104 may be given; inLimits tells whether
\* the level of a window, rising or falling trigger is inside the sensor's
\* limits.  A message that publishes no command (255) may be given any mode, one
\* whose command is no burst command (0) none.
GoodTrigger(md, u, inLimits) ==
  /\ nv.CmdNum # 0
  /\ \/ md = 0
     \/ md = 4 /\ (HasTriggerVar \/ (nv.CmdNum # 9 /\ u = HART_NOT_USED))
     \/ /\ md \in 1 .. 3
        /\ HasTriggerVar
        /\ u \in UnitSet[TriggerVar]
        /\ TriggerVar \in {0, 1} => inLimits
     \/ nv.CmdNum = 255 /\ u = HART_NOT_USED

\* The message after command 104: a continuous one has its trigger reset, one
\* of command 2 has its level in percent.
Triggered(md, u) ==
  [nv EXCEPT !.TrMode = md,
             !.TrClas = 0,
             !.TrUnit = CASE nv.CmdNum = 2 -> 57
                          [] md = 0 /\ nv.CmdNum # 2 -> HART_NOT_USED
                          [] OTHER -> u]

\* Command 104 on the message itself, without the temporary copy.
Cmd104_InPlace(md, class, u, inLimits) ==
  LET early == Count(md \notin {0, 4})
      good  == GoodTrigger(md, u, inLimits) /\ (class = 0 \/ md = 0)
  IN  Handle(Triggered(md, u), IF good THEN early + 1 ELSE 0, TRUE,
             IF good THEN "accepted" ELSE "refused")

\* Command 104, the trigger.  It is extracted into a temporary message, which
\* asks for a save even when it is then refused; a window, rising or falling
\* trigger is counted before the classification refuses it.
Cmd104(md, class, u, inLimits) ==
  LET early == Count(md \notin {0, 4})
  IN  \/ ~GoodTrigger(md, u, inLimits) /\ Handle(nv, 0, TRUE, "refused")
      \/ /\ GoodTrigger(md, u, inLimits)
         /\ class # 0 /\ md # 0
         /\ Handle(nv, early, TRUE, "refused")
      \/ /\ GoodTrigger(md, u, inLimits)
         /\ class = 0 \/ md = 0
         /\ Handle(Triggered(md, u), early + 1, TRUE, "accepted")

\* getBurstUnit().
BurstUnit == CASE nv.CmdNum \in {1, 3} -> nv.Units[0]
               [] nv.CmdNum = 2 -> nv.Units[244]
               [] nv.CmdNum = 9 /\ nv.Idx0 <= 2 -> nv.Units[nv.Idx0]
               [] OTHER -> HART_NOT_USED

\* Command 105 reads the burst message, and writes its trigger units.
Cmd105 == Accept([nv EXCEPT !.TrUnit = BurstUnit], 0)

\* Command 107, the device variables command 9 publishes; the first one.
Cmd107(s) == \/ s \notin DevVars /\ Refuse
             \/ s \in DevVars /\ Accept([nv EXCEPT !.Idx0 = s], 1)

\* Command 108 that stores the command before it asks for support.
Cmd108_Unasked(legacy, c) == Accept([nv EXCEPT !.CmdNum = c], 1)

\* Command 108, the command to publish.  A trigger whose classification does
\* not go with it is reset, and then only a legacy host's change is counted.
Cmd108(legacy, c) ==
  \/ c \notin SupportedBurstCmds /\ Refuse
  \/ LET resets == nv.TrClas # 0 /\ nv.TrMode # 0
         stored == [nv EXCEPT !.CmdNum = c]
     IN  /\ c \in SupportedBurstCmds
         /\ Accept(IF resets
                   THEN [stored EXCEPT !.TrMode = 0, !.TrUnit = HART_NOT_USED,
                                       !.TrClas = 0]
                   ELSE stored,
                   Count(~resets \/ legacy))

\* Command 109, on and off.
Cmd109(c) == \/ c > 4 /\ Refuse
             \/ /\ c <= 4
                /\ Accept([nv EXCEPT !.Cntrl = c], Count(c # nv.Cntrl))
-----------------------------------------------------------------------------
(* A handler that SIGINT cuts short.  A value is stored at once, an array byte
   by byte, but dataEqual() clears what it assigns to first; nothing of it is
   counted yet. *)

Cut(c) == /\ pc = "idle"
          /\ nv' = c
          /\ pc' = "cut"
          /\ UNCHANGED <<file, writeNeeded, bumps, rc, cache, lost>>

\* Command 6 clears both bytes, then takes what it is sent one by one.
Cut06 == \/ Cut([nv EXCEPT !.pollAddr = 0])
         \/ \E p \in PollAddrs \union {0} :
              Cut([nv EXCEPT !.pollAddr = p, !.loopCurrentMode = 0])

\* Commands 44 and 53.
CutUnits(d, u) == /\ \/ d = 0 /\ u \in UnitSet[0]
                     \/ d \in DevVars /\ ~BadUnit(u)
                  /\ Cut([nv EXCEPT !.Units[d] = u])

Cut35(u, hi, lo) == /\ InSensorLimits(u, hi, lo)
                    /\ \/ Cut([nv EXCEPT !.upperRangeValue = hi])
                       \/ Cut([nv EXCEPT !.upperRangeValue = hi,
                                         !.lowerRangeValue = lo])
                       \/ Cut(Ranged(u, hi, lo))

\* Command 103 stores the host's times before it settles them.
Cut103(p, m) ==
  LET r == stepTimes(p, m)
  IN  \/ Cut([nv EXCEPT !.Period = p])
      \/ \E x \in {p, IF p > m THEN m ELSE p, r.Period}, y \in {m, r.MaxPer} :
           Cut([nv EXCEPT !.Period = x, !.MaxPer = y])

\* Command 104 assigns the message from its temporary copy, part by part.
Cut104(md, u, inLimits) ==
  /\ GoodTrigger(md, u, inLimits)
  /\ \/ \E part \in {"CmdNum", "Cntrl", "Period", "MaxPer", "TrMode"} :
          Cut([nv EXCEPT ![part] = 0])
     \/ Cut([nv EXCEPT !.TrMode = md, !.TrUnit = 0])
     \/ Cut([Triggered(md, u) EXCEPT !.Idx0 = 0])

\* Commands 17 to 22, 513 and 521; 105; and 107, 108 and 109, which set one value.
CutOther ==
  \/ \E i \in Items, t \in Texts : Cut([nv EXCEPT !.item[i] = t])
  \/ Cut([nv EXCEPT !.TrUnit = 0])
  \/ \E s \in Slots \intersect DevVars : Cut([nv EXCEPT !.Idx0 = s])
  \/ \E c \in BurstCmds \intersect SupportedBurstCmds : Cut([nv EXCEPT !.CmdNum = c])
  \/ \E c \in ControlCodes \intersect (0 .. 4) : Cut([nv EXCEPT !.Cntrl = c])

CutCommand ==
  \/ Cut06 \/ CutOther
  \/ \E d \in Slots \union {0}, u \in UnitCodes : CutUnits(d, u)
  \/ \E u \in UnitCodes, hi, lo \in RangeValues : Cut35(u, hi, lo)
  \/ \E p, m \in RawTimes : Cut103(p, m)
  \/ \E md \in TriggerModes, u \in UnitCodes, inLimits \in BOOLEAN :
       Cut104(md, u, inLimits)
-----------------------------------------------------------------------------
(* The end of a handler, and handle_device_message() around it. *)

\* bumpConfigCnt().
Bump == /\ pc = "bump"
        /\ nv' = [nv EXCEPT !.configChangeCnt = @ + bumps]
        /\ writeNeeded' = (writeNeeded \/ bumps > 0)
        /\ bumps' = 0
        /\ pc' = "save"
        /\ UNCHANGED <<file, rc, cache, lost>>

\* Save after accepted commands only.
Save_IfAccepted(ok) ==
  /\ pc = "save"
  /\ IF writeNeeded /\ rc = "accepted" THEN Put(ok, nv)
                                       ELSE UNCHANGED <<file, lost>>
  /\ writeNeeded' = FALSE
  /\ pc' = "reply"
  /\ UNCHANGED <<nv, bumps, rc, cache>>

\* putData() forgets what is needed whether or not it could write, and its
\* result is ignored.
Save(ok) == /\ pc = "save"
            /\ IF writeNeeded THEN Put(ok, nv) ELSE UNCHANGED <<file, lost>>
            /\ writeNeeded' = FALSE
            /\ pc' = "reply"
            /\ UNCHANGED <<nv, bumps, rc, cache>>

\* The reply; a host may have read all of the configuration by then.
Reply == /\ pc = "reply"
         /\ cache' \in {cache, Steady(nv)}
         /\ pc' = "idle"
         /\ rc' = "none"
         /\ UNCHANGED <<nv, file, writeNeeded, bumps, lost>>
-----------------------------------------------------------------------------
Cmd06Data == {<<>>} \union {<<p>> : p \in PollAddrs}
                    \union (PollAddrs \X LoopModes)

DeviceCommand == \/ TooFew
                 \/ \E i \in Items, t \in Texts : StoreItem(i, t)
                 \/ \E data \in Cmd06Data : Cmd06(data)
                 \/ \E u \in UnitCodes : Cmd44(u)
                 \/ \E d \in Slots, u \in UnitCodes : Cmd53(d, u)
                 \/ \E u \in UnitCodes, hi, lo \in RangeValues :
                      Cmd35(u, hi, lo)

BurstCommand == \/ \E p, m \in RawTimes : Cmd103(p, m)
                \/ \E md \in TriggerModes, class \in {0, 1}, u \in UnitCodes,
                      inLimits \in BOOLEAN : Cmd104(md, class, u, inLimits)
                \/ Cmd105
                \/ \E s \in Slots : Cmd107(s)
                \/ \E legacy \in BOOLEAN, c \in BurstCmds : Cmd108(legacy, c)
                \/ \E c \in ControlCodes : Cmd109(c)

Process == \/ MakeFile \/ FindEmpty \/ Load \/ Loaded \/ StartFails
           \/ CutStart \/ CutCommand \/ Crash
           \/ \E ok \in BOOLEAN : Fill(ok) \/ Sigint(ok) \/ Save(ok)
           \/ Bump \/ Reply

Next == Process \/ DeviceCommand \/ BurstCommand

Spec == Init /\ [][Next]_vars
-----------------------------------------------------------------------------
Configurations ==
  [pollAddr : 0 .. 255, loopCurrentMode : 0 .. 255,
   item : [Items -> Texts], Units : [DevVars -> 0 .. 255],
   rangeValueUnits : 0 .. 255, upperRangeValue : Int, lowerRangeValue : Int,
   Period : Nat, MaxPer : Nat, CmdNum : SupportedBurstCmds \union {0, 255},
   Cntrl : 0 .. 4, TrMode : 0 .. 255, TrClas : {0}, TrUnit : 0 .. 255,
   Idx0 : DevVars \union {HART_NOT_USED}, configChangeCnt : 0 .. MaxCnt]

\* The types, with what the handlers take for granted of a configuration: no
\* trigger is classified, no index leads out of devVarPtr(), the counter never
\* passes its width, and the burst command is a supported one or, in a memory
\* that was saved by halves, one of two others.
TypeOK == /\ nv \in Configurations
          /\ file \in [state : {"missing", "empty", "short", "full"},
                       data : Configurations]
          /\ writeNeeded \in BOOLEAN
          /\ pc \in {"down", "fill", "load", "idle", "bump", "save", "reply", "cut"}
          /\ bumps \in 0 .. 2
          /\ rc \in {"none", "accepted", "refused"}
          /\ cache.configChangeCnt \in 0 .. MaxCnt
          /\ lost \in BOOLEAN

\* A host that finds the counter where it was when it read the configuration
\* may go on trusting what it read, across any commands, crashes and restarts.
\* The code behind it: every handler that changes something calls
\* bumpConfigCnt(), and the count is saved before the reply.
CounterNamesConfiguration ==
  pc = "idle" /\ ~lost /\ cache.configChangeCnt = nv.configChangeCnt
    => cache = Steady(nv)

\* When the device answers, and until the next command, the file holds the
\* configuration it works with and its counter: handle_device_message() saves
\* before the reply, after a refusal too.
SavedIsCurrent ==
  pc \in {"idle", "reply"} /\ ~lost
    => file.state = "full" /\ Steady(file.data) = Steady(nv)

\* A command that is refused has changed nothing the counter vouches for: the
\* handlers check before they store, or store into a temporary.
RefusedKeeps ==
  [][pc = "idle" /\ pc' = "bump" /\ rc' = "refused"
       => Steady(nv') = Steady(nv)]_vars

Store == INSTANCE ConfigStore
           WITH up <- pc # "down",
                mem <- nv,
                kept <- file.data,
                Values <- Configurations,
                Default <- Factory

\* The device starts with the configuration the file kept, whole, and the file
\* keeps only what the device has in memory, which after SIGINT may be half a
\* change: creating, filling, loading and saving the file implement ConfigStore
\* under crashes, failed writes and SIGINT.
KeepsConfiguration == Store!Spec
=============================================================================
