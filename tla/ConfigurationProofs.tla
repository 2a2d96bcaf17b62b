------------------------- MODULE ConfigurationProofs -------------------------
(***************************************************************************)
(* The properties of Configuration, for every set of items, variables,     *)
(* units and times, every bound of the counter, and any number of crashes, *)
(* restarts, failed writes and SIGINTs in the middle of a handler.         *)
(***************************************************************************)
EXTENDS Configuration, BurstStepProofs

-----------------------------------------------------------------------------
(* Configurations. *)

\* Counts are whole numbers.
LEMMA CountsAreInts ==
  /\ 0 \in 0 .. MaxCnt /\ 1 \in 0 .. MaxCnt
  /\ \A k \in 0 .. MaxCnt : k \in Int
BY SMT, CounterAssumption

\* The factory's configuration is one.
LEMMA FactoryIsConfiguration == Factory \in Configurations
<1>1. /\ Factory.item \in [Items -> Texts]
      /\ Factory.Units \in [DevVars -> 0 .. 255]
  BY ItemAssumption, UnitAssumption DEF Factory
<1>2. /\ Factory.upperRangeValue \in Int /\ Factory.lowerRangeValue \in Int
      /\ Factory.Period \in Nat /\ Factory.MaxPer \in Nat
  BY RangeAssumption, FactoryAssumption DEF Factory
<1>3. Factory.rangeValueUnits \in 0 .. 255 /\ Factory.Idx0 \in DevVars \union {HART_NOT_USED}
  BY VariableAssumption, UnitAssumption DEF Factory
<1>4. /\ Factory.pollAddr \in 0 .. 255 /\ Factory.loopCurrentMode \in 0 .. 255
      /\ Factory.Cntrl \in 0 .. 4 /\ Factory.TrMode \in 0 .. 255
      /\ Factory.TrUnit \in 0 .. 255
  BY SMT DEF Factory, HART_NOT_USED
<1>5. /\ Factory.CmdNum \in SupportedBurstCmds \union {0, 255} /\ Factory.TrClas \in {0}
  BY DEF Factory, SupportedBurstCmds
<1>6. Factory.configChangeCnt \in 0 .. MaxCnt
  <2>1. 1 \in 0 .. MaxCnt
    BY CountsAreInts
  <2> QED
    BY <2>1 DEF Factory
<1>7. Factory = [pollAddr |-> Factory.pollAddr,
                 loopCurrentMode |-> Factory.loopCurrentMode,
                 item |-> Factory.item, Units |-> Factory.Units,
                 rangeValueUnits |-> Factory.rangeValueUnits,
                 upperRangeValue |-> Factory.upperRangeValue,
                 lowerRangeValue |-> Factory.lowerRangeValue,
                 Period |-> Factory.Period, MaxPer |-> Factory.MaxPer,
                 CmdNum |-> Factory.CmdNum, Cntrl |-> Factory.Cntrl,
                 TrMode |-> Factory.TrMode, TrClas |-> Factory.TrClas,
                 TrUnit |-> Factory.TrUnit, Idx0 |-> Factory.Idx0,
                 configChangeCnt |-> Factory.configChangeCnt]
  BY DEF Factory
<1> QED
  BY <1>1, <1>2, <1>3, <1>4, <1>5, <1>6, <1>7 DEF Configurations

\* So is blank memory, and so is one that has been filled in part.
LEMMA BlankIsConfiguration == Blank \in Configurations
<1>1. /\ Blank.item \in [Items -> Texts]
      /\ Blank.Units \in [DevVars -> 0 .. 255]
  <2>1. 0 \in 0 .. 255
    BY SMT
  <2> QED
    BY <2>1, ItemAssumption DEF Blank
<1>2. /\ Blank.upperRangeValue \in Int /\ Blank.lowerRangeValue \in Int
      /\ Blank.Period \in Nat /\ Blank.MaxPer \in Nat
  BY SMT DEF Blank
<1>3. /\ Blank.pollAddr \in 0 .. 255 /\ Blank.loopCurrentMode \in 0 .. 255
      /\ Blank.rangeValueUnits \in 0 .. 255
      /\ Blank.Cntrl \in 0 .. 4 /\ Blank.TrMode \in 0 .. 255
      /\ Blank.TrUnit \in 0 .. 255
  BY SMT DEF Blank, HART_NOT_USED
<1>4. /\ Blank.CmdNum \in SupportedBurstCmds \union {0, 255}
      /\ Blank.TrClas \in {0} /\ Blank.Idx0 \in DevVars \union {HART_NOT_USED}
  BY DEF Blank
<1>5. Blank.configChangeCnt \in 0 .. MaxCnt
  <2>1. 0 \in 0 .. MaxCnt
    BY CountsAreInts
  <2> QED
    BY <2>1 DEF Blank
<1>6. Blank = [pollAddr |-> Blank.pollAddr,
               loopCurrentMode |-> Blank.loopCurrentMode,
               item |-> Blank.item, Units |-> Blank.Units,
               rangeValueUnits |-> Blank.rangeValueUnits,
               upperRangeValue |-> Blank.upperRangeValue,
               lowerRangeValue |-> Blank.lowerRangeValue,
               Period |-> Blank.Period, MaxPer |-> Blank.MaxPer,
               CmdNum |-> Blank.CmdNum, Cntrl |-> Blank.Cntrl,
               TrMode |-> Blank.TrMode, TrClas |-> Blank.TrClas,
               TrUnit |-> Blank.TrUnit, Idx0 |-> Blank.Idx0,
               configChangeCnt |-> Blank.configChangeCnt]
  BY DEF Blank
<1> QED
  BY <1>1, <1>2, <1>3, <1>4, <1>5, <1>6 DEF Configurations

LEMMA PartlyIsConfiguration ==
  ASSUME NEW c \in Configurations, NEW k \in 0 .. 16
  PROVE  Partly(c, k) \in Configurations
<1> DEFINE q == Partly(c, k)
<1>1. /\ q.pollAddr \in {c.pollAddr, Blank.pollAddr}
      /\ q.loopCurrentMode \in {c.loopCurrentMode, Blank.loopCurrentMode}
      /\ q.item \in {c.item, Blank.item}
      /\ q.Units \in {c.Units, Blank.Units}
      /\ q.rangeValueUnits \in {c.rangeValueUnits, Blank.rangeValueUnits}
      /\ q.upperRangeValue \in {c.upperRangeValue, Blank.upperRangeValue}
      /\ q.lowerRangeValue \in {c.lowerRangeValue, Blank.lowerRangeValue}
      /\ q.Period \in {c.Period, Blank.Period}
  BY Zenon DEF Partly
<1>2. /\ q.MaxPer \in {c.MaxPer, Blank.MaxPer}
      /\ q.CmdNum \in {c.CmdNum, Blank.CmdNum}
      /\ q.Cntrl \in {c.Cntrl, Blank.Cntrl}
      /\ q.TrMode \in {c.TrMode, Blank.TrMode}
      /\ q.TrClas \in {c.TrClas, Blank.TrClas}
      /\ q.TrUnit \in {c.TrUnit, Blank.TrUnit}
      /\ q.Idx0 \in {c.Idx0, Blank.Idx0}
      /\ q.configChangeCnt \in {c.configChangeCnt, Blank.configChangeCnt}
  BY Zenon DEF Partly
<1>3. q = [pollAddr |-> q.pollAddr, loopCurrentMode |-> q.loopCurrentMode,
           item |-> q.item, Units |-> q.Units,
           rangeValueUnits |-> q.rangeValueUnits,
           upperRangeValue |-> q.upperRangeValue,
           lowerRangeValue |-> q.lowerRangeValue, Period |-> q.Period,
           MaxPer |-> q.MaxPer, CmdNum |-> q.CmdNum, Cntrl |-> q.Cntrl,
           TrMode |-> q.TrMode, TrClas |-> q.TrClas, TrUnit |-> q.TrUnit,
           Idx0 |-> q.Idx0, configChangeCnt |-> q.configChangeCnt]
  BY DEF Partly
<1>4. Blank \in Configurations
  BY BlankIsConfiguration
<1> HIDE DEF q
<1>5. /\ q.pollAddr \in 0 .. 255 /\ q.loopCurrentMode \in 0 .. 255
      /\ q.item \in [Items -> Texts] /\ q.Units \in [DevVars -> 0 .. 255]
      /\ q.rangeValueUnits \in 0 .. 255
      /\ q.upperRangeValue \in Int /\ q.lowerRangeValue \in Int
      /\ q.Period \in Nat
  BY <1>1, <1>4 DEF Configurations
<1>6. /\ q.MaxPer \in Nat /\ q.CmdNum \in SupportedBurstCmds \union {0, 255}
      /\ q.Cntrl \in 0 .. 4 /\ q.TrMode \in 0 .. 255 /\ q.TrClas \in {0}
      /\ q.TrUnit \in 0 .. 255 /\ q.Idx0 \in DevVars \union {HART_NOT_USED}
      /\ q.configChangeCnt \in 0 .. MaxCnt
  BY <1>2, <1>4 DEF Configurations
<1>7. q \in Configurations
  BY <1>3, <1>5, <1>6 DEF Configurations
<1> QED
  BY <1>7 DEF q

\* The counter of a configuration is a number, and Steady() keeps it.
LEMMA Counter ==
  ASSUME NEW c \in Configurations
  PROVE  /\ c.configChangeCnt \in 0 .. MaxCnt
         /\ c.configChangeCnt \in Int
         /\ Steady(c).configChangeCnt = c.configChangeCnt
<1>1. c.configChangeCnt \in 0 .. MaxCnt
  BY DEF Configurations
<1>2. c.configChangeCnt \in Int
  BY <1>1, CountsAreInts
<1>3. "configChangeCnt" \in DOMAIN c \ Unsteady
  BY SMT DEF Configurations, Unsteady
<1> QED
  BY <1>1, <1>2, <1>3 DEF Steady

\* One part of a configuration at a time may take any value of its type.
LEMMA DeviceParts ==
  ASSUME NEW c \in Configurations
  PROVE  /\ \A i \in Items, t \in Texts :
              [c EXCEPT !.item[i] = t] \in Configurations
         /\ \A d \in DevVars, u \in 0 .. 255 :
              [c EXCEPT !.Units[d] = u] \in Configurations
         /\ \A u \in 0 .. 255 :
              /\ [c EXCEPT !.pollAddr = u] \in Configurations
              /\ [c EXCEPT !.loopCurrentMode = u] \in Configurations
              /\ [c EXCEPT !.rangeValueUnits = u] \in Configurations
         /\ \A x \in Int :
              /\ [c EXCEPT !.upperRangeValue = x] \in Configurations
              /\ [c EXCEPT !.lowerRangeValue = x] \in Configurations
<1>1. ASSUME NEW i \in Items, NEW t \in Texts
      PROVE  [c EXCEPT !.item[i] = t] \in Configurations
  <2> DEFINE f == [c.item EXCEPT ![i] = t]
  <2>1. f \in [Items -> Texts]
    BY DEF Configurations
  <2>2. [c EXCEPT !.item[i] = t] = [c EXCEPT !.item = f]
    OBVIOUS
  <2> HIDE DEF f
  <2>3. [c EXCEPT !.item = f] \in Configurations
    BY SMT, <2>1 DEF Configurations
  <2> QED
    BY <2>2, <2>3
<1>2. ASSUME NEW d \in DevVars, NEW u \in 0 .. 255
      PROVE  [c EXCEPT !.Units[d] = u] \in Configurations
  <2> DEFINE f == [c.Units EXCEPT ![d] = u]
  <2>1. f \in [DevVars -> 0 .. 255]
    BY DEF Configurations
  <2>2. [c EXCEPT !.Units[d] = u] = [c EXCEPT !.Units = f]
    OBVIOUS
  <2> HIDE DEF f
  <2>3. [c EXCEPT !.Units = f] \in Configurations
    BY SMT, <2>1 DEF Configurations
  <2> QED
    BY <2>2, <2>3
<1>3. ASSUME NEW u \in 0 .. 255
      PROVE  [c EXCEPT !.pollAddr = u] \in Configurations
  BY SMT DEF Configurations
<1>4. ASSUME NEW u \in 0 .. 255
      PROVE  [c EXCEPT !.loopCurrentMode = u] \in Configurations
  BY SMT DEF Configurations
<1>5. ASSUME NEW u \in 0 .. 255
      PROVE  [c EXCEPT !.rangeValueUnits = u] \in Configurations
  BY SMT DEF Configurations
<1>6. ASSUME NEW x \in Int
      PROVE  [c EXCEPT !.upperRangeValue = x] \in Configurations
  BY SMT DEF Configurations
<1>7. ASSUME NEW x \in Int
      PROVE  [c EXCEPT !.lowerRangeValue = x] \in Configurations
  BY SMT DEF Configurations
<1> QED
  BY <1>1, <1>2, <1>3, <1>4, <1>5, <1>6, <1>7

LEMMA BurstParts ==
  ASSUME NEW c \in Configurations
  PROVE  /\ \A p \in Nat : /\ [c EXCEPT !.Period = p] \in Configurations
                           /\ [c EXCEPT !.MaxPer = p] \in Configurations
         /\ \A b \in SupportedBurstCmds \union {0, 255} :
              [c EXCEPT !.CmdNum = b] \in Configurations
         /\ \A k \in 0 .. 4 : [c EXCEPT !.Cntrl = k] \in Configurations
         /\ \A k \in 0 .. 255 : [c EXCEPT !.TrMode = k] \in Configurations
         /\ [c EXCEPT !.TrClas = 0] \in Configurations
         /\ \A u \in 0 .. 255 : [c EXCEPT !.TrUnit = u] \in Configurations
         /\ \A d \in DevVars \union {HART_NOT_USED} :
              [c EXCEPT !.Idx0 = d] \in Configurations
         /\ \A n \in 0 .. MaxCnt :
              [c EXCEPT !.configChangeCnt = n] \in Configurations
<1>1. ASSUME NEW p \in Nat PROVE [c EXCEPT !.Period = p] \in Configurations
  BY SMT DEF Configurations
<1>2. ASSUME NEW p \in Nat PROVE [c EXCEPT !.MaxPer = p] \in Configurations
  BY SMT DEF Configurations
<1>3. ASSUME NEW b \in SupportedBurstCmds \union {0, 255}
      PROVE  [c EXCEPT !.CmdNum = b] \in Configurations
  BY SMT DEF Configurations
<1>4. ASSUME NEW k \in 0 .. 4 PROVE [c EXCEPT !.Cntrl = k] \in Configurations
  BY SMT DEF Configurations
<1>5. ASSUME NEW k \in 0 .. 255 PROVE [c EXCEPT !.TrMode = k] \in Configurations
  BY SMT DEF Configurations
<1>6. [c EXCEPT !.TrClas = 0] \in Configurations
  BY SMT DEF Configurations
<1>7. ASSUME NEW u \in 0 .. 255 PROVE [c EXCEPT !.TrUnit = u] \in Configurations
  BY SMT DEF Configurations
<1>8. ASSUME NEW d \in DevVars \union {HART_NOT_USED}
      PROVE  [c EXCEPT !.Idx0 = d] \in Configurations
  BY SMT DEF Configurations
<1>9. ASSUME NEW n \in 0 .. MaxCnt
      PROVE  [c EXCEPT !.configChangeCnt = n] \in Configurations
  BY SMT DEF Configurations
<1> QED
  BY <1>1, <1>2, <1>3, <1>4, <1>5, <1>6, <1>7, <1>8, <1>9

\* The unsteady parts are not part of what Steady() keeps.
LEMMA UnsteadyParts ==
  ASSUME NEW c, NEW u
  PROVE  /\ Steady([c EXCEPT !.pollAddr = u]) = Steady(c)
         /\ Steady([c EXCEPT !.loopCurrentMode = u]) = Steady(c)
         /\ Steady([c EXCEPT !.TrUnit = u]) = Steady(c)
BY SMT DEF Steady, Unsteady

-----------------------------------------------------------------------------
(* What every command comes to. *)

\* The update periods come from the table and are in order.
Legal(c) == /\ c.Period \in LegalTimes /\ c.MaxPer \in LegalTimes
            /\ c.Period <= c.MaxPer

\* What counting relies on, and is true of the first burst message: stepTimes()
\* leaves the factory's update periods alone.  Those of the second and third
\* are off the table (5 s), and a host that sends them back has them settled with
\* no count.
FactoryTimesLegal == Legal(Factory)

\* The update periods are those of the factory, or settled ones.
SettledTimes(c) ==
  Legal(c) \/ (c.Period = Factory.Period /\ c.MaxPer = Factory.MaxPer)

\* A handler that writes c, with n counts to make and this code, has counted
\* what it changed, if it found settled periods, and refused only what it left
\* alone.
Sound(c, n, code) == /\ c \in Configurations
                     /\ SettledTimes(nv) => SettledTimes(c)
                     /\ c.configChangeCnt = nv.configChangeCnt
                     /\ Legal(nv) /\ Steady(c) # Steady(nv) => n > 0
                     /\ code = "refused" => Steady(c) = Steady(nv)

SoundCommand ==
  \E c \in Configurations, n \in 0 .. 2, needed \in BOOLEAN,
     code \in {"accepted", "refused"} :
       Handle(c, n, needed, code) /\ Sound(c, n, code)

\* A refusal, and an acceptance of a configuration that differs only when it
\* is counted, are sound.
LEMMA RefuseIsSound ==
  ASSUME TypeOK, Refuse
  PROVE  SoundCommand
<1>1. nv \in Configurations /\ Sound(nv, 0, "refused")
  BY DEF TypeOK, Sound
<1>2. Handle(nv, 0, FALSE, "refused")
  BY DEF Refuse
<1>3. 0 \in 0 .. 2
  BY SMT
<1> QED
  BY <1>1, <1>2, <1>3 DEF SoundCommand

LEMMA AcceptIsSound ==
  ASSUME NEW c \in Configurations, NEW n \in 0 .. 2,
         SettledTimes(nv) => SettledTimes(c),
         c.configChangeCnt = nv.configChangeCnt,
         Legal(nv) /\ Steady(c) # Steady(nv) => n > 0,
         Accept(c, n)
  PROVE  SoundCommand
<1>1. Sound(c, n, "accepted")
  BY DEF Sound
<1>2. Handle(c, n, n > 0, "accepted") /\ (n > 0) \in BOOLEAN
  BY DEF Accept
<1> QED
  BY <1>1, <1>2 DEF SoundCommand

\* Commands 17, 18, 19, 22, 513 and 521.
LEMMA StoreItemIsSound ==
  ASSUME TypeOK, NEW i \in Items, NEW t \in Texts, StoreItem(i, t)
  PROVE  SoundCommand
<1> DEFINE c == [nv EXCEPT !.item[i] = t]
<1>1. nv \in Configurations
  BY DEF TypeOK
<1>2. c \in Configurations
  BY <1>1, DeviceParts
<1>3. /\ c.Period = nv.Period /\ c.MaxPer = nv.MaxPer
      /\ c.configChangeCnt = nv.configChangeCnt
  BY <1>1 DEF Configurations
<1>4. Accept(c, 1) /\ 1 \in 0 .. 2 /\ 1 > 0
  BY SMT DEF StoreItem
<1> QED
  BY <1>2, <1>3, <1>4, AcceptIsSound DEF SettledTimes, Legal

\* Command 6 writes nothing but what Steady() leaves out.
LEMMA Cmd06IsSound ==
  ASSUME TypeOK, NEW data \in Cmd06Data, Cmd06(data)
  PROVE  SoundCommand
<1> DEFINE p  == IF Len(data) > 0 THEN data[1] ELSE 0
           l  == IF Len(data) > 1 THEN data[2] ELSE 0
           ok == Len(data) > 0 /\ p <= 63 /\ l \in {0, 1}
           c  == [nv EXCEPT !.pollAddr = p, !.loopCurrentMode = l]
           d  == [nv EXCEPT !.pollAddr = p]
           code == IF ok THEN "accepted" ELSE "refused"
<1>1. nv \in Configurations
  BY DEF TypeOK
<1>2. p \in 0 .. 255 /\ l \in 0 .. 255
  <2>1. CASE data = <<>>
    BY SMT, <2>1
  <2>2. ASSUME NEW q \in PollAddrs, data = <<q>> PROVE p \in 0 .. 255 /\ l \in 0 .. 255
    BY SMT, <2>2, ItemAssumption
  <2>3. ASSUME data \in PollAddrs \X LoopModes PROVE p \in 0 .. 255 /\ l \in 0 .. 255
    <3>1. PICK q \in PollAddrs, k \in LoopModes : data = <<q, k>>
      BY <2>3
    <3>2. q \in 0 .. 255 /\ k \in 0 .. 255
      BY ItemAssumption
    <3>3. Len(data) = 2 /\ data[1] = q /\ data[2] = k
      BY SMT, <3>1
    <3> QED
      BY SMT, <3>2, <3>3
  <2> QED
    BY <2>1, <2>2, <2>3 DEF Cmd06Data
<1> HIDE DEF p, l
<1>3. c = [d EXCEPT !.loopCurrentMode = l]
  OBVIOUS
<1>4. d \in Configurations
  BY <1>1, <1>2, DeviceParts
<1>5. c \in Configurations
  BY <1>2, <1>3, <1>4, DeviceParts
<1>6. Steady(c) = Steady(nv)
  <2>1. Steady(d) = Steady(nv)
    BY UnsteadyParts
  <2>2. Steady([d EXCEPT !.loopCurrentMode = l]) = Steady(d)
    BY UnsteadyParts
  <2> QED
    BY <1>3, <2>1, <2>2
<1>7. /\ c.Period = nv.Period /\ c.MaxPer = nv.MaxPer
      /\ c.configChangeCnt = nv.configChangeCnt
  BY <1>1 DEF Configurations
<1>8. Count(ok) \in 0 .. 2 /\ (Len(data) > 0) \in BOOLEAN
  <2>1. Count(ok) \in {0, 1}
    BY DEF Count
  <2> QED
    BY SMT, <2>1
<1>9. Handle(c, Count(ok), Len(data) > 0, code) /\ code \in {"accepted", "refused"}
  BY DEF Cmd06, p, l
<1>10. Sound(c, Count(ok), code)
  BY <1>5, <1>6, <1>7 DEF Sound, SettledTimes, Legal
<1> HIDE DEF c, code, ok
<1> QED
  BY <1>5, <1>8, <1>9, <1>10 DEF SoundCommand

\* Command 44 counts exactly when the units change.
LEMMA Cmd44IsSound ==
  ASSUME TypeOK, NEW u \in UnitCodes, Cmd44(u)
  PROVE  SoundCommand
<1>1. CASE u \notin UnitSet[0] /\ Refuse
  BY <1>1, RefuseIsSound
<1>2. CASE /\ u \in UnitSet[0]
           /\ Accept([nv EXCEPT !.Units[0] = u], Count(u # nv.Units[0]))
  <2> DEFINE c == [nv EXCEPT !.Units[0] = u]
             n == Count(u # nv.Units[0])
  <2>1. nv \in Configurations /\ u \in 0 .. 255 /\ 0 \in DevVars
    BY VariableAssumption, UnitAssumption DEF TypeOK
  <2>2. c \in Configurations
    BY <2>1, DeviceParts
  <2>3. /\ c.Period = nv.Period /\ c.MaxPer = nv.MaxPer
        /\ c.configChangeCnt = nv.configChangeCnt
    BY <2>1 DEF Configurations
  <2>4. n \in 0 .. 2
    BY SMT DEF Count
  <2>5. u = nv.Units[0] => c = nv
    BY SMT, <2>1 DEF Configurations
  <2>6. u # nv.Units[0] => n > 0
    BY SMT DEF Count
  <2> HIDE DEF c, n
  <2>7. Accept(c, n)
    BY <1>2 DEF c, n
  <2> QED
    BY <2>2, <2>3, <2>4, <2>5, <2>6, <2>7, AcceptIsSound DEF SettledTimes, Legal
<1> QED
  BY <1>1, <1>2 DEF Cmd44

\* Command 53 counts always.
LEMMA Cmd53IsSound ==
  ASSUME TypeOK, NEW d \in Slots, NEW u \in UnitCodes, Cmd53(d, u)
  PROVE  SoundCommand
<1>1. CASE Refuse
  BY <1>1, RefuseIsSound
<1>2. CASE d \in DevVars /\ Accept([nv EXCEPT !.Units[d] = u], 1)
  <2> DEFINE c == [nv EXCEPT !.Units[d] = u]
  <2>1. nv \in Configurations /\ u \in 0 .. 255
    BY UnitAssumption DEF TypeOK
  <2>2. c \in Configurations
    BY <1>2, <2>1, DeviceParts
  <2>3. /\ c.Period = nv.Period /\ c.MaxPer = nv.MaxPer
        /\ c.configChangeCnt = nv.configChangeCnt
    BY <2>1 DEF Configurations
  <2>4. 1 \in 0 .. 2 /\ 1 > 0
    BY SMT
  <2> QED
    BY <1>2, <2>2, <2>3, <2>4, AcceptIsSound DEF SettledTimes, Legal
<1> QED
  BY <1>1, <1>2 DEF Cmd53

\* Command 35 counts whenever a part of the range differs.
LEMMA Cmd35IsSound ==
  ASSUME TypeOK, NEW u \in UnitCodes,
         NEW hi \in RangeValues, NEW lo \in RangeValues, Cmd35(u, hi, lo)
  PROVE  SoundCommand
<1> DEFINE c == Ranged(u, hi, lo)
           n == Count(c # nv) + Count(~TooNarrow(hi, lo))
           d == [nv EXCEPT !.rangeValueUnits = u]
           e == [d EXCEPT !.upperRangeValue = hi]
<1>1. CASE Refuse
  BY <1>1, RefuseIsSound
<1>2. CASE Accept(c, n)
  <2>1. nv \in Configurations /\ u \in 0 .. 255 /\ hi \in Int /\ lo \in Int
    <3>1. RangeValues \subseteq Int /\ UnitCodes \subseteq 0 .. 255
      BY RangeAssumption, UnitAssumption
    <3>2. nv \in Configurations
      BY DEF TypeOK
    <3> QED
      BY <3>1, <3>2
  <2>2. d \in Configurations
    BY <2>1, DeviceParts
  <2>3. e \in Configurations
    BY <2>1, <2>2, DeviceParts
  <2>4. c = [e EXCEPT !.lowerRangeValue = lo]
    BY DEF Ranged
  <2>5. c \in Configurations
    <3>1. [e EXCEPT !.lowerRangeValue = lo] \in Configurations
      BY <2>1, <2>3, DeviceParts
    <3> QED
      BY <2>4, <3>1
  <2>6. /\ c.Period = nv.Period /\ c.MaxPer = nv.MaxPer
        /\ c.configChangeCnt = nv.configChangeCnt
    BY <2>1 DEF Ranged, Configurations
  <2> HIDE DEF c
  <2>7. n \in 0 .. 2 /\ (c # nv => n > 0)
    BY SMT DEF Count
  <2> HIDE DEF n
  <2> QED
    BY <1>2, <2>5, <2>6, <2>7, AcceptIsSound DEF SettledTimes, Legal
<1> QED
  BY <1>1, <1>2 DEF Cmd35

\* Command 103 counts what differs from the times held before, and that is
\* enough when the times held are legal: stepTimes() leaves them alone.
LEMMA Cmd103IsSound ==
  ASSUME TypeOK, NEW p \in RawTimes, NEW m \in RawTimes,
         Cmd103(p, m)
  PROVE  SoundCommand
<1> DEFINE r == stepTimes(p, m)
           c == [nv EXCEPT !.Period = r.Period, !.MaxPer = r.MaxPer]
           d == [nv EXCEPT !.Period = r.Period]
           n == Count(p # nv.Period \/ m # nv.MaxPer)
<1>1. nv \in Configurations /\ p \in Nat /\ m \in Nat
  BY BurstAssumption DEF TypeOK
<1>2. /\ r.Period \in LegalTimes /\ r.MaxPer \in LegalTimes
      /\ r.Period <= r.MaxPer
  BY <1>1, StepTimesSettles
<1>3. Legal(nv) /\ p = nv.Period /\ m = nv.MaxPer
        => r.Period = p /\ r.MaxPer = m
  <2> SUFFICES ASSUME Legal(nv), p = nv.Period, m = nv.MaxPer
               PROVE  r.Period = p /\ r.MaxPer = m
    OBVIOUS
  <2>1. p \in LegalTimes /\ m \in LegalTimes /\ p <= m
    BY DEF Legal
  <2>2. step(p).aTime = p /\ step(m).aTime = m
    BY <2>1, StepKeepsLegal
  <2> QED
    BY SMT, <1>1, <2>1, <2>2 DEF stepTimes
<1> HIDE DEF r
<1>4. r.Period \in Nat /\ r.MaxPer \in Nat
  BY <1>2, LegalCases
<1>5. d \in Configurations
  BY <1>1, <1>4, BurstParts
<1>6. c = [d EXCEPT !.MaxPer = r.MaxPer]
  OBVIOUS
<1>7. c \in Configurations
  BY <1>4, <1>5, <1>6, BurstParts
<1>8. /\ c.Period = r.Period /\ c.MaxPer = r.MaxPer
      /\ c.configChangeCnt = nv.configChangeCnt
  BY <1>1 DEF Configurations
<1>9. Legal(nv) /\ p = nv.Period /\ m = nv.MaxPer => c = nv
  <2> SUFFICES ASSUME Legal(nv), p = nv.Period, m = nv.MaxPer PROVE c = nv
    OBVIOUS
  <2>1. d = nv
    BY SMT, <1>1, <1>3 DEF Configurations
  <2>2. [nv EXCEPT !.MaxPer = r.MaxPer] = nv
    BY SMT, <1>1, <1>3 DEF Configurations
  <2> QED
    BY <1>6, <2>1, <2>2
<1>10. n \in 0 .. 2 /\ (p # nv.Period \/ m # nv.MaxPer => n > 0)
  BY SMT DEF Count
<1>11. Accept(c, n)
  BY DEF Cmd103, r
<1> HIDE DEF c, n
<1> QED
  BY <1>2, <1>7, <1>8, <1>9, <1>10, <1>11, AcceptIsSound DEF SettledTimes, Legal

\* Command 104 counts whatever it stores; its refusals store nothing.
LEMMA Cmd104IsSound ==
  ASSUME TypeOK, NEW md \in TriggerModes, NEW class \in {0, 1},
         NEW u \in UnitCodes, NEW inLimits \in BOOLEAN,
         Cmd104(md, class, u, inLimits)
  PROVE  SoundCommand
<1> DEFINE early == Count(md \notin {0, 4})
           c == Triggered(md, u)
           d == [nv EXCEPT !.TrMode = md]
           e == [d EXCEPT !.TrClas = 0]
           t == CASE nv.CmdNum = 2 -> 57
                  [] md = 0 /\ nv.CmdNum # 2 -> HART_NOT_USED
                  [] OTHER -> u
<1>1. nv \in Configurations /\ Sound(nv, 0, "refused")
                            /\ Sound(nv, early, "refused")
  BY DEF TypeOK, Sound
<1>2. 0 \in 0 .. 2 /\ early \in 0 .. 2 /\ early + 1 \in 0 .. 2 /\ early + 1 > 0
  BY SMT DEF Count
<1>3. TRUE \in BOOLEAN
  OBVIOUS
<1>4. CASE Handle(nv, 0, TRUE, "refused")
  BY <1>1, <1>2, <1>3, <1>4 DEF SoundCommand
<1>5. CASE Handle(nv, early, TRUE, "refused")
  BY <1>1, <1>2, <1>3, <1>5 DEF SoundCommand
<1>6. CASE GoodTrigger(md, u, inLimits) /\ Handle(c, early + 1, TRUE, "accepted")
  <2>1. md \in 0 .. 255
    BY BurstAssumption
  <2>2. t \in 0 .. 255
    BY SMT, UnitAssumption DEF HART_NOT_USED
  <2> HIDE DEF t
  <2>3. d \in Configurations
    BY <1>1, <2>1, BurstParts
  <2>4. e \in Configurations
    BY <2>3, BurstParts
  <2>5. c = [e EXCEPT !.TrUnit = t]
    BY DEF Triggered, t
  <2>6. c \in Configurations
    <3>1. [e EXCEPT !.TrUnit = t] \in Configurations
      BY <2>2, <2>4, BurstParts
    <3> QED
      BY <2>5, <3>1
  <2>7. /\ c.Period = nv.Period /\ c.MaxPer = nv.MaxPer
        /\ c.configChangeCnt = nv.configChangeCnt
    BY <1>1 DEF Triggered, Configurations
  <2> HIDE DEF c, early
  <2>8. Sound(c, early + 1, "accepted")
    BY <1>2, <2>6, <2>7 DEF Sound, SettledTimes, Legal
  <2> QED
    BY <1>2, <1>3, <1>6, <2>6, <2>8 DEF SoundCommand
<1> QED
  BY <1>4, <1>5, <1>6 DEF Cmd104

\* Command 105 writes the trigger units alone.
LEMMA Cmd105IsSound ==
  ASSUME TypeOK, Cmd105
  PROVE  SoundCommand
<1> DEFINE c == [nv EXCEPT !.TrUnit = BurstUnit]
<1>1. nv \in Configurations
  BY DEF TypeOK
<1>2. BurstUnit \in 0 .. 255
  <2>1. /\ nv.Units[0] \in 0 .. 255 /\ nv.Units[244] \in 0 .. 255
        /\ nv.Idx0 # HART_NOT_USED => nv.Units[nv.Idx0] \in 0 .. 255
    <3>1. /\ nv.Units \in [DevVars -> 0 .. 255]
          /\ nv.Idx0 \in DevVars \union {HART_NOT_USED}
      BY <1>1 DEF Configurations
    <3>2. 0 \in DevVars /\ 244 \in DevVars
      BY VariableAssumption
    <3> QED
      BY <3>1, <3>2
  <2>2. HART_NOT_USED \in 0 .. 255
    BY SMT DEF HART_NOT_USED
  <2>3. \/ BurstUnit \in {nv.Units[0], nv.Units[244], HART_NOT_USED}
        \/ nv.Idx0 <= 2 /\ BurstUnit = nv.Units[nv.Idx0]
    BY DEF BurstUnit
  <2>4. nv.Idx0 <= 2 => nv.Idx0 # HART_NOT_USED
    BY SMT DEF HART_NOT_USED
  <2> QED
    BY <2>1, <2>2, <2>3, <2>4
<1>3. c \in Configurations
  BY <1>1, <1>2, BurstParts
<1>4. Steady(c) = Steady(nv)
  BY UnsteadyParts
<1>5. /\ c.Period = nv.Period /\ c.MaxPer = nv.MaxPer
      /\ c.configChangeCnt = nv.configChangeCnt
  BY <1>1 DEF Configurations
<1>6. Accept(c, 0) /\ 0 \in 0 .. 2
  BY SMT DEF Cmd105
<1> QED
  BY <1>3, <1>4, <1>5, <1>6, AcceptIsSound DEF SettledTimes, Legal

\* Command 107 counts always.
LEMMA Cmd107IsSound ==
  ASSUME TypeOK, NEW s \in Slots, Cmd107(s)
  PROVE  SoundCommand
<1>1. CASE Refuse
  BY <1>1, RefuseIsSound
<1>2. CASE s \in DevVars /\ Accept([nv EXCEPT !.Idx0 = s], 1)
  <2> DEFINE c == [nv EXCEPT !.Idx0 = s]
  <2>1. nv \in Configurations
    BY DEF TypeOK
  <2>2. c \in Configurations
    BY <1>2, <2>1, BurstParts
  <2>3. /\ c.Period = nv.Period /\ c.MaxPer = nv.MaxPer
        /\ c.configChangeCnt = nv.configChangeCnt
    BY <2>1 DEF Configurations
  <2>4. 1 \in 0 .. 2 /\ 1 > 0
    BY SMT
  <2> QED
    BY <1>2, <2>2, <2>3, <2>4, AcceptIsSound DEF SettledTimes, Legal
<1> QED
  BY <1>1, <1>2 DEF Cmd107

\* Command 108 never comes to the reset that is not counted: no trigger of a
\* configuration is classified.
LEMMA Cmd108IsSound ==
  ASSUME TypeOK, NEW legacy \in BOOLEAN, NEW b \in BurstCmds,
         Cmd108(legacy, b)
  PROVE  SoundCommand
<1>1. CASE Refuse
  BY <1>1, RefuseIsSound
<1>2. CASE ~(b \notin SupportedBurstCmds /\ Refuse)
  <2> DEFINE c == [nv EXCEPT !.CmdNum = b]
  <2>1. nv \in Configurations /\ nv.TrClas = 0
    BY DEF TypeOK, Configurations
  <2>2. b \in SupportedBurstCmds /\ Accept(c, 1)
    BY <1>2, <2>1 DEF Cmd108, Count
  <2>3. c \in Configurations
    BY <2>1, <2>2, BurstParts
  <2>4. /\ c.Period = nv.Period /\ c.MaxPer = nv.MaxPer
        /\ c.configChangeCnt = nv.configChangeCnt
    BY <2>1 DEF Configurations
  <2>5. 1 \in 0 .. 2 /\ 1 > 0
    BY SMT
  <2> HIDE DEF c
  <2> QED
    BY <2>2, <2>3, <2>4, <2>5, AcceptIsSound DEF SettledTimes, Legal
<1> QED
  BY <1>1, <1>2

\* Command 109 counts exactly when the control code changes.
LEMMA Cmd109IsSound ==
  ASSUME TypeOK, NEW k \in ControlCodes, Cmd109(k)
  PROVE  SoundCommand
<1> DEFINE c == [nv EXCEPT !.Cntrl = k]
           n == Count(k # nv.Cntrl)
<1>1. CASE Refuse
  BY <1>1, RefuseIsSound
<1>2. CASE k <= 4 /\ Accept(c, n)
  <2>1. nv \in Configurations /\ k \in 0 .. 255
    BY BurstAssumption DEF TypeOK
  <2>2. k \in 0 .. 4
    BY SMT, <1>2, <2>1
  <2>3. c \in Configurations
    BY <2>1, <2>2, BurstParts
  <2>4. /\ c.Period = nv.Period /\ c.MaxPer = nv.MaxPer
        /\ c.configChangeCnt = nv.configChangeCnt
    BY <2>1 DEF Configurations
  <2>5. n \in 0 .. 2 /\ (k # nv.Cntrl => n > 0)
    BY SMT DEF Count
  <2>6. k = nv.Cntrl => c = nv
    BY SMT, <2>1 DEF Configurations
  <2> HIDE DEF c, n
  <2>7. Accept(c, n)
    BY <1>2
  <2> QED
    BY <2>3, <2>4, <2>5, <2>6, <2>7, AcceptIsSound DEF SettledTimes, Legal
<1> QED
  BY <1>1, <1>2 DEF Cmd109

\* Every command of a host is sound.
LEMMA CommandsAreSound ==
  ASSUME TypeOK, DeviceCommand \/ BurstCommand
  PROVE  SoundCommand
<1>1. CASE DeviceCommand
  BY <1>1, RefuseIsSound, StoreItemIsSound, Cmd06IsSound, Cmd44IsSound,
     Cmd53IsSound, Cmd35IsSound DEF DeviceCommand, TooFew
<1>2. CASE BurstCommand
  BY <1>2, Cmd103IsSound, Cmd104IsSound, Cmd105IsSound, Cmd107IsSound,
     Cmd108IsSound, Cmd109IsSound DEF BurstCommand
<1> QED
  BY <1>1, <1>2

-----------------------------------------------------------------------------
(* What a handler cut short comes to: some configuration, of which nothing is
   kept yet. *)

SoundCut == \E c \in Configurations : Cut(c)

LEMMA Cut06IsSound ==
  ASSUME TypeOK, Cut06
  PROVE  SoundCut
<1>1. nv \in Configurations /\ 0 \in 0 .. 255
  BY SMT DEF TypeOK
<1>2. CASE Cut([nv EXCEPT !.pollAddr = 0])
  <2>1. [nv EXCEPT !.pollAddr = 0] \in Configurations
    BY <1>1, DeviceParts
  <2> QED
    BY <1>2, <2>1 DEF SoundCut
<1>3. ASSUME NEW p \in PollAddrs \union {0},
             Cut([nv EXCEPT !.pollAddr = p, !.loopCurrentMode = 0])
      PROVE  SoundCut
  <2> DEFINE d == [nv EXCEPT !.pollAddr = p]
             c == [nv EXCEPT !.pollAddr = p, !.loopCurrentMode = 0]
  <2>1. p \in 0 .. 255
    BY <1>1, ItemAssumption
  <2>2. d \in Configurations
    BY <1>1, <2>1, DeviceParts
  <2>3. c = [d EXCEPT !.loopCurrentMode = 0]
    OBVIOUS
  <2>4. c \in Configurations
    <3> HIDE DEF d, c
    <3> QED
      BY <1>1, <2>2, <2>3, DeviceParts
  <2> QED
    BY <1>3, <2>4 DEF SoundCut
<1> QED
  BY <1>2, <1>3 DEF Cut06

LEMMA CutUnitsIsSound ==
  ASSUME TypeOK, NEW d \in Slots \union {0}, NEW u \in UnitCodes, CutUnits(d, u)
  PROVE  SoundCut
<1>1. nv \in Configurations /\ u \in 0 .. 255 /\ 0 \in DevVars
  BY UnitAssumption, VariableAssumption DEF TypeOK
<1>2. d \in DevVars /\ Cut([nv EXCEPT !.Units[d] = u])
  BY <1>1 DEF CutUnits
<1>3. [nv EXCEPT !.Units[d] = u] \in Configurations
  BY <1>1, <1>2, DeviceParts
<1> QED
  BY <1>2, <1>3 DEF SoundCut

LEMMA Cut35IsSound ==
  ASSUME TypeOK, NEW u \in UnitCodes,
         NEW hi \in RangeValues, NEW lo \in RangeValues, Cut35(u, hi, lo)
  PROVE  SoundCut
<1> DEFINE d == [nv EXCEPT !.upperRangeValue = hi]
           e == [nv EXCEPT !.upperRangeValue = hi, !.lowerRangeValue = lo]
           f == Ranged(u, hi, lo)
<1>1. nv \in Configurations /\ u \in 0 .. 255 /\ hi \in Int /\ lo \in Int
  <2>1. RangeValues \subseteq Int /\ UnitCodes \subseteq 0 .. 255
    BY RangeAssumption, UnitAssumption
  <2>2. nv \in Configurations
    BY DEF TypeOK
  <2> QED
    BY <2>1, <2>2
<1>2. d \in Configurations
  BY <1>1, DeviceParts
<1>3. e = [d EXCEPT !.lowerRangeValue = lo]
  OBVIOUS
<1>4. e \in Configurations
  <2> HIDE DEF d, e
  <2> QED
    BY <1>1, <1>2, <1>3, DeviceParts
<1>5. f \in Configurations
  <2>1. f = [e EXCEPT !.rangeValueUnits = u]
    BY <1>1 DEF Ranged, Configurations
  <2> HIDE DEF e, f
  <2> QED
    BY <1>1, <1>4, <2>1, DeviceParts
<1>6. Cut(d) \/ Cut(e) \/ Cut(f)
  BY DEF Cut35
<1> QED
  BY <1>2, <1>4, <1>5, <1>6 DEF SoundCut

LEMMA Cut103IsSound ==
  ASSUME TypeOK, NEW p \in RawTimes, NEW m \in RawTimes, Cut103(p, m)
  PROVE  SoundCut
<1> DEFINE r == stepTimes(p, m)
<1>1. nv \in Configurations /\ p \in Nat /\ m \in Nat
  BY BurstAssumption DEF TypeOK
<1>2. r.Period \in Nat /\ r.MaxPer \in Nat
  <2>1. r.Period \in LegalTimes /\ r.MaxPer \in LegalTimes
    BY <1>1, StepTimesSettles
  <2> QED
    BY <2>1, LegalCases
<1> HIDE DEF r
<1>3. CASE Cut([nv EXCEPT !.Period = p])
  <2>1. [nv EXCEPT !.Period = p] \in Configurations
    BY <1>1, BurstParts
  <2> QED
    BY <1>3, <2>1 DEF SoundCut
<1>4. ASSUME NEW x \in {p, IF p > m THEN m ELSE p, r.Period},
             NEW y \in {m, r.MaxPer},
             Cut([nv EXCEPT !.Period = x, !.MaxPer = y])
      PROVE  SoundCut
  <2> DEFINE d == [nv EXCEPT !.Period = x]
             c == [nv EXCEPT !.Period = x, !.MaxPer = y]
  <2>1. x \in Nat /\ y \in Nat
    BY <1>1, <1>2
  <2>2. d \in Configurations
    BY <1>1, <2>1, BurstParts
  <2>3. c = [d EXCEPT !.MaxPer = y]
    OBVIOUS
  <2>4. c \in Configurations
    <3> HIDE DEF d, c
    <3> QED
      BY <2>1, <2>2, <2>3, BurstParts
  <2> QED
    BY <1>4, <2>4 DEF SoundCut
<1> QED
  BY <1>3, <1>4 DEF Cut103, r

LEMMA Cut104IsSound ==
  ASSUME TypeOK, NEW md \in TriggerModes, NEW u \in UnitCodes,
         NEW inLimits \in BOOLEAN, Cut104(md, u, inLimits)
  PROVE  SoundCut
<1> DEFINE d == [nv EXCEPT !.TrMode = md]
           e == [nv EXCEPT !.TrMode = md, !.TrUnit = 0]
           f == Triggered(md, u)
           g == [f EXCEPT !.Idx0 = 0]
           t == CASE nv.CmdNum = 2 -> 57
                  [] md = 0 /\ nv.CmdNum # 2 -> HART_NOT_USED
                  [] OTHER -> u
<1>1. /\ nv \in Configurations /\ md \in 0 .. 255 /\ 0 \in 0 .. 255
      /\ 0 \in 0 .. 4 /\ 0 \in Nat /\ 0 \in DevVars
  BY SMT, BurstAssumption, VariableAssumption DEF TypeOK
<1>2. ASSUME NEW part \in {"CmdNum", "Cntrl", "Period", "MaxPer", "TrMode"}
      PROVE  [nv EXCEPT ![part] = 0] \in Configurations
  <2>1. /\ [nv EXCEPT !.CmdNum = 0] \in Configurations
        /\ [nv EXCEPT !.Cntrl = 0] \in Configurations
        /\ [nv EXCEPT !.Period = 0] \in Configurations
        /\ [nv EXCEPT !.MaxPer = 0] \in Configurations
        /\ [nv EXCEPT !.TrMode = 0] \in Configurations
    BY <1>1, BurstParts
  <2> QED
    BY <2>1
<1>3. t \in 0 .. 255
  <2>1. 57 \in 0 .. 255 /\ HART_NOT_USED \in 0 .. 255 /\ u \in 0 .. 255
    BY SMT, UnitAssumption DEF HART_NOT_USED
  <2> QED
    BY <2>1
<1> HIDE DEF t
<1>4. d \in Configurations
  BY <1>1, BurstParts
<1>5. e \in Configurations
  <2>1. e = [d EXCEPT !.TrUnit = 0]
    OBVIOUS
  <2> HIDE DEF d, e
  <2> QED
    BY <1>1, <1>4, <2>1, BurstParts
<1>6. f \in Configurations
  <2> DEFINE h == [d EXCEPT !.TrClas = 0]
  <2>1. h \in Configurations
    BY <1>4, BurstParts
  <2>2. f = [h EXCEPT !.TrUnit = t]
    BY DEF Triggered, t
  <2> HIDE DEF h, f
  <2> QED
    BY <1>3, <2>1, <2>2, BurstParts
<1> HIDE DEF f
<1>7. g \in Configurations
  BY <1>1, <1>6, BurstParts
<1>8. \/ \E part \in {"CmdNum", "Cntrl", "Period", "MaxPer", "TrMode"} :
           Cut([nv EXCEPT ![part] = 0])
      \/ Cut(e) \/ Cut(g)
  BY DEF Cut104, f
<1> QED
  BY <1>2, <1>5, <1>7, <1>8 DEF SoundCut

LEMMA CutOtherIsSound ==
  ASSUME TypeOK, CutOther
  PROVE  SoundCut
<1>1. nv \in Configurations
  BY DEF TypeOK
<1>2. ASSUME NEW i \in Items, NEW t \in Texts, Cut([nv EXCEPT !.item[i] = t])
      PROVE  SoundCut
  BY <1>1, <1>2, DeviceParts DEF SoundCut
<1>3. CASE Cut([nv EXCEPT !.TrUnit = 0])
  <2>1. 0 \in 0 .. 255
    BY SMT
  <2>2. [nv EXCEPT !.TrUnit = 0] \in Configurations
    BY <1>1, <2>1, BurstParts
  <2> QED
    BY <1>3, <2>2 DEF SoundCut
<1>4. ASSUME NEW s \in Slots \intersect DevVars, Cut([nv EXCEPT !.Idx0 = s])
      PROVE  SoundCut
  BY <1>1, <1>4, BurstParts DEF SoundCut
<1>5. ASSUME NEW b \in BurstCmds \intersect SupportedBurstCmds,
             Cut([nv EXCEPT !.CmdNum = b])
      PROVE  SoundCut
  BY <1>1, <1>5, BurstParts DEF SoundCut
<1>6. ASSUME NEW k \in ControlCodes \intersect (0 .. 4),
             Cut([nv EXCEPT !.Cntrl = k])
      PROVE  SoundCut
  BY <1>1, <1>6, BurstParts DEF SoundCut
<1> QED
  BY <1>2, <1>3, <1>4, <1>5, <1>6 DEF CutOther

LEMMA CutsAreSound ==
  ASSUME TypeOK, CutCommand
  PROVE  SoundCut
BY Cut06IsSound, CutUnitsIsSound, Cut35IsSound, Cut103IsSound, Cut104IsSound,
   CutOtherIsSound DEF CutCommand

-----------------------------------------------------------------------------
(* The inductive invariant. *)

\* b was read before a: its counter is no later, and they are the same when
\* the counters are.
Follows(a, b) == /\ b.configChangeCnt <= a.configChangeCnt
                 /\ a.configChangeCnt = b.configChangeCnt => a = b

\* What the places of the program mean for the state.
Shape == /\ pc \in {"down", "fill"} => nv = Factory
         /\ pc = "fill" => file.state = "empty"
         /\ pc = "load" => file.state = "full" /\ nv = file.data
         /\ file.state # "full" => file.data = Factory
         /\ bumps > 0 => pc = "bump"
         /\ pc = "bump" => nv.configChangeCnt + bumps <= MaxCnt

\* The update periods kept, and those held while no change is cut short.
Settled == SettledTimes(file.data) /\ (pc # "cut" => SettledTimes(nv))

\* How the host's copy, the file and the memory go together at each place.
Versions ==
  LET saved == Steady(file.data)
      held  == Steady(nv)
  IN  /\ Follows(saved, cache)
      /\ pc \notin {"down", "fill", "cut"} => file.state = "full"
      /\ pc \in {"load", "idle", "reply"} => saved = held
      /\ pc = "bump" => /\ file.data.configChangeCnt = nv.configChangeCnt
                        /\ bumps = 0 => saved = held
      /\ pc = "save" => /\ Follows(held, saved)
                        /\ saved = held \/ writeNeeded

Structure == TypeOK /\ Shape

\* A write that fails may leave the file behind, but never with other periods;
\* only SIGINT in the middle of a change keeps what is not settled.
IInv == Structure /\ (~lost => Settled)

CountedInv == ~lost => Versions

\* Follows() is an order on what has a number for its counter.
LEMMA FollowsIsOrder ==
  ASSUME NEW a, NEW b, NEW c,
         a.configChangeCnt \in Int, b.configChangeCnt \in Int,
         c.configChangeCnt \in Int
  PROVE  /\ Follows(a, a)
         /\ Follows(a, b) /\ Follows(b, c) => Follows(a, c)
<1>1. Follows(a, a)
  BY SMT DEF Follows
<1>2. ASSUME Follows(a, b), Follows(b, c) PROVE Follows(a, c)
  <2>1. c.configChangeCnt <= a.configChangeCnt
    BY SMT, <1>2 DEF Follows
  <2>2. ASSUME a.configChangeCnt = c.configChangeCnt PROVE a = c
    <3>1. /\ a.configChangeCnt = b.configChangeCnt
          /\ b.configChangeCnt = c.configChangeCnt
      BY SMT, <1>2, <2>2 DEF Follows
    <3> QED
      BY <1>2, <3>1 DEF Follows
  <2> QED
    BY <2>1, <2>2 DEF Follows
<1> QED
  BY <1>1, <1>2

\* The parts of the type invariant a step has to show again.
LEMMA TypeParts ==
  TypeOK <=> /\ nv \in Configurations
             /\ file.state \in {"missing", "empty", "short", "full"}
             /\ file.data \in Configurations
             /\ file = [state |-> file.state, data |-> file.data]
             /\ writeNeeded \in BOOLEAN
             /\ pc \in {"down", "fill", "load", "idle", "bump", "save",
                        "reply", "cut"}
             /\ bumps \in 0 .. 2
             /\ rc \in {"none", "accepted", "refused"}
             /\ cache.configChangeCnt \in 0 .. MaxCnt
             /\ lost \in BOOLEAN
BY DEF TypeOK

\* A write, whether it succeeds, leaves a whole configuration in the file.
LEMMA WriteLeaves ==
  ASSUME NEW ok \in BOOLEAN, NEW c \in Configurations,
         file \in [state : {"missing", "empty", "short", "full"},
                   data : Configurations],
         Write(ok, c)
  PROVE  /\ file' \in [state : {"missing", "empty", "short", "full"},
                       data : Configurations]
         /\ file'.data \in {c, file.data}
         /\ file'.state # "full" => /\ file.state # "full"
                                    /\ file'.data = file.data
         /\ ok /\ file.state # "short" =>
              file'.state = "full" /\ file'.data = c
<1>1. CASE ok /\ file.state # "short" /\ file' = full(c)
  BY <1>1 DEF full
<1>2. CASE ~(ok /\ file.state # "short") /\ UNCHANGED file
  BY <1>2
<1>3. CASE /\ ~(ok /\ file.state # "short")
           /\ file.state = "empty" /\ file' = [file EXCEPT !.state = "short"]
  BY <1>3
<1> QED
  BY <1>1, <1>2, <1>3 DEF Write

\* What a loss-free write does: the file holds c, or the loss is on record.
LEMMA PutLeaves ==
  ASSUME NEW ok \in BOOLEAN, NEW c, Put(ok, c), lost \in BOOLEAN
  PROVE  /\ Write(ok, c)
         /\ lost' \in BOOLEAN
         /\ lost => lost'
         /\ ~lost' => file'.state = "full" /\ file'.data = c
<1>1. Write(ok, c) /\ lost' = (lost \/ ~ok \/ file.state = "short")
  BY DEF Put
<1>2. ok /\ file.state # "short" => file'.state = "full" /\ file'.data = c
  BY <1>1 DEF Write, full
<1>3. lost' \in BOOLEAN
  BY <1>1
<1>4. ~lost' => ok /\ file.state # "short"
  BY <1>1
<1>5. lost => lost'
  BY <1>1
<1> QED
  BY <1>1, <1>2, <1>3, <1>4, <1>5

\* The structure holds at the start.
LEMMA InitStructure ==
  ASSUME Init
  PROVE  Structure
<1>1. TypeOK
  <2>1. /\ bumps \in 0 .. 2 /\ writeNeeded \in BOOLEAN /\ lost \in BOOLEAN
        /\ pc \in {"down", "fill", "load", "idle", "bump", "save", "reply", "cut"}
        /\ rc \in {"none", "accepted", "refused"}
    <3>1. 0 \in 0 .. 2
      BY SMT
    <3> QED
      BY <3>1 DEF Init
  <2>2. /\ nv \in Configurations /\ file.data \in Configurations
        /\ file \in [state : {"missing", "empty", "short", "full"},
                     data : Configurations]
    BY FactoryIsConfiguration DEF Init
  <2>3. cache.configChangeCnt \in 0 .. MaxCnt
    BY FactoryIsConfiguration, Counter DEF Init
  <2> QED
    BY <2>1, <2>2, <2>3 DEF TypeOK
<1>2. Shape
  <2>1. ~(bumps > 0)
    BY SMT DEF Init
  <2> QED
    BY <2>1 DEF Init, Shape
<1> QED
  BY <1>1, <1>2 DEF Structure

\* A process that ends leaves the file as some whole configuration.
LEMMA DownStructure ==
  ASSUME Structure, Down, UNCHANGED cache, lost' \in BOOLEAN,
         file' \in [state : {"missing", "empty", "short", "full"},
                    data : Configurations],
         file'.state # "full" => file'.data = Factory
  PROVE  Structure'
<1>1. /\ nv' = Factory /\ pc' = "down" /\ writeNeeded' = FALSE /\ bumps' = 0
      /\ rc' = "none" /\ cache' = cache
  BY DEF Down
<1>2. bumps' \in 0 .. 2 /\ ~(bumps' > 0)
  BY SMT, <1>1
<1>3. TypeOK'
  BY <1>1, <1>2, FactoryIsConfiguration DEF TypeOK, Structure
<1>4. Shape'
  BY <1>1, <1>2 DEF Shape
<1> QED
  BY <1>3, <1>4 DEF Structure

\* A command keeps the structure.
LEMMA CommandStructure ==
  ASSUME Structure, SoundCommand
  PROVE  Structure'
<1>1. PICK c \in Configurations, n \in 0 .. 2, needed \in BOOLEAN,
           code \in {"accepted", "refused"} :
             Handle(c, n, needed, code) /\ Sound(c, n, code)
  BY DEF SoundCommand
<1>2. /\ nv' = c /\ bumps' = n /\ writeNeeded' = (writeNeeded \/ needed)
      /\ rc' = code /\ pc' = "bump" /\ pc = "idle"
      /\ file' = file /\ cache' = cache /\ lost' = lost
      /\ nv.configChangeCnt + n <= MaxCnt
  BY <1>1 DEF Handle
<1>3. c.configChangeCnt = nv.configChangeCnt
  BY <1>1 DEF Sound
<1>4. TypeOK'
  <2>1. writeNeeded' \in BOOLEAN
    BY <1>2
  <2>2. nv' \in Configurations /\ bumps' \in 0 .. 2
    BY <1>2
  <2>3. rc' \in {"none", "accepted", "refused"}
    BY <1>2
  <2>4. pc' \in {"down", "fill", "load", "idle", "bump", "save", "reply", "cut"}
    BY <1>2
  <2> QED
    BY <1>2, <2>1, <2>2, <2>3, <2>4 DEF TypeOK, Structure
<1>5. Shape'
  BY <1>2, <1>3 DEF Shape, Structure
<1> QED
  BY <1>4, <1>5 DEF Structure

\* So does one that is cut short.
LEMMA CutStructure ==
  ASSUME Structure, SoundCut
  PROVE  Structure'
<1>1. PICK c \in Configurations : Cut(c)
  BY DEF SoundCut
<1>2. /\ nv' = c /\ pc' = "cut" /\ pc = "idle" /\ file' = file
      /\ writeNeeded' = writeNeeded /\ bumps' = bumps /\ rc' = rc
      /\ cache' = cache /\ lost' = lost
  BY <1>1 DEF Cut
<1>3. TypeOK'
  BY <1>2 DEF TypeOK, Structure
<1>4. Shape'
  BY <1>2 DEF Shape, Structure
<1> QED
  BY <1>3, <1>4 DEF Structure

\* The steps of the process itself keep the structure.
LEMMA ProcessStructure ==
  ASSUME Structure, Process
  PROVE  Structure'
<1> USE DEF Structure
<1>1. CASE MakeFile
  <2>1. /\ nv' = nv /\ writeNeeded' = writeNeeded /\ bumps' = bumps
        /\ rc' = rc /\ cache' = cache /\ lost' = lost
        /\ pc = "down" /\ pc' = "fill" /\ file.state = "missing"
        /\ file' = [file EXCEPT !.state = "empty"]
    BY <1>1 DEF MakeFile
  <2>2. /\ file'.state = "empty" /\ file'.data = file.data
        /\ file' \in [state : {"missing", "empty", "short", "full"},
                      data : Configurations]
    BY <2>1 DEF TypeOK
  <2>3. TypeOK'
    BY <2>1, <2>2 DEF TypeOK
  <2> QED
    BY <2>1, <2>2, <2>3 DEF Shape
<1>2. CASE FindEmpty
  <2>1. TypeOK'
    BY <1>2 DEF FindEmpty, TypeOK
  <2> QED
    BY <1>2, <2>1 DEF FindEmpty, Shape
<1>3. CASE Load
  <2>1. TypeOK'
    BY <1>3 DEF Load, TypeOK
  <2> QED
    BY <1>3, <2>1 DEF Load, Shape
<1>4. CASE StartFails
  <2>1. TypeOK'
    BY <1>4 DEF StartFails, vars, TypeOK
  <2> QED
    BY <1>4, <2>1 DEF StartFails, vars, Shape
<1>5. CASE Crash
  <2>1. Down /\ file' = file /\ cache' = cache /\ lost' = lost
    BY <1>5 DEF Crash
  <2>2. lost' \in BOOLEAN /\ file' \in [state : {"missing", "empty", "short", "full"},
                                        data : Configurations]
    BY <2>1 DEF TypeOK
  <2>3. file'.state # "full" => file'.data = Factory
    BY <2>1 DEF Shape
  <2> QED
    BY <2>1, <2>2, <2>3, DownStructure
<1>6. ASSUME NEW ok \in BOOLEAN, Fill(ok) PROVE Structure'
  <2>1. /\ nv' = Factory /\ pc' = "idle" /\ writeNeeded' = FALSE
        /\ bumps' = bumps /\ rc' = rc /\ cache' = cache /\ pc = "fill"
        /\ Put(ok, Factory)
    BY <1>6 DEF Fill
  <2>2. /\ file' \in [state : {"missing", "empty", "short", "full"},
                      data : Configurations]
        /\ file'.data \in {Factory, file.data}
        /\ lost' \in BOOLEAN
    BY <2>1, PutLeaves, WriteLeaves, FactoryIsConfiguration DEF TypeOK
  <2>3. file.data = Factory
    BY <2>1 DEF Shape
  <2>4. TypeOK'
    BY <2>1, <2>2, FactoryIsConfiguration DEF TypeOK
  <2>5. Shape'
    BY <2>1, <2>2, <2>3 DEF Shape
  <2> QED
    BY <2>4, <2>5
<1>7. ASSUME NEW ok \in BOOLEAN, Sigint(ok) PROVE Structure'
  <2>1. Down /\ cache' = cache /\ Write(ok, nv)
    BY <1>7 DEF Sigint, Put
  <2>2. lost' \in BOOLEAN
    <3>1. CASE Put(ok, nv)
      BY <3>1, PutLeaves DEF TypeOK
    <3>2. CASE lost' = TRUE
      BY <3>2
    <3> QED
      BY <1>7, <3>1, <3>2 DEF Sigint
  <2>3. /\ file' \in [state : {"missing", "empty", "short", "full"},
                      data : Configurations]
        /\ file'.data \in {nv, file.data}
        /\ file'.state # "full" => file.state # "full" /\ file'.data = file.data
    BY <2>1, WriteLeaves DEF TypeOK
  <2>4. file'.state # "full" => file'.data = Factory
    BY <2>3 DEF Shape
  <2> QED
    BY <2>1, <2>2, <2>3, <2>4, DownStructure
<1>8. ASSUME NEW ok \in BOOLEAN, Save(ok) PROVE Structure'
  <2>1. /\ nv' = nv /\ pc = "save" /\ pc' = "reply" /\ writeNeeded' = FALSE
        /\ bumps' = bumps /\ rc' = rc /\ cache' = cache
        /\ Put(ok, nv) \/ (file' = file /\ lost' = lost)
    BY <1>8 DEF Save
  <2>2. /\ file' \in [state : {"missing", "empty", "short", "full"},
                      data : Configurations]
        /\ file'.data \in {nv, file.data}
        /\ file'.state # "full" => file.state # "full" /\ file'.data = file.data
        /\ lost' \in BOOLEAN
    <3>1. CASE Put(ok, nv)
      BY <3>1, PutLeaves, WriteLeaves DEF TypeOK
    <3>2. CASE file' = file /\ lost' = lost
      BY <3>2 DEF TypeOK
    <3> QED
      BY <2>1, <3>1, <3>2
  <2>3. TypeOK'
    BY <2>1, <2>2 DEF TypeOK
  <2>4. Shape'
    BY <2>1, <2>2 DEF Shape
  <2> QED
    BY <2>3, <2>4
<1>9. CASE Bump
  <2> DEFINE n == nv.configChangeCnt + bumps
  <2>1. /\ nv' = [nv EXCEPT !.configChangeCnt = @ + bumps]
        /\ writeNeeded' = (writeNeeded \/ bumps > 0) /\ bumps' = 0
        /\ pc = "bump" /\ pc' = "save" /\ file' = file /\ rc' = rc
        /\ cache' = cache /\ lost' = lost
    BY <1>9 DEF Bump
  <2>2. nv \in Configurations /\ bumps \in 0 .. 2 /\ n <= MaxCnt
    BY <2>1 DEF TypeOK, Shape
  <2>3. n \in 0 .. MaxCnt
    <3>1. nv.configChangeCnt \in 0 .. MaxCnt
      BY <2>2, Counter
    <3> QED
      BY SMT, <2>2, <3>1, CounterAssumption
  <2>4. nv' = [nv EXCEPT !.configChangeCnt = n]
    BY <2>1, <2>2 DEF Configurations
  <2>5. nv' \in Configurations
    BY <2>2, <2>3, <2>4, BurstParts
  <2>6. bumps' \in 0 .. 2 /\ ~(bumps' > 0)
    BY SMT, <2>1
  <2>7. writeNeeded' \in BOOLEAN
    BY <2>1
  <2>8. TypeOK'
    BY <2>1, <2>5, <2>6, <2>7 DEF TypeOK
  <2>9. Shape'
    BY <2>1, <2>6 DEF Shape
  <2> QED
    BY <2>8, <2>9
<1>10. CASE Reply
  <2>1. cache'.configChangeCnt \in 0 .. MaxCnt
    BY <1>10, Counter DEF Reply, TypeOK
  <2>2. TypeOK'
    BY <1>10, <2>1 DEF Reply, TypeOK
  <2> QED
    BY <1>10, <2>2 DEF Reply, Shape
<1>11. CASE Loaded
  <2>1. TypeOK'
    BY <1>11 DEF Loaded, TypeOK
  <2> QED
    BY <1>11, <2>1 DEF Loaded, Shape
<1>12. CASE CutStart
  <2>1. PICK k \in 0 .. 16 : nv' = Partly(nv, k)
    BY <1>12 DEF CutStart
  <2>2. nv' \in Configurations
    BY <2>1, PartlyIsConfiguration DEF TypeOK
  <2>3. TypeOK'
    BY <1>12, <2>2 DEF CutStart, TypeOK
  <2> QED
    BY <1>12, <2>3 DEF CutStart, Shape
<1>13. CASE CutCommand
  BY <1>13, CutsAreSound, CutStructure
<1> QED
  BY <1>1, <1>2, <1>3, <1>4, <1>5, <1>6, <1>7, <1>8, <1>9, <1>10, <1>11, <1>12,
     <1>13 DEF Process

\* Every step does.
LEMMA NextStructure ==
  ASSUME Structure, [Next]_vars
  PROVE  Structure'
<1>1. CASE Process
  BY <1>1, ProcessStructure
<1>2. CASE DeviceCommand \/ BurstCommand
  <2>1. SoundCommand
    BY <1>2, CommandsAreSound DEF Structure
  <2> QED
    BY <2>1, CommandStructure
<1>3. CASE UNCHANGED vars
  <2>1. TypeOK'
    BY <1>3 DEF vars, TypeOK, Structure
  <2> QED
    BY <1>3, <2>1 DEF vars, Structure, Shape
<1> QED
  BY <1>1, <1>2, <1>3 DEF Next

\* Counters are numbers, in the file and memory and in what a host has read.
LEMMA Counters ==
  ASSUME TypeOK
  PROVE  /\ Steady(nv).configChangeCnt \in Int
         /\ Steady(file.data).configChangeCnt \in Int
         /\ cache.configChangeCnt \in Int
         /\ Steady(nv).configChangeCnt = nv.configChangeCnt
         /\ Steady(file.data).configChangeCnt = file.data.configChangeCnt
<1>1. nv \in Configurations /\ file.data \in Configurations
  BY DEF TypeOK
<1>2. cache.configChangeCnt \in 0 .. MaxCnt
  BY DEF TypeOK
<1>3. cache.configChangeCnt \in Int
  BY <1>2, CountsAreInts
<1> QED
  BY <1>1, <1>3, Counter

\* Nothing gives back what was lost.
LEMMA LossStays ==
  ASSUME TypeOK, [Next]_vars, ~lost'
  PROVE  ~lost
<1>1. CASE Process
  <2>1. CASE CutCommand
    BY <2>1, CutsAreSound DEF SoundCut, Cut
  <2>2. CASE ~CutCommand
    <3>1. \/ lost' = lost
          \/ \E ok \in BOOLEAN, c \in {nv, Factory} : Put(ok, c)
      BY <1>1, <2>2 DEF Process, MakeFile, FindEmpty, Load, Loaded, StartFails,
                        CutStart, Crash, Fill, Sigint, Save, Bump, Reply, vars
    <3> QED
      BY <3>1, PutLeaves DEF TypeOK
  <2> QED
    BY <2>1, <2>2
<1>2. CASE DeviceCommand \/ BurstCommand
  BY <1>2 DEF DeviceCommand, BurstCommand, TooFew, Refuse, Accept, StoreItem,
              Cmd06, Cmd44, Cmd53, Cmd35, Cmd103, Cmd104, Cmd105, Cmd107,
              Cmd108, Cmd109, Handle
<1>3. CASE UNCHANGED vars
  BY <1>3 DEF vars
<1> QED
  BY <1>1, <1>2, <1>3 DEF Next

\* A command is counted before anything is kept of it.
LEMMA CommandVersions ==
  ASSUME Structure, Legal(nv), Versions, SoundCommand
  PROVE  Versions'
<1>1. PICK c \in Configurations, n \in 0 .. 2, needed \in BOOLEAN,
           code \in {"accepted", "refused"} :
             Handle(c, n, needed, code) /\ Sound(c, n, code)
  BY DEF SoundCommand
<1>2. /\ nv' = c /\ bumps' = n /\ pc' = "bump" /\ pc = "idle"
      /\ file' = file /\ cache' = cache
  BY <1>1 DEF Handle
<1>3. /\ Follows(Steady(file.data), cache) /\ file.state = "full"
      /\ Steady(file.data) = Steady(nv)
  BY <1>2 DEF Versions
<1>4. /\ c.configChangeCnt = nv.configChangeCnt
      /\ n = 0 => Steady(c) = Steady(nv)
  <2>1. c.configChangeCnt = nv.configChangeCnt
        /\ (Steady(c) # Steady(nv) => n > 0)
    BY <1>1 DEF Sound
  <2>2. n = 0 => ~(n > 0)
    BY SMT
  <2> QED
    BY <2>1, <2>2
<1>5. nv.configChangeCnt = file.data.configChangeCnt
  BY <1>3, Counters DEF Structure
<1> QED
  BY <1>2, <1>3, <1>4, <1>5 DEF Versions

\* The steps of the process, unless they lose something.
LEMMA ProcessVersions ==
  ASSUME Structure, Structure', Versions, Process, ~lost'
  PROVE  Versions'
<1> DEFINE saved == Steady(file.data)
           held  == Steady(nv)
<1>1. /\ held.configChangeCnt \in Int /\ saved.configChangeCnt \in Int
      /\ cache.configChangeCnt \in Int
      /\ held.configChangeCnt = nv.configChangeCnt
      /\ saved.configChangeCnt = file.data.configChangeCnt
  BY Counters DEF Structure
<1>2. Follows(saved, cache)
  BY DEF Versions
<1>3. CASE MakeFile \/ FindEmpty
  <2>1. /\ cache' = cache /\ pc' = "fill" /\ file'.data = file.data
    BY <1>3 DEF MakeFile, FindEmpty, Structure, TypeOK
  <2> QED
    BY <1>2, <2>1 DEF Versions
<1>4. CASE Load \/ Loaded
  BY <1>2, <1>4 DEF Load, Loaded, Versions
<1>5. CASE StartFails
  BY <1>2, <1>5 DEF StartFails, vars, Versions
<1>6. CASE Crash
  BY <1>2, <1>6 DEF Crash, Down, Versions
<1>7. ASSUME NEW ok \in BOOLEAN, Fill(ok) PROVE Versions'
  <2>1. /\ nv' = Factory /\ pc' = "idle" /\ cache' = cache
        /\ pc = "fill" /\ Put(ok, Factory)
    BY <1>7 DEF Fill
  <2>2. file'.state = "full" /\ file'.data = Factory
    BY <2>1, PutLeaves DEF Structure, TypeOK
  <2>3. file.data = Factory
    BY <2>1 DEF Structure, Shape
  <2> QED
    BY <1>2, <2>1, <2>2, <2>3 DEF Versions
<1>8. ASSUME NEW ok \in BOOLEAN, Sigint(ok) PROVE Versions'
  <2>1. /\ pc \in {"idle", "bump", "save", "reply"}
        /\ bumps = 0 /\ Put(ok, nv)
        /\ pc' = "down" /\ cache' = cache
    BY <1>8 DEF Sigint, Down
  <2>2. file'.data = nv
    BY <2>1, PutLeaves DEF Structure, TypeOK
  <2>3. saved = held \/ (pc = "save" /\ Follows(held, saved))
    BY <2>1 DEF Versions
  <2>4. Follows(held, cache)
    BY <1>1, <1>2, <2>3, FollowsIsOrder
  <2> QED
    BY <2>1, <2>2, <2>4 DEF Versions
<1>9. ASSUME NEW ok \in BOOLEAN, Save(ok) PROVE Versions'
  <2>1. /\ nv' = nv /\ pc = "save" /\ pc' = "reply" /\ cache' = cache
        /\ IF writeNeeded THEN Put(ok, nv) ELSE UNCHANGED <<file, lost>>
    BY <1>9 DEF Save
  <2>2. Follows(held, saved) /\ (saved = held \/ writeNeeded)
        /\ file.state = "full"
    BY <2>1 DEF Versions
  <2>3. Follows(held, cache)
    BY <1>1, <1>2, <2>2, FollowsIsOrder
  <2>4. file'.state = "full" /\ Steady(file'.data) = held
    <3>1. CASE writeNeeded
      BY <2>1, <3>1, PutLeaves DEF Structure, TypeOK
    <3>2. CASE ~writeNeeded
      BY <2>1, <2>2, <3>2
    <3> QED
      BY <3>1, <3>2
  <2> QED
    BY <2>1, <2>3, <2>4 DEF Versions
<1>10. CASE Bump
  <2> DEFINE k == nv.configChangeCnt + bumps
  <2>1. /\ nv' = [nv EXCEPT !.configChangeCnt = @ + bumps]
        /\ writeNeeded' = (writeNeeded \/ bumps > 0)
        /\ pc = "bump" /\ pc' = "save" /\ file' = file /\ cache' = cache
    BY <1>10 DEF Bump
  <2>2. nv \in Configurations /\ nv' \in Configurations /\ bumps \in 0 .. 2
    BY DEF Structure, TypeOK
  <2>3. /\ file.state = "full"
        /\ file.data.configChangeCnt = nv.configChangeCnt
        /\ bumps = 0 => saved = held
    BY <2>1 DEF Versions
  <2>4. nv'.configChangeCnt = k
    <3>1. "configChangeCnt" \in DOMAIN nv
      BY <2>2 DEF Configurations
    <3> QED
      BY <2>1, <3>1
  <2>5. Steady(nv').configChangeCnt = k /\ k \in Int /\ nv.configChangeCnt \in Int
    BY <2>2, <2>4, Counter
  <2>6. CASE bumps = 0
    <3>1. k = nv.configChangeCnt
      BY SMT, <2>5, <2>6
    <3>2. nv' = nv
      <4>1. nv' = [nv EXCEPT !.configChangeCnt = nv.configChangeCnt]
        BY <2>1, <3>1
      <4>2. nv \in Configurations
        BY <2>2
      <4>3. [nv EXCEPT !.configChangeCnt = nv.configChangeCnt] = nv
        BY SMT, <4>2 DEF Configurations
      <4> QED
        BY <4>1, <4>3
    <3>3. Follows(held, saved) /\ saved = held
      BY <1>1, <2>3, <2>6, FollowsIsOrder
    <3> QED
      BY <1>2, <2>1, <2>3, <3>2, <3>3 DEF Versions
  <2>7. CASE bumps # 0
    <3>1. bumps > 0 /\ nv.configChangeCnt < k
      BY SMT, <2>2, <2>5, <2>7
    <3>2. saved.configChangeCnt < k
      BY <1>1, <2>3, <3>1
    <3>3. Follows(Steady(nv'), saved)
      BY SMT, <1>1, <2>5, <3>2 DEF Follows
    <3>4. writeNeeded' = TRUE
      BY <2>1, <3>1
    <3> QED
      BY <1>2, <2>1, <2>3, <3>3, <3>4 DEF Versions
  <2> QED
    BY <2>6, <2>7
<1>11. CASE Reply
  <2>1. /\ cache' \in {cache, held} /\ pc = "reply" /\ pc' = "idle"
        /\ nv' = nv /\ file' = file
    BY <1>11 DEF Reply
  <2>2. file.state = "full" /\ saved = held
    BY <2>1 DEF Versions
  <2>3. Follows(saved, cache')
    BY <1>1, <1>2, <2>1, <2>2, FollowsIsOrder
  <2> QED
    BY <2>1, <2>2, <2>3 DEF Versions
<1>12. CASE CutStart
  BY <1>2, <1>12 DEF CutStart, Versions
<1>13. CASE CutCommand
  <2>1. SoundCut
    BY <1>13, CutsAreSound DEF Structure
  <2>2. pc' = "cut" /\ file' = file /\ cache' = cache
    BY <2>1 DEF SoundCut, Cut
  <2> QED
    BY <1>2, <2>2 DEF Versions
<1> QED
  BY <1>3, <1>4, <1>5, <1>6, <1>7, <1>8, <1>9, <1>10, <1>11, <1>12, <1>13
     DEF Process

\* The update periods stay settled, unless something is lost.
LEMMA NextSettled ==
  ASSUME Structure, Settled, [Next]_vars, ~lost'
  PROVE  Settled'
<1>1. SettledTimes(Factory) /\ SettledTimes(file.data)
  BY DEF SettledTimes, Settled
<1>2. CASE MakeFile \/ FindEmpty
  <2>1. /\ nv' = nv /\ pc' = "fill" /\ file'.data = file.data
        /\ nv = Factory
    BY <1>2 DEF MakeFile, FindEmpty, Structure, TypeOK, Shape
  <2> QED
    BY <1>1, <2>1 DEF Settled
<1>3. CASE Load
  BY <1>1, <1>3 DEF Load, Settled
<1>4. CASE Loaded \/ StartFails \/ Reply
  BY <1>4 DEF Loaded, StartFails, Reply, vars, Settled
<1>5. CASE CutStart
  BY <1>1, <1>5 DEF CutStart, Settled
<1>6. CASE CutCommand
  <2>1. SoundCut
    BY <1>6, CutsAreSound DEF Structure
  <2> QED
    BY <1>1, <2>1 DEF SoundCut, Cut, Settled
<1>7. CASE Crash
  BY <1>1, <1>7 DEF Crash, Down, Settled
<1>8. ASSUME NEW ok \in BOOLEAN, Fill(ok) PROVE Settled'
  <2>1. nv' = Factory /\ Put(ok, Factory)
    BY <1>8 DEF Fill
  <2>2. file'.data = Factory
    BY <2>1, PutLeaves DEF Structure, TypeOK
  <2> QED
    BY <1>1, <2>1, <2>2 DEF Settled
<1>9. ASSUME NEW ok \in BOOLEAN, Sigint(ok) PROVE Settled'
  <2>1. pc # "cut" /\ Put(ok, nv) /\ nv' = Factory
    BY <1>9 DEF Sigint, Down
  <2>2. file'.data = nv
    BY <2>1, PutLeaves DEF Structure, TypeOK
  <2> QED
    BY <1>1, <2>1, <2>2 DEF Settled
<1>10. ASSUME NEW ok \in BOOLEAN, Save(ok) PROVE Settled'
  <2>1. /\ nv' = nv /\ pc = "save" /\ pc' = "reply"
        /\ Put(ok, nv) \/ file' = file
    BY <1>10 DEF Save
  <2>2. file'.data \in {nv, file.data}
    BY <2>1, PutLeaves DEF Structure, TypeOK
  <2> QED
    BY <1>1, <2>1, <2>2 DEF Settled
<1>11. CASE Bump
  <2>1. /\ nv' = [nv EXCEPT !.configChangeCnt = @ + bumps]
        /\ pc = "bump" /\ pc' = "save" /\ file' = file
    BY <1>11 DEF Bump
  <2>2. nv'.Period = nv.Period /\ nv'.MaxPer = nv.MaxPer
    <3>1. nv \in Configurations
      BY DEF Structure, TypeOK
    <3> QED
      BY <2>1, <3>1 DEF Configurations
  <2> QED
    BY <1>1, <2>1, <2>2 DEF Settled, SettledTimes, Legal
<1>12. CASE DeviceCommand \/ BurstCommand
  <2>1. SoundCommand
    BY <1>12, CommandsAreSound DEF Structure
  <2>2. /\ SettledTimes(nv) => SettledTimes(nv')
        /\ file' = file /\ pc = "idle" /\ pc' = "bump"
    BY <2>1 DEF SoundCommand, Handle, Sound
  <2> QED
    BY <1>1, <2>2 DEF Settled
<1>13. CASE UNCHANGED vars
  BY <1>13 DEF vars, Settled
<1> QED
  BY <1>2, <1>3, <1>4, <1>5, <1>6, <1>7, <1>8, <1>9, <1>10, <1>11, <1>12, <1>13
     DEF Next, Process

-----------------------------------------------------------------------------
(* The theorems. *)

\* The inductive invariant holds at the start and at every step.
LEMMA InitIInv ==
  ASSUME Init
  PROVE  IInv
<1>1. Structure
  BY InitStructure
<1>2. Settled
  BY DEF Init, Settled, SettledTimes
<1> QED
  BY <1>1, <1>2 DEF IInv

LEMMA NextIInv ==
  ASSUME IInv, [Next]_vars
  PROVE  IInv'
<1>1. Structure /\ Structure'
  BY NextStructure DEF IInv
<1>2. ASSUME ~lost' PROVE Settled'
  <2>1. Settled
    BY <1>1, <1>2, LossStays DEF IInv, Structure
  <2> QED
    BY <1>1, <1>2, <2>1, NextSettled
<1> QED
  BY <1>1, <1>2 DEF IInv

\* Whatever commands come and however the process ends, every step keeps the
\* inductive invariant.
THEOREM Invariance == Spec => []IInv
BY InitIInv, NextIInv, PTL DEF Spec

\* Until something is lost, what is held and kept is counted, when the factory's
\* update periods are settled ones.
LEMMA InitCounted ==
  ASSUME Init
  PROVE  CountedInv
<1>1. /\ nv = Factory /\ file.data = Factory /\ pc = "down"
      /\ cache = Steady(Factory)
  BY DEF Init
<1>2. Follows(Steady(Factory), Steady(Factory))
  BY <1>1, InitStructure, Counters, FollowsIsOrder DEF Structure
<1> QED
  BY <1>1, <1>2 DEF Versions, CountedInv

LEMMA NextCounted ==
  ASSUME FactoryTimesLegal, IInv, CountedInv, [Next]_vars
  PROVE  CountedInv'
<1>1. Structure /\ Structure' /\ TypeOK
  BY NextStructure DEF IInv, Structure
<1>2. ASSUME ~lost' PROVE Versions'
  <2>1. Versions /\ Settled
    BY <1>1, <1>2, LossStays DEF IInv, CountedInv
  <2>2. CASE Process
    BY <1>1, <1>2, <2>1, <2>2, ProcessVersions
  <2>3. CASE DeviceCommand \/ BurstCommand
    <3>1. SoundCommand
      BY <1>1, <2>3, CommandsAreSound
    <3>2. Legal(nv)
      <4>1. pc = "idle"
        BY <3>1 DEF SoundCommand, Handle
      <4> QED
        BY <2>1, <4>1 DEF Settled, SettledTimes, FactoryTimesLegal, Legal
    <3> QED
      BY <1>1, <2>1, <3>1, <3>2, CommandVersions
  <2>4. CASE UNCHANGED vars
    BY <2>1, <2>4 DEF vars, Versions
  <2> QED
    BY <2>2, <2>3, <2>4 DEF Next
<1> QED
  BY <1>2 DEF CountedInv

THEOREM CountedInvariance ==
  ASSUME FactoryTimesLegal PROVE Spec => [](IInv /\ CountedInv)
<1>1. Init => IInv /\ CountedInv
  BY InitIInv, InitCounted
<1>2. IInv /\ CountedInv /\ [Next]_vars => (IInv /\ CountedInv)'
  BY NextIInv, NextCounted
<1> QED
  BY <1>1, <1>2, PTL DEF Spec

\* No handler leaves a configuration with a part outside its type, whole or cut
\* short by SIGINT, in memory or in the file: no trigger is classified, no index
\* leads out of the table of variables, and the counter is inside its bound.
THEOREM TypeCorrect == Spec => []TypeOK
<1>1. IInv => TypeOK
  BY DEF IInv, Structure
<1> QED
  BY Invariance, <1>1, PTL

\* Until a write fails or SIGINT keeps half a change, the update periods in the
\* file are the factory's or come from the table in order, and so are those in
\* memory, but for the moments in which a handler or a start is cut short:
\* cmd_c103.h has the host's in memory before it settles them.
THEOREM TimesSettled == Spec => [](~lost => Settled)
<1>1. IInv => (~lost => Settled)
  BY DEF IInv
<1> QED
  BY Invariance, <1>1, PTL

\* A host may trust what it read for as long as the counter has not moved.
THEOREM CounterNames ==
  ASSUME FactoryTimesLegal PROVE Spec => []CounterNamesConfiguration
<1>1. IInv /\ CountedInv => CounterNamesConfiguration
  <2> SUFFICES ASSUME IInv, CountedInv, pc = "idle", ~lost,
                      cache.configChangeCnt = nv.configChangeCnt
               PROVE  cache = Steady(nv)
    BY DEF CounterNamesConfiguration
  <2>1. Follows(Steady(nv), cache) /\ TypeOK
    BY DEF IInv, CountedInv, Versions, Structure
  <2>2. Steady(nv).configChangeCnt = nv.configChangeCnt
    BY <2>1, Counters
  <2> QED
    BY <2>1, <2>2 DEF Follows
<1> QED
  BY CountedInvariance, <1>1, PTL

\* A device that answers has saved what it answers about.
THEOREM AnswersAreSaved ==
  ASSUME FactoryTimesLegal PROVE Spec => []SavedIsCurrent
<1>1. IInv /\ CountedInv => SavedIsCurrent
  BY DEF CountedInv, Versions, SavedIsCurrent
<1> QED
  BY CountedInvariance, <1>1, PTL

\* A refused command leaves every counted part of the configuration alone.
THEOREM RefusalsKeep == Spec => RefusedKeeps
<1>1. ASSUME IInv, [Next]_vars, pc = "idle", pc' = "bump", rc' = "refused"
      PROVE  Steady(nv') = Steady(nv)
  <2>1. CASE CutCommand
    <3>1. SoundCut
      BY <1>1, <2>1, CutsAreSound DEF IInv, Structure
    <3> QED
      BY <1>1, <3>1 DEF SoundCut, Cut
  <2>2. CASE Process /\ ~CutCommand
    BY <1>1, <2>2 DEF Process, MakeFile, FindEmpty, Load, Loaded, StartFails,
                      CutStart, Crash, Down, Fill, Sigint, Save, Bump, Reply, vars
  <2>3. CASE DeviceCommand \/ BurstCommand
    <3>1. SoundCommand
      BY <1>1, <2>3, CommandsAreSound DEF IInv, Structure
    <3> QED
      BY <1>1, <3>1 DEF SoundCommand, Handle, Sound
  <2>4. CASE UNCHANGED vars
    BY <2>4 DEF vars
  <2> QED
    BY <1>1, <2>1, <2>2, <2>3, <2>4 DEF Next
<1>2. IInv /\ [Next]_vars
        => [pc = "idle" /\ pc' = "bump" /\ rc' = "refused"
              => Steady(nv') = Steady(nv)]_vars
  BY <1>1
<1> QED
  BY Invariance, <1>2, PTL DEF Spec, RefusedKeeps

\* Every step of the device is a step of the store or leaves it alone.
LEMMA StoreStep ==
  ASSUME IInv, IInv', [Next]_vars
  PROVE  [Store!Next]_Store!vars
<1> DEFINE up == pc # "down"
<1>1. nv' \in Configurations /\ file \in [state : {"missing", "empty", "short", "full"},
                                          data : Configurations]
  BY DEF IInv, Structure, TypeOK
<1>2. CASE up /\ up' /\ file'.data = file.data
  BY <1>1, <1>2 DEF Store!Next, Store!Change
<1>3. CASE up /\ up' /\ file'.data = nv /\ nv' = nv
  BY <1>3 DEF Store!Next, Store!Keep
<1>4. CASE up /\ ~up' /\ nv' = Factory /\ file'.data \in {file.data, nv}
  BY <1>4 DEF Store!Next, Store!Stop
<1>5. CASE ~up /\ up' /\ nv' = file.data /\ file'.data = file.data
  BY <1>5 DEF Store!Next, Store!Start
<1>6. CASE up' = up /\ nv' = nv /\ file'.data = file.data
  BY <1>6 DEF Store!vars
<1>7. ASSUME DeviceCommand \/ BurstCommand PROVE up /\ up' /\ file' = file
  <2>1. SoundCommand
    BY <1>7, CommandsAreSound DEF IInv, Structure
  <2> QED
    BY <2>1 DEF SoundCommand, Handle
<1>8. ASSUME NEW ok \in BOOLEAN, NEW c \in {nv, Factory}, Write(ok, c)
      PROVE  file'.data \in {c, file.data}
  BY <1>1, <1>8, WriteLeaves, FactoryIsConfiguration DEF IInv, Structure, TypeOK
<1>9. CASE Process
  <2>1. CASE MakeFile \/ FindEmpty
    <3>1. /\ ~up /\ up' /\ nv' = nv /\ nv = Factory
          /\ file.state # "full"
      BY <2>1 DEF MakeFile, FindEmpty, IInv, Structure, Shape
    <3>2. file'.data = file.data
      BY <1>1, <2>1 DEF MakeFile, FindEmpty
    <3>3. file.data = Factory
      BY <3>1 DEF IInv, Structure, Shape
    <3> QED
      BY <1>5, <3>1, <3>2, <3>3
  <2>2. CASE Load
    BY <1>5, <2>2 DEF Load
  <2>3. CASE StartFails \/ Loaded \/ Reply
    <3>1. up' = up /\ nv' = nv /\ file' = file
      BY <2>3 DEF StartFails, Loaded, Reply, vars
    <3> QED
      BY <1>6, <3>1
  <2>4. CASE Crash
    BY <1>4, <2>4 DEF Crash, Down
  <2>5. ASSUME NEW ok \in BOOLEAN, Fill(ok) PROVE [Store!Next]_Store!vars
    <3>1. /\ up /\ up' /\ nv' = nv /\ nv = Factory
          /\ Write(ok, Factory) /\ file.data = Factory
      BY <2>5 DEF Fill, Put, IInv, Structure, Shape
    <3> QED
      BY <1>6, <1>8, <3>1
  <2>6. ASSUME NEW ok \in BOOLEAN, Sigint(ok) PROVE [Store!Next]_Store!vars
    <3>1. up /\ ~up' /\ nv' = Factory /\ Write(ok, nv)
      BY <2>6 DEF Sigint, Down, Put
    <3> QED
      BY <1>4, <1>8, <3>1
  <2>7. ASSUME NEW ok \in BOOLEAN, Save(ok) PROVE [Store!Next]_Store!vars
    <3>1. up /\ up' /\ nv' = nv /\ (Write(ok, nv) \/ file' = file)
      BY <2>7 DEF Save, Put
    <3> QED
      BY <1>3, <1>6, <1>8, <3>1
  <2>8. CASE Bump
    BY <1>2, <2>8 DEF Bump
  <2>9. CASE CutStart
    BY <1>2, <2>9 DEF CutStart
  <2>10. CASE CutCommand
    <3>1. SoundCut
      BY <2>10, CutsAreSound DEF IInv, Structure
    <3> QED
      BY <1>2, <3>1 DEF SoundCut, Cut
  <2> QED
    BY <1>9, <2>1, <2>2, <2>3, <2>4, <2>5, <2>6, <2>7, <2>8, <2>9, <2>10
       DEF Process
<1>10. CASE UNCHANGED vars
  BY <1>6, <1>10 DEF vars
<1> QED
  BY <1>2, <1>7, <1>9, <1>10 DEF Next

\* The device and its file implement the store of ConfigStore: a start takes
\* up what was kept last, and nothing is kept but what the device works with,
\* half a change included when SIGINT comes in the middle of one.
THEOREM ImplementsStore == Spec => KeepsConfiguration
<1>1. Init => Store!Init
  BY DEF Init, Store!Init
<1>2. IInv /\ IInv' /\ [Next]_vars => [Store!Next]_Store!vars
  BY StoreStep
<1> QED
  BY Invariance, <1>1, <1>2, PTL DEF Spec, KeepsConfiguration, Store!Spec
=============================================================================
