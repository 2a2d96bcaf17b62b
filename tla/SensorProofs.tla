----------------------------- MODULE SensorProofs -----------------------------
(***************************************************************************)
(* Proofs about the input of the sensors: SensorThreads, the threads that  *)
(* bring the readings, and RunningAverage, what they are added to.         *)
(*                                                                         *)
(* Whatever the number of inputs, channels and samples, the threads come   *)
(* up and go down together, the semaphore admits one of them and outlives  *)
(* both, and no average mixes the inputs.  Each average is a window over   *)
(* the last readings; a ring of any size, holding any values, implements   *)
(* such a window; and a total of any width is exact within it.             *)
(***************************************************************************)
EXTENDS SensorThreads, RunningAverage, SequenceTheorems, FiniteSetTheorems, TLAPS

\* The data thread exists from init_phy() on, the IO thread once the data
\* thread has created it.
BornInv ==
  /\ main \in {"configured", "failed"} => data = "none"
  /\ data \in {"none", "create"} => io = "none"
  /\ main = "configured" => semUp = "none"
  /\ main \in {"phy", "killing"} => semUp = "up"

\* A die flag stands only while the thread it was set by waits for the other.
DieInv ==
  /\ dieDataThDie => main \in {"killing", "exited"}
  /\ dieThreadDie => data = "ending"
  /\ main = "killing" /\ ~dieDataThDie => data = "ended"
  /\ data = "ending" /\ ~dieThreadDie => io = "ended"
  /\ data = "ended" => io = "ended"
  /\ main = "running" => burst \/ data = "ended"

LifeInv == BornInv /\ DieInv /\ SemaphoreOutlivesUsers

-----------------------------------------------------------------------------
(* The life of the threads. *)

\* No step of the program breaks the order in which the threads come and go:
\* the flags are set and taken back in turn, and the semaphore goes last.
LEMMA LifeStep == LifeInv /\ [Next]_vars => LifeInv'
<1> SUFFICES ASSUME LifeInv, [Next]_vars
             PROVE  LifeInv'
  OBVIOUS
<1> USE DEF LifeInv, BornInv, DieInv, SemaphoreOutlivesUsers
<1>1. CASE init_phy
  BY <1>1 DEF init_phy, ioVars
<1>2. CASE init_phy_Fails
  BY <1>2 DEF init_phy_Fails, dataVars, ioVars
<1>3. CASE init_burst
  BY <1>3 DEF init_burst, dataVars, ioVars, semVars
<1>4. CASE init_burst_Fails
  BY <1>4 DEF init_burst_Fails, dataVars, ioVars, semVars
<1>5. CASE kill_phy
  BY <1>5 DEF kill_phy, dataVars, ioVars
<1>6. CASE CreateIO
  BY <1>6 DEF CreateIO, mainVars, semVars
<1>7. CASE CheckData
  BY <1>7 DEF CheckData, mainVars, ioVars, semVars
<1>8. CASE WaitUpdate
  BY <1>8 DEF WaitUpdate, mainVars, ioVars, semVars
<1>9. CASE TakeForData
  BY <1>9 DEF TakeForData, mainVars, ioVars, sem_wait
<1>10. CASE AddToAverage
  BY <1>10 DEF AddToAverage, mainVars, ioVars, semVars
<1>11. CASE NextChannel
  BY <1>11 DEF NextChannel, mainVars, ioVars, sem_post
<1>12. CASE EndData
  BY <1>12 DEF EndData, mainVars, ioVars, semVars
<1>13. CASE InitIO
  BY <1>13 DEF InitIO, mainVars, dataVars, semVars
<1>14. CASE WrongChip
  BY <1>14 DEF WrongChip, mainVars, dataVars, semVars
<1>15. CASE CheckIO
  BY <1>15 DEF CheckIO, mainVars, dataVars, semVars
<1>16. CASE SelectInput
  BY <1>16 DEF SelectInput, mainVars, dataVars, semVars
<1>17. CASE ReadResult
  BY <1>17 DEF ReadResult, mainVars, dataVars, semVars
<1>18. CASE TakeForIO
  BY <1>18 DEF TakeForIO, mainVars, dataVars, sem_wait
<1>19. CASE Store
  BY <1>19 DEF Store, mainVars, dataVars, semVars
<1>20. CASE PostIO
  BY <1>20 DEF PostIO, mainVars, dataVars, sem_post
<1>21. CASE EndIO
  BY <1>21 DEF EndIO, mainVars, dataVars, semVars
<1>22. CASE Convert
  BY <1>22 DEF Convert, mainVars, dataVars, ioVars, semVars
<1>23. CASE Exit
  BY <1>23 DEF Exit, dataVars, ioVars, semVars
<1>24. CASE UNCHANGED vars
  BY <1>24 DEF vars, mainVars, dataVars, ioVars, semVars
<1> QED
  BY <1>1, <1>2, <1>3, <1>4, <1>5, <1>6, <1>7, <1>8, <1>9, <1>10, <1>11, <1>12,
     <1>13, <1>14, <1>15, <1>16, <1>17, <1>18, <1>19, <1>20, <1>21, <1>22,
     <1>23, <1>24
     DEF Next, start_system, run_data, run_io

LEMMA LifeHolds == Spec => []LifeInv
<1>1. Init => LifeInv
  BY DEF Init, LifeInv, BornInv, DieInv, SemaphoreOutlivesUsers
<1> QED
  BY <1>1, LifeStep, PTL DEF Spec
-----------------------------------------------------------------------------
(* The semaphore. *)

SemInv == /\ SemaphoreExcludes
          /\ semCount \in 0 .. 1

\* A step that leaves the semaphore, and who holds it, leaves the invariant.
LEMMA SemKept ==
  ASSUME SemInv, UNCHANGED semVars, DataHolds' <=> DataHolds, IOHolds' <=> IOHolds
  PROVE  SemInv'
BY DEF SemInv, SemaphoreExcludes, semVars

\* A thread takes the semaphore when it is free and gives it back when it holds
\* it; it is made once, and destroyed when both threads have ended.
LEMMA SemStep == LifeInv /\ SemInv /\ [Next]_vars => SemInv'
<1> SUFFICES ASSUME LifeInv, SemInv, [Next]_vars
             PROVE  SemInv'
  OBVIOUS
<1> USE DEF SemInv, SemaphoreExcludes, DataHolds, IOHolds
<1>1. CASE init_phy
  BY <1>1 DEF init_phy, ioVars, converter, LifeInv, BornInv
<1>2. CASE init_phy_Fails
  BY <1>2 DEF init_phy_Fails, dataVars, ioVars, converter
<1>3. CASE init_burst
  BY <1>3 DEF init_burst, dataVars, ioVars, semVars, converter
<1>4. CASE init_burst_Fails
  BY <1>4 DEF init_burst_Fails, dataVars, ioVars, semVars, converter
<1>5. CASE kill_phy
  BY <1>5 DEF kill_phy, dataVars, ioVars, converter
<1>6. CASE CreateIO
  <2>1. CASE data' = "check" /\ io' = "init"
    BY <1>6, <2>1 DEF CreateIO, mainVars, semVars, LifeInv, BornInv
  <2>2. CASE data' = "lost" /\ UNCHANGED io
    BY <1>6, <2>2 DEF CreateIO, mainVars, semVars, converter
  <2> QED
    BY <1>6, <2>1, <2>2 DEF CreateIO
<1>7. CASE CheckData
  <2>1. UNCHANGED semVars
    BY <1>7 DEF CheckData
  <2>2. (DataHolds' <=> DataHolds) /\ (IOHolds' <=> IOHolds)
    BY <1>7 DEF CheckData, mainVars, ioVars, converter
  <2> QED
    BY <2>1, <2>2, SemKept
<1>8. CASE WaitUpdate
  <2>1. UNCHANGED semVars
    BY <1>8 DEF WaitUpdate
  <2>2. (DataHolds' <=> DataHolds) /\ (IOHolds' <=> IOHolds)
    BY <1>8 DEF WaitUpdate, mainVars, ioVars, converter
  <2> QED
    BY <2>1, <2>2, SemKept
<1>9. CASE TakeForData
  BY <1>9 DEF TakeForData, mainVars, ioVars, sem_wait, converter
<1>10. CASE AddToAverage
  BY <1>10 DEF AddToAverage, mainVars, ioVars, semVars, converter
<1>11. CASE NextChannel
  BY <1>11 DEF NextChannel, mainVars, ioVars, sem_post, converter, LifeInv,
             SemaphoreOutlivesUsers
<1>12. CASE EndData
  <2>1. UNCHANGED semVars
    BY <1>12 DEF EndData
  <2>2. (DataHolds' <=> DataHolds) /\ (IOHolds' <=> IOHolds)
    BY <1>12 DEF EndData, mainVars, ioVars, converter
  <2> QED
    BY <2>1, <2>2, SemKept
<1>13. CASE InitIO
  BY <1>13 DEF InitIO, mainVars, dataVars, semVars, converter, StartScan
<1>14. CASE WrongChip
  BY <1>14 DEF WrongChip, mainVars, dataVars, semVars, converter
<1>15. CASE CheckIO
  <2>1. UNCHANGED semVars
    BY <1>15 DEF CheckIO
  <2>2. (DataHolds' <=> DataHolds) /\ (IOHolds' <=> IOHolds)
    BY <1>15 DEF CheckIO, mainVars, dataVars, converter
  <2> QED
    BY <2>1, <2>2, SemKept
<1>16. CASE SelectInput
  <2>1. UNCHANGED semVars
    BY <1>16 DEF SelectInput
  <2>2. (DataHolds' <=> DataHolds) /\ (IOHolds' <=> IOHolds)
    BY <1>16 DEF SelectInput, mainVars, dataVars
  <2> QED
    BY <2>1, <2>2, SemKept
<1>17. CASE ReadResult
  <2>1. UNCHANGED semVars
    BY <1>17 DEF ReadResult
  <2>2. (DataHolds' <=> DataHolds) /\ (IOHolds' <=> IOHolds)
    BY <1>17 DEF ReadResult, mainVars, dataVars, converter
  <2> QED
    BY <2>1, <2>2, SemKept
<1>18. CASE TakeForIO
  BY <1>18 DEF TakeForIO, mainVars, dataVars, sem_wait, converter
<1>19. CASE Store
  <2>1. UNCHANGED semVars
    BY <1>19 DEF Store
  <2>2. (DataHolds' <=> DataHolds) /\ (IOHolds' <=> IOHolds)
    BY <1>19 DEF Store, mainVars, dataVars, converter
  <2> QED
    BY <2>1, <2>2, SemKept
<1>20. CASE PostIO
  BY <1>20 DEF PostIO, mainVars, dataVars, sem_post, converter, LifeInv,
             SemaphoreOutlivesUsers
<1>21. CASE EndIO
  <2>1. UNCHANGED semVars
    BY <1>21 DEF EndIO
  <2>2. (DataHolds' <=> DataHolds) /\ (IOHolds' <=> IOHolds)
    BY <1>21 DEF EndIO, mainVars, dataVars, converter
  <2> QED
    BY <2>1, <2>2, SemKept
<1>22. CASE Convert
  BY <1>22 DEF Convert, mainVars, dataVars, ioVars, semVars
<1>23. CASE Exit
  BY <1>23 DEF Exit, dataVars, ioVars, semVars, converter
<1>24. CASE UNCHANGED vars
  BY <1>24 DEF vars, mainVars, dataVars, ioVars, semVars, converter
<1> QED
  BY <1>1, <1>2, <1>3, <1>4, <1>5, <1>6, <1>7, <1>8, <1>9, <1>10, <1>11,
     <1>12, <1>13, <1>14, <1>15, <1>16, <1>17, <1>18, <1>19, <1>20, <1>21,
     <1>22, <1>23, <1>24
     DEF Next, start_system, run_data, run_io

LEMMA SemHolds == Spec => []SemInv
<1>1. Init => SemInv
  BY DEF Init, SemInv, SemaphoreExcludes, DataHolds, IOHolds
<1> QED
  BY <1>1, SemStep, LifeHolds, PTL DEF Spec

-----------------------------------------------------------------------------
(* The types. *)

\* The constants make room for a channel and for the input after the last.
LEMMA Room ==
  /\ Inputs \in Nat /\ chCnt \in Nat /\ DEFLTSZ \in Nat
  /\ 1 <= chCnt /\ chCnt < Inputs /\ 1 <= DEFLTSZ
BY InputsAssumption, LengthAssumption

LEMMA TypeStep == SemInv' /\ TypeOK /\ [Next]_vars => TypeOK'
<1> SUFFICES ASSUME SemInv', TypeOK, [Next]_vars
             PROVE  TypeOK'
  OBVIOUS
<1> USE Room
<1> USE DEF TypeOK, SemInv, Channels, Tags, NoReading
<1>1. CASE init_phy
  BY <1>1 DEF init_phy, ioVars, converter
<1>2. CASE init_phy_Fails
  BY <1>2 DEF init_phy_Fails, dataVars, ioVars, converter
<1>3. CASE init_burst
  BY <1>3 DEF init_burst, dataVars, ioVars, semVars, converter
<1>4. CASE init_burst_Fails
  BY <1>4 DEF init_burst_Fails, dataVars, ioVars, semVars, converter
<1>5. CASE kill_phy
  BY <1>5 DEF kill_phy, dataVars, ioVars, converter
<1>6. CASE CreateIO
  <2>1. CASE data' = "check" /\ io' = "init"
    BY <1>6, <2>1 DEF CreateIO, mainVars, semVars, converter
  <2>2. CASE data' = "lost" /\ UNCHANGED io
    BY <1>6, <2>2 DEF CreateIO, mainVars, semVars, converter
  <2> QED
    BY <1>6, <2>1, <2>2 DEF CreateIO
<1>7. CASE CheckData
  <2>1. dieThreadDie' \in BOOLEAN
    BY <1>7 DEF CheckData
  <2> QED
    BY <1>7, <2>1 DEF CheckData, mainVars, ioVars, semVars, converter
<1>8. CASE WaitUpdate
  <2>1. pending' \in BOOLEAN
    BY <1>8 DEF WaitUpdate
  <2>2. dataCh' \in Channels
    BY <1>8 DEF WaitUpdate
  <2> QED
    BY <1>8, <2>1, <2>2 DEF WaitUpdate, mainVars, ioVars, semVars, converter
<1>9. CASE TakeForData
  BY <1>9 DEF TakeForData, mainVars, ioVars, sem_wait, converter
<1>10. CASE AddToAverage
  <2>1. adc[dataCh] \in Tags /\ window[dataCh] \in Seq(Tags)
    OBVIOUS
  <2>2. Len(window[dataCh]) = DEFLTSZ => Tail(window[dataCh]) \in Seq(Tags)
    BY <2>1, EmptySeq, SMT
  <2>3. window' \in [Channels -> Seq(Tags)]
    BY <1>10, <2>1, <2>2 DEF AddToAverage
  <2> QED
    BY <1>10, <2>3 DEF AddToAverage, mainVars, ioVars, semVars, converter
<1>11. CASE NextChannel
  BY <1>11 DEF NextChannel, mainVars, ioVars, sem_post, converter
<1>12. CASE EndData
  <2>1. dieDataThDie' \in BOOLEAN
    BY <1>12 DEF EndData
  <2> QED
    BY <1>12, <2>1 DEF EndData, mainVars, ioVars, semVars, converter
<1>13. CASE InitIO
  BY <1>13 DEF InitIO, mainVars, dataVars, semVars, converter, StartScan
<1>14. CASE WrongChip
  BY <1>14 DEF WrongChip, mainVars, dataVars, semVars, converter
<1>15. CASE CheckIO
  BY <1>15 DEF CheckIO, mainVars, dataVars, semVars, converter
<1>16. CASE SelectInput
  <2>1. ready' \in BOOLEAN
    BY <1>16 DEF SelectInput
  <2> QED
    BY <1>16, <2>1 DEF SelectInput, mainVars, dataVars, semVars
<1>17. CASE ReadResult
  <2>1. /\ AdcNow' \in [0 .. (Inputs - 1) -> Tags]
        /\ Channel' \in 0 .. (Inputs - 1)
    BY <1>17 DEF ReadResult, SlotBefore
  <2> QED
    BY <1>17, <2>1 DEF ReadResult, mainVars, dataVars, semVars, converter
<1>18. CASE TakeForIO
  BY <1>18 DEF TakeForIO, mainVars, dataVars, sem_wait, converter
<1>19. CASE Store
  <2>1. pending' \in BOOLEAN
    BY <1>19 DEF Store
  <2>2. adc' \in [Channels -> Tags]
    BY <1>19 DEF Store
  <2> QED
    BY <1>19, <2>1, <2>2 DEF Store, mainVars, dataVars, semVars, converter
<1>20. CASE PostIO
  BY <1>20 DEF PostIO, mainVars, dataVars, sem_post, converter
<1>21. CASE EndIO
  <2>1. dieThreadDie' \in BOOLEAN
    BY <1>21 DEF EndIO
  <2> QED
    BY <1>21, <2>1 DEF EndIO, mainVars, dataVars, semVars, converter
<1>22. CASE Convert
  BY <1>22 DEF Convert, mainVars, dataVars, ioVars, semVars
<1>23. CASE Exit
  BY <1>23 DEF Exit, dataVars, ioVars, semVars, converter
<1>24. CASE UNCHANGED vars
  BY <1>24 DEF vars, mainVars, dataVars, ioVars, semVars, converter
<1> QED
  BY <1>1, <1>2, <1>3, <1>4, <1>5, <1>6, <1>7, <1>8, <1>9, <1>10, <1>11,
     <1>12, <1>13, <1>14, <1>15, <1>16, <1>17, <1>18, <1>19, <1>20, <1>21,
     <1>22, <1>23, <1>24
     DEF Next, start_system, run_data, run_io

LEMMA TypeHolds == Spec => []TypeOK
<1>1. Init => TypeOK
  BY Room DEF Init, TypeOK, Channels, Tags, NoReading
<1> QED
  BY <1>1, TypeStep, SemHolds, PTL DEF Spec

-----------------------------------------------------------------------------
(* The readings. *)

\* Between two scans the converter is at the input before the next to be
\* selected, and its result is that input's; while a result is read, it has just
\* been sent to the next.  All this begins at input 0.
ScanInv ==
  /\ ready => result = mux
  /\ io # "read" => mux = SlotBefore \/ Channel = 0
  /\ io = "read" => /\ mux = Channel /\ ~ready
                    /\ result = SlotBefore \/ Channel = 0
  /\ io \in {"none", "init"} => Channel = 0

\* A reading keeps to the place of its input all the way.
PlaceInv == \A c \in Channels :
              /\ AdcNow[c] \in {NoReading, c}
              /\ adc[c] \in {NoReading, c}
              /\ \A k \in DOMAIN window[c] : window[c][k] \in {NoReading, c}

MixInv == ~HeldUp => ScanInv /\ PlaceInv

LEMMA ScanStep == ~HeldUp /\ BornInv /\ TypeOK /\ ScanInv /\ [Next]_vars => ScanInv'
<1> SUFFICES ASSUME ~HeldUp, BornInv, TypeOK, ScanInv, [Next]_vars
             PROVE  ScanInv'
  OBVIOUS
<1> USE Room
<1> USE DEF ScanInv, SlotBefore, TypeOK
<1>1. CASE init_phy
  BY <1>1 DEF init_phy, ioVars, converter
<1>2. CASE init_phy_Fails
  BY <1>2 DEF init_phy_Fails, dataVars, ioVars, converter
<1>3. CASE init_burst
  BY <1>3 DEF init_burst, dataVars, ioVars, semVars, converter
<1>4. CASE init_burst_Fails
  BY <1>4 DEF init_burst_Fails, dataVars, ioVars, semVars, converter
<1>5. CASE kill_phy
  BY <1>5 DEF kill_phy, dataVars, ioVars, converter
<1>6. CASE CreateIO
  <2>1. CASE data' = "check" /\ io' = "init"
    BY <1>6, <2>1 DEF BornInv, CreateIO, mainVars, semVars, converter
  <2>2. CASE data' = "lost" /\ UNCHANGED io
    BY <1>6, <2>2 DEF CreateIO, mainVars, semVars, converter
  <2> QED
    BY <1>6, <2>1, <2>2 DEF CreateIO
<1>7. CASE CheckData
  BY <1>7 DEF CheckData, mainVars, ioVars, semVars, converter
<1>8. CASE WaitUpdate
  BY <1>8 DEF WaitUpdate, mainVars, ioVars, semVars, converter
<1>9. CASE TakeForData
  BY <1>9 DEF TakeForData, mainVars, ioVars, sem_wait, converter
<1>10. CASE AddToAverage
  BY <1>10 DEF AddToAverage, mainVars, ioVars, semVars, converter
<1>11. CASE NextChannel
  BY <1>11 DEF NextChannel, mainVars, ioVars, sem_post, converter
<1>12. CASE EndData
  BY <1>12 DEF EndData, mainVars, ioVars, semVars, converter
<1>13. CASE InitIO
  BY <1>13 DEF InitIO, mainVars, dataVars, semVars, converter, StartScan
<1>14. CASE WrongChip
  BY <1>14 DEF WrongChip, mainVars, dataVars, semVars, converter
<1>15. CASE CheckIO
  BY <1>15 DEF CheckIO, mainVars, dataVars, semVars, converter
<1>16. CASE SelectInput
  BY <1>16 DEF SelectInput, mainVars, dataVars, semVars
<1>17. CASE ReadResult
  BY <1>17 DEF ReadResult, mainVars, dataVars, semVars, converter
<1>18. CASE TakeForIO
  BY <1>18 DEF TakeForIO, mainVars, dataVars, sem_wait, converter
<1>19. CASE Store
  BY <1>19 DEF Store, mainVars, dataVars, semVars, converter
<1>20. CASE PostIO
  BY <1>20 DEF PostIO, mainVars, dataVars, sem_post, converter
<1>21. CASE EndIO
  BY <1>21 DEF EndIO, mainVars, dataVars, semVars, converter
<1>22. CASE Convert
  BY <1>22 DEF Convert, mainVars, dataVars, ioVars, semVars
<1>23. CASE Exit
  BY <1>23 DEF Exit, dataVars, ioVars, semVars, converter
<1>24. CASE UNCHANGED vars
  BY <1>24 DEF vars, mainVars, dataVars, ioVars, semVars, converter
<1> QED
  BY <1>1, <1>2, <1>3, <1>4, <1>5, <1>6, <1>7, <1>8, <1>9, <1>10, <1>11,
     <1>12, <1>13, <1>14, <1>15, <1>16, <1>17, <1>18, <1>19, <1>20, <1>21,
     <1>22, <1>23, <1>24
     DEF Next, start_system, run_data, run_io

LEMMA PlaceStep ==
  ~HeldUp /\ TypeOK /\ ScanInv /\ PlaceInv /\ [Next]_vars => PlaceInv'
<1> SUFFICES ASSUME ~HeldUp, TypeOK, ScanInv, PlaceInv, [Next]_vars
             PROVE  PlaceInv'
  OBVIOUS
<1> USE Room
<1> USE DEF PlaceInv, TypeOK, Channels
<1>1. CASE init_phy
  BY <1>1 DEF init_phy, ioVars, converter
<1>2. CASE init_phy_Fails
  BY <1>2 DEF init_phy_Fails, dataVars, ioVars, converter
<1>3. CASE init_burst
  BY <1>3 DEF init_burst, dataVars, ioVars, semVars, converter
<1>4. CASE init_burst_Fails
  BY <1>4 DEF init_burst_Fails, dataVars, ioVars, semVars, converter
<1>5. CASE kill_phy
  BY <1>5 DEF kill_phy, dataVars, ioVars, converter
<1>6. CASE CreateIO
  <2>1. CASE data' = "check" /\ io' = "init"
    BY <1>6, <2>1 DEF CreateIO, mainVars, semVars, converter
  <2>2. CASE data' = "lost" /\ UNCHANGED io
    BY <1>6, <2>2 DEF CreateIO, mainVars, semVars, converter
  <2> QED
    BY <1>6, <2>1, <2>2 DEF CreateIO
<1>7. CASE CheckData
  BY <1>7 DEF CheckData, mainVars, ioVars, semVars, converter
<1>8. CASE WaitUpdate
  BY <1>8 DEF WaitUpdate, mainVars, ioVars, semVars, converter
<1>9. CASE TakeForData
  BY <1>9 DEF TakeForData, mainVars, ioVars, sem_wait, converter
<1>10. CASE AddToAverage
  <2> DEFINE w == window[dataCh]
  <2>1. adc[dataCh] \in Tags /\ w \in Seq(Tags)
    OBVIOUS
  <2>2. CASE Len(w) = DEFLTSZ
    <3>1. /\ Tail(w) \in Seq(Tags)
          /\ Len(Tail(w)) = Len(w) - 1
          /\ \A k \in 1 .. Len(Tail(w)) : Tail(w)[k] = w[k + 1]
      BY <2>1, <2>2, EmptySeq, HeadTailProperties
    <3>2. \A k \in DOMAIN Tail(w) : Tail(w)[k] \in {NoReading, dataCh}
      BY <2>1, <3>1
    <3> QED
      BY <1>10, <2>1, <2>2, <3>1, <3>2
         DEF AddToAverage, mainVars, ioVars, semVars, converter
  <2>3. CASE Len(w) # DEFLTSZ
    BY <1>10, <2>1, <2>3 DEF AddToAverage, mainVars, ioVars, semVars, converter
  <2> QED
    BY <2>2, <2>3
<1>11. CASE NextChannel
  BY <1>11 DEF NextChannel, mainVars, ioVars, sem_post, converter
<1>12. CASE EndData
  BY <1>12 DEF EndData, mainVars, ioVars, semVars, converter
<1>13. CASE InitIO
  BY <1>13 DEF InitIO, mainVars, dataVars, semVars, converter, StartScan
<1>14. CASE WrongChip
  BY <1>14 DEF WrongChip, mainVars, dataVars, semVars, converter
<1>15. CASE CheckIO
  BY <1>15 DEF CheckIO, mainVars, dataVars, semVars, converter
<1>16. CASE SelectInput
  BY <1>16 DEF SelectInput, mainVars, dataVars, semVars
<1>17. CASE ReadResult
  <2>1. SlotBefore \in Channels => Channel # 0 /\ result = SlotBefore
    BY <1>17 DEF ReadResult, ScanInv, SlotBefore
  <2>2. \A c \in Channels : AdcNow'[c] \in {NoReading, c}
    BY <1>17, <2>1 DEF ReadResult
  <2> QED
    BY <1>17, <2>2 DEF ReadResult, mainVars, dataVars, semVars, converter
<1>18. CASE TakeForIO
  BY <1>18 DEF TakeForIO, mainVars, dataVars, sem_wait, converter
<1>19. CASE Store
  BY <1>19 DEF Store, mainVars, dataVars, semVars, converter
<1>20. CASE PostIO
  BY <1>20 DEF PostIO, mainVars, dataVars, sem_post, converter
<1>21. CASE EndIO
  BY <1>21 DEF EndIO, mainVars, dataVars, semVars, converter
<1>22. CASE Convert
  BY <1>22 DEF Convert, mainVars, dataVars, ioVars, semVars
<1>23. CASE Exit
  BY <1>23 DEF Exit, dataVars, ioVars, semVars, converter
<1>24. CASE UNCHANGED vars
  BY <1>24 DEF vars, mainVars, dataVars, ioVars, semVars, converter
<1> QED
  BY <1>1, <1>2, <1>3, <1>4, <1>5, <1>6, <1>7, <1>8, <1>9, <1>10, <1>11,
     <1>12, <1>13, <1>14, <1>15, <1>16, <1>17, <1>18, <1>19, <1>20, <1>21,
     <1>22, <1>23, <1>24
     DEF Next, start_system, run_data, run_io

LEMMA MixHolds == Spec => []MixInv
<1>1. Init => MixInv
  BY Room DEF Init, MixInv, ScanInv, PlaceInv, Channels, NoReading, SlotBefore
<1>2. BornInv /\ TypeOK /\ MixInv /\ [Next]_vars => MixInv'
  BY ScanStep, PlaceStep DEF MixInv
<1> QED
  BY <1>1, <1>2, LifeHolds, TypeHolds, PTL DEF Spec, LifeInv

-----------------------------------------------------------------------------
(* Natural numbers.  The induction theorems of the library are about a formula,
   which the provers cannot be given; these are about a set. *)

\* Least element.
LEMMA Least ==
  ASSUME NEW A \in SUBSET Nat, A # {}
  PROVE  \E n \in A : \A m \in A : n <= m
<1> DEFINE T == {0 .. n : n \in A}
<1>1. T \subseteq FiniteSubsetsOf(Nat) /\ T # {}
  <2>1. \A n \in Nat : 0 .. n \in SUBSET Nat /\ IsFiniteSet(0 .. n)
    BY FS_Interval
  <2>2. QED
    BY <2>1 DEF FiniteSubsetsOf
<1>2. IsWellFoundedOn(StrictSubsetOrdering(Nat), FiniteSubsetsOf(Nat))
  BY FS_StrictSubsetOrderingWellFounded
<1>3. PICK x \in T : \A y \in T : ~ (<<y, x>> \in StrictSubsetOrdering(Nat))
  <2> HIDE DEF T
  <2>1. QED BY <1>1, <1>2, WFMin
<1>4. PICK n \in A : x = 0 .. n
  BY <1>3
<1>5. ASSUME NEW m \in A PROVE n <= m
  <2>1. SUFFICES ASSUME m < n PROVE FALSE
    OBVIOUS
  <2>2. 0 .. m \in SUBSET Nat /\ 0 .. n \in SUBSET Nat /\ 0 .. m \subseteq 0 .. n /\ 0 .. m # 0 .. n
    BY <2>1
  <2>3. <<0 .. m, 0 .. n>> \in StrictSubsetOrdering(Nat)
    BY <2>2 DEF StrictSubsetOrdering
  <2>4. QED
    BY <2>3, <1>3, <1>4
<1>6. QED
  BY <1>5

LEMMA Induct ==
  ASSUME NEW A, 0 \in A, \A n \in Nat : n \in A => n + 1 \in A
  PROVE  Nat \subseteq A
<1> DEFINE B == {n \in Nat : n \notin A}
<1>1. SUFFICES ASSUME B # {} PROVE FALSE
  OBVIOUS
<1>2. PICK n \in B : \A m \in B : n <= m
  BY <1>1, Least
<1>3. n - 1 \in Nat /\ n - 1 \notin B
  BY <1>2
<1>4. QED
  BY <1>3

-----------------------------------------------------------------------------
(* Remainders. *)

LEMMA ModUnique ==
  ASSUME NEW m \in Nat, m # 0, NEW q \in Int, NEW r \in 0 .. (m - 1)
  PROVE  (m * q + r) % m = r
OBVIOUS

LEMMA ModDef ==
  ASSUME NEW m \in Nat, m # 0, NEW a \in Int
  PROVE  \E q \in Int, r \in 0 .. (m - 1) : a = m * q + r /\ a % m = r
<1>1. /\ a = m * (a \div m) + (a % m)
      /\ a % m \in 0 .. (m - 1) /\ a \div m \in Int
  OBVIOUS
<1> QED
  BY <1>1

\* Multiples of the modulus do not count.
LEMMA ModShift ==
  ASSUME NEW m \in Nat, m # 0, NEW b \in Int, NEW k \in Int
  PROVE  (b + m * k) % m = b % m
<1>1. PICK q \in Int, r \in 0 .. (m - 1) : b = m * q + r /\ b % m = r
  BY ModDef
<1>2. b + m * k = m * (q + k) + r
  BY <1>1
<1>3. q + k \in Int
  OBVIOUS
<1>4. (m * (q + k) + r) % m = r
  BY <1>3, ModUnique
<1> QED
  BY <1>1, <1>2, <1>4

\* A number may be rolled over before it is added to or after.
LEMMA ModAdd ==
  ASSUME NEW m \in Nat, m # 0, NEW a \in Int, NEW b \in Int
  PROVE  ((a % m) + b) % m = (a + b) % m
<1>1. PICK q \in Int, r \in 0 .. (m - 1) : a = m * q + r /\ a % m = r
  BY ModDef
<1>2. r \in Int /\ r + b \in Int
  OBVIOUS
<1>3. a + b = (r + b) + m * q
  BY <1>1, <1>2
<1>4. ((r + b) + m * q) % m = (r + b) % m
  BY <1>2, ModShift
<1> QED
  BY <1>1, <1>3, <1>4

-----------------------------------------------------------------------------
(* Sums. *)

\* f adds up the first n elements of s from the left.
AddsUp(f, s, n) == /\ f \in [0 .. n -> Int]
                   /\ f[0] = 0
                   /\ \A i \in 1 .. n : f[i] = f[i - 1] + s[i]

LEMMA SumExists ==
  ASSUME NEW s \in Seq(Int)
  PROVE  \E f : AddsUp(f, s, Len(s))
<1> DEFINE Upto(n) == n <= Len(s) => \E f : AddsUp(f, s, n)
           A == {n \in Nat : Upto(n)}
<1>1. Upto(0)
  <2>1. AddsUp([i \in 0 .. 0 |-> 0], s, 0)
    BY DEF AddsUp
  <2> QED BY <2>1
<1>2. ASSUME NEW n \in Nat, Upto(n)
      PROVE  Upto(n + 1)
  <2>1. SUFFICES ASSUME n + 1 <= Len(s) PROVE \E f : AddsUp(f, s, n + 1)
    OBVIOUS
  <2>2. PICK f : AddsUp(f, s, n)
    BY <1>2, <2>1
  <2>3. s[n + 1] \in Int
    BY <2>1
  <2> DEFINE g == [i \in 0 .. (n + 1) |-> IF i = n + 1 THEN f[n] + s[n + 1] ELSE f[i]]
  <2>4. AddsUp(g, s, n + 1)
    <3>1. f[n] \in Int /\ f[0] = 0 /\ \A i \in 0 .. n : f[i] \in Int
      BY <2>2 DEF AddsUp
    <3>2. g \in [0 .. (n + 1) -> Int] /\ g[0] = 0
      BY <2>3, <3>1
    <3>3. ASSUME NEW i \in 1 .. (n + 1) PROVE g[i] = g[i - 1] + s[i]
      <4>1. CASE i = n + 1
        BY <4>1
      <4>2. CASE i \in 1 .. n
        BY <4>2, <2>2 DEF AddsUp
      <4> QED BY <4>1, <4>2
    <3> HIDE DEF g
    <3> QED BY <3>2, <3>3 DEF AddsUp
  <2> QED BY <2>4
<1> HIDE DEF Upto
<1>3. Nat \subseteq A
  <2>1. 0 \in A /\ \A n \in Nat : n \in A => n + 1 \in A
    BY <1>1, <1>2
  <2> HIDE DEF A
  <2> QED
    BY <2>1, Induct
<1>4. Len(s) \in Nat
  OBVIOUS
<1>5. Upto(Len(s))
  BY <1>3, <1>4
<1> QED BY <1>4, <1>5 DEF Upto

LEMMA SumUnique ==
  ASSUME NEW s \in Seq(Int), NEW f, AddsUp(f, s, Len(s)),
         NEW g, AddsUp(g, s, Len(s))
  PROVE  f = g
<1> DEFINE Same(n) == n <= Len(s) => f[n] = g[n]
           A == {n \in Nat : Same(n)}
<1>1. Same(0)
  BY DEF AddsUp
<1>2. ASSUME NEW n \in Nat, Same(n)
      PROVE  Same(n + 1)
  <2>1. SUFFICES ASSUME n + 1 <= Len(s) PROVE f[n + 1] = g[n + 1]
    OBVIOUS
  <2>2. n + 1 \in 1 .. Len(s) /\ (n + 1) - 1 = n /\ f[n] = g[n]
    BY <1>2, <2>1
  <2> QED BY <2>2 DEF AddsUp
<1> HIDE DEF Same
<1>3. Nat \subseteq A
  <2>1. 0 \in A /\ \A n \in Nat : n \in A => n + 1 \in A
    BY <1>1, <1>2
  <2> HIDE DEF A
  <2> QED
    BY <2>1, Induct
<1>4. \A n \in 0 .. Len(s) : f[n] = g[n]
  BY <1>3 DEF Same
<1> QED BY <1>4 DEF AddsUp

LEMMA SumIs ==
  ASSUME NEW s \in Seq(Int), NEW f, AddsUp(f, s, Len(s))
  PROVE  Sum(s) = f[Len(s)] /\ Sum(s) \in Int
<1> DEFINE Def(t) == t = [i \in 0 .. Len(s) |-> IF i = 0 THEN 0 ELSE t[i - 1] + s[i]]
<1>0. Len(s) \in Nat
  OBVIOUS
<1>1. Def(f)
  BY <1>0 DEF AddsUp
<1>2. ASSUME NEW t, Def(t)
      PROVE  AddsUp(t, s, Len(s))
  <2> DEFINE Typed(n) == n <= Len(s) => t[n] \in Int
             A == {n \in Nat : Typed(n)}
  <2>1. t[0] = 0 /\ \A i \in 1 .. Len(s) : t[i] = t[i - 1] + s[i]
    <3> DEFINE F == [i \in 0 .. Len(s) |-> IF i = 0 THEN 0 ELSE t[i - 1] + s[i]]
    <3>1. F[0] = 0 /\ \A i \in 1 .. Len(s) : F[i] = t[i - 1] + s[i]
      BY <1>0
    <3>2. t = F
      BY <1>2
    <3> HIDE DEF F
    <3> QED BY <3>1, <3>2
  <2>6. DOMAIN t = 0 .. Len(s) /\ t = [i \in 0 .. Len(s) |-> t[i]]
    BY <1>2
  <2> HIDE DEF Def
  <2>2. Typed(0)
    BY <2>1
  <2>3. ASSUME NEW n \in Nat, Typed(n)
        PROVE  Typed(n + 1)
    <3>1. SUFFICES ASSUME n + 1 <= Len(s) PROVE t[n + 1] \in Int
      OBVIOUS
    <3>2. n + 1 \in 1 .. Len(s) /\ (n + 1) - 1 = n /\ t[n] \in Int
      BY <2>3, <3>1
    <3>3. s[n + 1] \in Int
      BY <3>2
    <3> QED BY <2>1, <3>2, <3>3
  <2> HIDE DEF Typed
  <2>4. Nat \subseteq A
    <3>1. 0 \in A /\ \A n \in Nat : n \in A => n + 1 \in A
      BY <2>2, <2>3
    <3> HIDE DEF A
    <3> QED
      BY <3>1, Induct
  <2>5. \A i \in 0 .. Len(s) : t[i] \in Int
    BY <2>4 DEF Typed
  <2> QED BY <2>1, <2>5, <2>6 DEF AddsUp
<1> DEFINE total == CHOOSE t : Def(t)
<1>3. Sum(s) = total[Len(s)]
  BY DEF Sum
<1> HIDE DEF Def
<1>4. Def(total)
  BY <1>1
<1> HIDE DEF total
<1>5. total = f
  BY <1>2, <1>4, SumUnique
<1> QED BY <1>0, <1>3, <1>5 DEF AddsUp
LEMMA SumEmpty == Sum(<<>>) = 0
<1>1. AddsUp([i \in 0 .. 0 |-> 0], <<>>, 0)
  BY DEF AddsUp
<1> QED
  BY <1>1, SumIs, EmptySeq

LEMMA SumAppend ==
  ASSUME NEW s \in Seq(Int), NEW v \in Int
  PROVE  Sum(s) \in Int /\ Sum(Append(s, v)) = Sum(s) + v
<1> DEFINE n == Len(s)
           t == Append(s, v)
<1>1. PICK f : AddsUp(f, s, n)
  BY SumExists
<1>2. n \in Nat /\ t \in Seq(Int) /\ Len(t) = n + 1 /\ t[n + 1] = v
      /\ \A i \in 1 .. n : t[i] = s[i]
  BY AppendProperties
<1> DEFINE g == [i \in 0 .. (n + 1) |-> IF i = n + 1 THEN f[n] + v ELSE f[i]]
<1> HIDE DEF n, t
<1>3. AddsUp(g, t, n + 1)
  <2>1. f[0] = 0 /\ \A i \in 0 .. n : f[i] \in Int
    BY <1>1, <1>2 DEF AddsUp
  <2>2. g \in [0 .. (n + 1) -> Int] /\ g[0] = 0
    BY <1>2, <2>1
  <2>3. ASSUME NEW i \in 1 .. (n + 1)
        PROVE  g[i] = g[i - 1] + t[i]
    <3>1. CASE i = n + 1
      BY <1>2, <3>1
    <3>2. CASE i \in 1 .. n
      BY <1>1, <1>2, <3>2 DEF AddsUp
    <3> QED
      BY <1>2, <3>1, <3>2
  <2> HIDE DEF g
  <2> QED
    BY <2>2, <2>3 DEF AddsUp
<1>4. g[n + 1] = f[n] + v
  BY <1>2
<1> HIDE DEF g
<1>5. Sum(t) = g[n + 1]
  BY <1>2, <1>3, SumIs
<1>6. Sum(s) = f[n] /\ Sum(s) \in Int
  BY <1>1, SumIs DEF n
<1> QED
  BY <1>4, <1>5, <1>6 DEF t

LEMMA SumTail ==
  ASSUME NEW s \in Seq(Int), s # <<>>
  PROVE  Sum(Tail(s)) = Sum(s) - s[1]
<1> DEFINE n == Len(s) - 1
           t == Tail(s)
<1>1. PICK f : AddsUp(f, s, n + 1)
  <2>1. Len(s) = n + 1
    OBVIOUS
  <2> HIDE DEF n
  <2> QED
    BY <2>1, SumExists
<1>2. n \in Nat /\ Len(s) = n + 1 /\ t \in Seq(Int) /\ Len(t) = n /\ s[1] \in Int
      /\ \A i \in 1 .. n : t[i] = s[i + 1]
  BY HeadTailProperties
<1> DEFINE g == [i \in 0 .. n |-> f[i + 1] - s[1]]
<1> HIDE DEF n, t
<1>3. AddsUp(g, t, n)
  <2>1. /\ f[0] = 0 /\ \A i \in 0 .. (n + 1) : f[i] \in Int
        /\ \A i \in 1 .. (n + 1) : f[i] = f[i - 1] + s[i]
    BY <1>1, <1>2 DEF AddsUp
  <2>2. g \in [0 .. n -> Int] /\ g[0] = 0
    BY <1>2, <2>1
  <2>3. ASSUME NEW i \in 1 .. n
        PROVE  g[i] = g[i - 1] + t[i]
    <3>1. g[i] = f[i + 1] - s[1] /\ g[i - 1] = f[i] - s[1]
      BY <1>2
    <3>2. f[i + 1] = f[i] + s[i + 1] /\ f[i] \in Int /\ f[i + 1] \in Int
      <4>1. i \in 0 .. (n + 1) /\ i + 1 \in 1 .. (n + 1) /\ (i + 1) - 1 = i
        BY <1>2
      <4> QED
        BY <2>1, <4>1
    <3>3. t[i] = s[i + 1] /\ s[i + 1] \in Int
      BY <1>2
    <3> HIDE DEF g
    <3>4. s[1] \in Int
      BY <1>2
    <3> QED
      BY <3>1, <3>2, <3>3, <3>4
  <2> HIDE DEF g
  <2> QED
    BY <2>2, <2>3 DEF AddsUp
<1>4. g[n] = f[n + 1] - s[1]
  BY <1>2
<1> HIDE DEF g
<1>5. Sum(t) = g[n]
  BY <1>2, <1>3, SumIs
<1>6. Sum(s) = f[n + 1]
  BY <1>1, <1>2, SumIs
<1> QED
  BY <1>4, <1>5, <1>6 DEF t

\* Values that would fit as often as the window is long fit together.
LEMMA SumFits ==
  ASSUME NEW s \in Seq(Int), NEW size \in Nat, NEW m \in Nat \ {0}, size # 0, Len(s) <= size,
         \A i \in 1 .. Len(s) : s[i] >= 0 /\ s[i] * size < m
  PROVE  Sum(s) \in 0 .. (m - 1)
<1>1. PICK f : AddsUp(f, s, Len(s))
  BY SumExists
<1> DEFINE Fits(n) == n <= Len(s) => f[n] \in Nat /\ f[n] * size <= n * (m - 1)
           A == {n \in Nat : Fits(n)}
<1>2. Fits(0)
  BY <1>1 DEF AddsUp
<1>3. ASSUME NEW n \in Nat, Fits(n)
      PROVE  Fits(n + 1)
  <2>1. SUFFICES ASSUME n + 1 <= Len(s)
                 PROVE  f[n + 1] \in Nat /\ f[n + 1] * size <= (n + 1) * (m - 1)
    OBVIOUS
  <2>2. f[n] \in Nat /\ f[n] * size <= n * (m - 1)
    BY <1>3, <2>1
  <2>3. s[n + 1] \in Nat /\ s[n + 1] * size <= m - 1
    BY <2>1
  <2>4. f[n + 1] = f[n] + s[n + 1]
    BY <1>1, <2>1 DEF AddsUp
  <2>5. f[n + 1] * size = f[n] * size + s[n + 1] * size
    BY <2>2, <2>3, <2>4
  <2>6. (n + 1) * (m - 1) = n * (m - 1) + (m - 1)
    OBVIOUS
  <2>7. f[n + 1] \in Nat
    BY <2>2, <2>3, <2>4
  <2>8. ASSUME NEW a \in Int, NEW b \in Int, NEW c \in Int, NEW d \in Int,
               a <= c, b <= d
        PROVE  a + b <= c + d
    BY <2>8
  <2>9. /\ f[n] * size \in Int /\ s[n + 1] * size \in Int
        /\ n * (m - 1) \in Int /\ m - 1 \in Int
    BY <2>2, <2>3
  <2> QED
    BY <2>2, <2>3, <2>5, <2>6, <2>7, <2>8, <2>9
<1> HIDE DEF Fits
<1>4. Nat \subseteq A
  <2>1. 0 \in A /\ \A n \in Nat : n \in A => n + 1 \in A
    BY <1>2, <1>3
  <2> HIDE DEF A
  <2> QED
    BY <2>1, Induct
<1>5. Len(s) \in Nat /\ Fits(Len(s))
  BY <1>4
<1>6. f[Len(s)] \in Nat /\ f[Len(s)] * size <= Len(s) * (m - 1)
  BY <1>5 DEF Fits
<1>7. ASSUME NEW k \in Nat, k <= size
      PROVE  k * (m - 1) <= size * (m - 1)
  <2>1. size - k \in Nat /\ m - 1 \in Nat
    BY <1>7
  <2>2. size * (m - 1) = k * (m - 1) + (size - k) * (m - 1)
    BY <2>1
  <2>3. (size - k) * (m - 1) >= 0
    BY <2>1
  <2> QED
    BY <2>2, <2>3
<1>8. ASSUME NEW x \in Nat, x * size <= size * (m - 1)
      PROVE  x <= m - 1
  <2>1. SUFFICES ASSUME x >= m PROVE FALSE
    OBVIOUS
  <2>2. x * size >= m * size
    BY <2>1
  <2>3. size * (m - 1) = m * size - size
    OBVIOUS
  <2> QED
    BY <1>8, <2>2, <2>3
<1>9. f[Len(s)] * size <= size * (m - 1)
  <2>1. Len(s) * (m - 1) <= size * (m - 1)
    BY <1>5, <1>7
  <2> QED
    BY <1>5, <1>6, <2>1
<1>10. f[Len(s)] <= m - 1
  <2> DEFINE total == f[Len(s)]
  <2>1. total \in Nat /\ total * size <= size * (m - 1)
    BY <1>6, <1>9
  <2> HIDE DEF total
  <2>2. total <= m - 1
    BY <1>8, <2>1
  <2> QED
    BY <2>2 DEF total
<1> QED
  BY <1>1, <1>6, <1>10, SumIs

-----------------------------------------------------------------------------
(* Places in a ring of n cells whose oldest value is in cell t. *)

\* The cell after cell i, and the cell of the i-th oldest value.
NextCell(n, i) == IF i + 1 < n THEN i + 1 ELSE 0
Cell(n, t, i)  == IF t + i < n THEN t + i ELSE t + i - n

\* The remainders of the code wrap once, at the end of the array.
LEMMA Wrap ==
  ASSUME NEW n \in Nat, NEW t \in 0 .. (n - 1), NEW i \in 0 .. (n - 1)
  PROVE  (t + i) % n = Cell(n, t, i)
<1>1. CASE t + i < n
  BY <1>1 DEF Cell
<1>2. CASE t + i >= n
  <2>1. (t + i - n) % n = t + i - n
    BY <1>2
  <2>2. (t + i) % n = (t + i - n) % n
    BY <1>2
  <2> QED
    BY <1>2, <2>1, <2>2 DEF Cell
<1> QED
  BY <1>1, <1>2

LEMMA WrapNext ==
  ASSUME NEW n \in Nat, 2 <= n, NEW i \in 0 .. (n - 1)
  PROVE  (i + 1) % n = NextCell(n, i)
<1>1. (i + 1) % n = Cell(n, i, 1)
  BY Wrap
<1> QED
  BY <1>1 DEF Cell, NextCell

LEMMA CellRange ==
  ASSUME NEW n \in Nat, NEW t \in 0 .. (n - 1), NEW i \in 0 .. (n - 1)
  PROVE  Cell(n, t, i) \in 0 .. (n - 1)
BY DEF Cell

LEMMA CellApart ==
  ASSUME NEW n \in Nat, NEW t \in 0 .. (n - 1), NEW i \in 0 .. (n - 1),
         NEW j \in 0 .. (n - 1), i # j
  PROVE  Cell(n, t, i) # Cell(n, t, j)
BY DEF Cell

\* The cell after that of a value is the next value's; after the last cell of a
\* full turn it is the oldest's.
LEMMA CellAfter ==
  ASSUME NEW n \in Nat, NEW t \in 0 .. (n - 1), NEW i \in 0 .. (n - 1)
  PROVE  /\ i + 1 < n => NextCell(n, Cell(n, t, i)) = Cell(n, t, i + 1)
         /\ i + 1 < n => NextCell(n, Cell(n, t, i)) # t
         /\ i + 1 = n => NextCell(n, Cell(n, t, i)) = t
BY DEF Cell, NextCell

\* When the oldest value goes, every other is one place nearer.
LEMMA CellOfRest ==
  ASSUME NEW n \in Nat, NEW t \in 0 .. (n - 1), NEW i \in 0 .. (n - 2)
  PROVE  /\ NextCell(n, t) \in 0 .. (n - 1)
         /\ Cell(n, NextCell(n, t), i) = Cell(n, t, i + 1)
BY DEF Cell, NextCell

-----------------------------------------------------------------------------
(* Rings. *)

\* A ring is well formed when its indices are within its array, and its count
\* is the distance between them: so the count that every mean divides by is
\* that of the values that are read next.
WellFormed(rb) ==
  /\ rb = [buf |-> rb.buf, head |-> rb.head, tail |-> rb.tail,
           size |-> rb.size, currentSize |-> rb.currentSize]
  /\ rb.size \in Nat /\ 2 <= rb.size
  /\ rb.tail \in 0 .. (rb.size - 1)
  /\ rb.currentSize \in 0 .. (rb.size - 1)
  /\ rb.buf \in [0 .. (rb.size - 1) -> Values]
  /\ rb.head = Cell(rb.size, rb.tail, rb.currentSize)

LEMMA Full ==
  ASSUME NEW rb, WellFormed(rb)
  PROVE  /\ is_full(rb) <=> rb.currentSize = rb.size - 1
         /\ is_empty(rb) <=> rb.currentSize = 0
<1> DEFINE n == rb.size
           t == rb.tail
           k == rb.currentSize
<1>1. n \in Nat /\ 2 <= n /\ t \in 0 .. (n - 1) /\ k \in 0 .. (n - 1)
  BY DEF WellFormed
<1>2. rb.head = Cell(n, t, k) /\ rb.head \in 0 .. (n - 1)
  BY <1>1, CellRange DEF WellFormed
<1>3. After(rb, rb.head) = NextCell(n, Cell(n, t, k))
  BY <1>1, <1>2, WrapNext DEF After
<1> HIDE DEF n, t, k
<1>4. NextCell(n, Cell(n, t, k)) = t <=> k = n - 1
  BY <1>1, CellAfter
<1>5. Cell(n, t, k) = t <=> k = 0
  BY <1>1 DEF Cell
<1> QED
  BY <1>2, <1>3, <1>4, <1>5 DEF is_full, is_empty, n, t, k

\* What a ring holds, place by place.
LEMMA Holds ==
  ASSUME NEW rb, WellFormed(rb)
  PROVE  /\ Contents(rb) \in Seq(Values)
         /\ Len(Contents(rb)) = rb.currentSize
         /\ \A i \in 1 .. rb.currentSize :
              Contents(rb)[i] = rb.buf[Cell(rb.size, rb.tail, i - 1)]
<1>1. ASSUME NEW i \in 1 .. rb.currentSize
      PROVE  /\ Nth(rb, i - 1) = rb.buf[Cell(rb.size, rb.tail, i - 1)]
             /\ Nth(rb, i - 1) \in Values
  <2>1. /\ rb.size \in Nat /\ rb.tail \in 0 .. (rb.size - 1)
        /\ i - 1 \in 0 .. (rb.size - 1)
    BY DEF WellFormed
  <2>2. Nth(rb, i - 1) = rb.buf[Cell(rb.size, rb.tail, i - 1)]
    BY <2>1, Wrap DEF Nth
  <2>3. Cell(rb.size, rb.tail, i - 1) \in 0 .. (rb.size - 1)
    BY <2>1, CellRange
  <2> QED
    BY <2>2, <2>3 DEF WellFormed
<1>2. rb.currentSize \in Nat
  BY DEF WellFormed
<1> QED
  BY <1>1, <1>2 DEF Contents

\* get() takes the oldest value of a full ring away.
LEMMA GetTakesOldest ==
  ASSUME NEW rb, WellFormed(rb), is_full(rb)
  PROVE  /\ WellFormed(get(rb))
         /\ ~is_full(get(rb))
         /\ get(rb).size = rb.size
         /\ Contents(get(rb)) = Tail(Contents(rb))
<1> DEFINE g == get(rb)
           n == rb.size
           t == rb.tail
<1>1. n \in Nat /\ 2 <= n /\ t \in 0 .. (n - 1) /\ rb.currentSize = n - 1
  BY Full DEF WellFormed
<1>2. After(rb, t) = NextCell(n, t)
  BY <1>1, WrapNext DEF After
<1>3. ~is_empty(rb)
  BY <1>1, Full
<1>4. g = [buf |-> rb.buf, head |-> rb.head, tail |-> NextCell(n, t),
           size |-> n, currentSize |-> n - 2]
  <2>1. g = [rb EXCEPT !.currentSize = @ - 1, !.tail = After(rb, @)]
    BY <1>3 DEF get
  <2>2. rb = [buf |-> rb.buf, head |-> rb.head, tail |-> t, size |-> n,
              currentSize |-> rb.currentSize]
    BY DEF WellFormed
  <2>3. rb.currentSize - 1 = n - 2
    BY <1>1
  <2> QED
    BY <1>2, <2>1, <2>2, <2>3
<1>5. rb.head = Cell(n, NextCell(n, t), n - 2) /\ NextCell(n, t) \in 0 .. (n - 1)
  BY <1>1, CellOfRest DEF WellFormed
<1>6. WellFormed(g)
  BY <1>1, <1>4, <1>5 DEF WellFormed
<1>7. ~is_full(g)
  BY <1>1, <1>4, <1>6, Full
<1>8. Contents(g) = Tail(Contents(rb))
  <2>1. /\ Contents(g) \in Seq(Values) /\ Len(Contents(g)) = n - 2
        /\ \A i \in 1 .. (n - 2) : Contents(g)[i] = rb.buf[Cell(n, NextCell(n, t), i - 1)]
    BY <1>4, <1>6, Holds
  <2>2. /\ Contents(rb) \in Seq(Values) /\ Len(Contents(rb)) = n - 1
        /\ \A i \in 1 .. (n - 1) : Contents(rb)[i] = rb.buf[Cell(n, t, i - 1)]
    BY <1>1, Holds
  <2>3. \A i \in 1 .. (n - 2) : Cell(n, NextCell(n, t), i - 1) = Cell(n, t, i)
    BY <1>1, CellOfRest
  <2> HIDE DEF g, n, t
  <2>7. ASSUME NEW i \in 1 .. (n - 2)
        PROVE  Contents(rb)[i + 1] = rb.buf[Cell(n, t, i)]
    <3>1. i + 1 \in 1 .. (n - 1) /\ (i + 1) - 1 = i
      BY <1>1
    <3> QED
      BY <2>2, <3>1
  <2>4. Contents(rb) # <<>>
    BY <1>1, <2>2
  <2>5. /\ Tail(Contents(rb)) \in Seq(Values)
        /\ Len(Tail(Contents(rb))) = n - 2
        /\ \A i \in 1 .. (n - 2) : Tail(Contents(rb))[i] = Contents(rb)[i + 1]
    BY <1>1, <2>2, <2>4, HeadTailProperties
  <2>6. \A i \in 1 .. (n - 2) : Contents(g)[i] = Tail(Contents(rb))[i]
    BY <2>1, <2>3, <2>5, <2>7
  <2> QED
    BY <2>1, <2>5, <2>6, SeqEqual
<1> QED
  BY <1>4, <1>6, <1>7, <1>8

\* put() adds the value after all the others when there is room.
LEMMA PutAddsNewest ==
  ASSUME NEW rb, WellFormed(rb), ~is_full(rb), NEW v \in Values
  PROVE  /\ WellFormed(put(rb, v))
         /\ put(rb, v).size = rb.size
         /\ Contents(put(rb, v)) = Append(Contents(rb), v)
<1> DEFINE p == put(rb, v)
           n == rb.size
           t == rb.tail
           k == rb.currentSize
           buf == [rb.buf EXCEPT ![rb.head] = v]
<1>1. n \in Nat /\ 2 <= n /\ t \in 0 .. (n - 1) /\ k \in 0 .. (n - 2)
  BY Full DEF WellFormed
<1>2. rb.head = Cell(n, t, k) /\ rb.head \in 0 .. (n - 1)
  BY <1>1, CellRange DEF WellFormed
<1>3. After(rb, rb.head) = Cell(n, t, k + 1) /\ Cell(n, t, k + 1) # t
  <2>1. After(rb, rb.head) = NextCell(n, rb.head)
    BY <1>1, <1>2, WrapNext DEF After
  <2>2. k \in 0 .. (n - 1) /\ k + 1 < n
    BY <1>1
  <2> HIDE DEF n, t, k
  <2> QED
    BY <1>1, <1>2, <2>1, <2>2, CellAfter
<1>4. p = [buf |-> buf, head |-> Cell(n, t, k + 1), tail |-> t, size |-> n,
           currentSize |-> k + 1]
  <2>1. ~(k >= n)
    BY <1>1
  <2>2. p = [rb EXCEPT !.buf[rb.head] = v, !.head = Cell(n, t, k + 1),
                       !.currentSize = k + 1, !.tail = t]
    BY <1>3, <2>1 DEF put
  <2>3. rb = [buf |-> rb.buf, head |-> rb.head, tail |-> t, size |-> n,
              currentSize |-> k]
    BY DEF WellFormed
  <2> QED
    BY <2>2, <2>3
<1>5. buf \in [0 .. (n - 1) -> Values]
  BY <1>2 DEF WellFormed
<1>6. WellFormed(p)
  <2> HIDE DEF buf
  <2> QED
    BY <1>1, <1>4, <1>5 DEF WellFormed
<1>7. Contents(p) = Append(Contents(rb), v)
  <2>1. /\ Contents(p) \in Seq(Values) /\ Len(Contents(p)) = k + 1
        /\ \A i \in 1 .. (k + 1) : Contents(p)[i] = buf[Cell(n, t, i - 1)]
    <3> HIDE DEF buf
    <3> QED
      BY <1>4, <1>6, Holds
  <2>2. /\ Contents(rb) \in Seq(Values) /\ Len(Contents(rb)) = k
        /\ \A i \in 1 .. k : Contents(rb)[i] = rb.buf[Cell(n, t, i - 1)]
    BY Holds
  <2>3. \A i \in 1 .. k : Cell(n, t, i - 1) # rb.head
    BY <1>1, <1>2, CellApart
  <2>4. ASSUME NEW i \in 1 .. (k + 1)
        PROVE  Cell(n, t, i - 1) \in 0 .. (n - 1)
    <3>1. i - 1 \in 0 .. (n - 1)
      BY <1>1
    <3> QED
      BY <1>1, <3>1, CellRange
  <2>5. rb.buf \in [0 .. (n - 1) -> Values]
    BY DEF WellFormed
  <2>6. buf[rb.head] = v /\ \A c \in 0 .. (n - 1) : c # rb.head => buf[c] = rb.buf[c]
    BY <1>2, <2>5
  <2> HIDE DEF p, n, t, k, buf
  <2>7. Contents(p)[k + 1] = v
    BY <1>1, <1>2, <2>1, <2>6
  <2>8. \A i \in 1 .. k : Contents(p)[i] = Contents(rb)[i]
    <3> SUFFICES ASSUME NEW i \in 1 .. k
                 PROVE  Contents(p)[i] = Contents(rb)[i]
      OBVIOUS
    <3>1. i \in 1 .. (k + 1)
      BY <1>1
    <3>2. Contents(p)[i] = buf[Cell(n, t, i - 1)]
      BY <2>1, <3>1
    <3>3. buf[Cell(n, t, i - 1)] = rb.buf[Cell(n, t, i - 1)]
      BY <2>3, <2>4, <2>6, <3>1
    <3> QED
      BY <2>2, <3>2, <3>3
  <2>9. /\ Append(Contents(rb), v) \in Seq(Values)
        /\ Len(Append(Contents(rb), v)) = k + 1
        /\ Append(Contents(rb), v)[k + 1] = v
        /\ \A i \in 1 .. k : Append(Contents(rb), v)[i] = Contents(rb)[i]
    BY <2>2, AppendProperties
  <2>10. \A i \in 1 .. (k + 1) : Contents(p)[i] = Append(Contents(rb), v)[i]
    BY <1>1, <2>7, <2>8, <2>9
  <2> QED
    BY <2>1, <2>9, <2>10, SeqEqual
<1> QED
  BY <1>4, <1>6, <1>7

-----------------------------------------------------------------------------
(* The average. *)

\* add2Avg() drops the oldest value of a full window, and no other.
LEMMA AddSlides ==
  ASSUME WellFormed(ring), NEW v \in Values, add2Avg(v)
  PROVE  WellFormed(ring') /\ MovingWindow!Add(v)
<1> DEFINE room == IF is_full(ring) THEN get(ring) ELSE ring
<1>1. ring' = put(room, v)
  BY DEF add2Avg
<1>2. /\ WellFormed(room) /\ ~is_full(room) /\ room.size = ring.size
      /\ Contents(room) = IF is_full(ring) THEN Tail(Contents(ring))
                          ELSE Contents(ring)
  BY GetTakesOldest
<1> HIDE DEF room
<1>3. /\ WellFormed(ring') /\ ring'.size = ring.size
      /\ Contents(ring') = Append(Contents(room), v)
  BY <1>1, <1>2, PutAddsNewest
<1>4. is_full(ring) <=> Len(Contents(ring)) = maxsize(ring)
  BY Full, Holds DEF maxsize
<1>5. Contents(ring)' = Contents(ring') /\ maxsize(ring)' = maxsize(ring)
  BY <1>3 DEF Contents, Nth, maxsize
<1> QED
  BY <1>2, <1>3, <1>4, <1>5 DEF MovingWindow!Add

\* resize() keeps the values that fit, the oldest first.
LEMMA ResizeKeeps ==
  ASSUME WellFormed(ring), NEW newSize \in Sizes, resize(newSize)
  PROVE  WellFormed(ring') /\ MovingWindow!Resize(newSize)
<1>1. newSize \in Nat /\ newSize # 0 /\ newSize # maxsize(ring)
  BY SizesAssumption DEF resize
<1>2. PICK g \in Garbage : ring' = Copied(ring, newSize, [i \in 0 .. newSize |-> g])
  BY DEF resize
<1> DEFINE n   == ring.size
           t   == ring.tail
           k   == ring.currentSize
           cnt == IF newSize < k THEN newSize ELSE k
           buf == [i \in 0 .. newSize |-> IF i < cnt THEN Nth(ring, i)
                                          ELSE [j \in 0 .. newSize |-> g][i]]
<1>3. ring' = [buf |-> buf, head |-> cnt, tail |-> 0, size |-> newSize + 1,
               currentSize |-> cnt]
  BY <1>2 DEF Copied
<1>4. n \in Nat /\ 2 <= n /\ t \in 0 .. (n - 1) /\ k \in 0 .. (n - 1)
  BY DEF WellFormed
<1>5. cnt \in 0 .. newSize /\ cnt <= k
  BY <1>1, <1>4
<1>6. ASSUME NEW i \in 0 .. (k - 1)
      PROVE  /\ Nth(ring, i) = ring.buf[Cell(n, t, i)]
             /\ Nth(ring, i) \in Values
  <2>1. i \in 0 .. (n - 1)
    BY <1>4
  <2>2. Nth(ring, i) = ring.buf[Cell(n, t, i)]
    BY <1>4, <2>1, Wrap DEF Nth
  <2>3. Cell(n, t, i) \in 0 .. (n - 1)
    BY <1>4, <2>1, CellRange
  <2> QED
    BY <2>2, <2>3 DEF WellFormed
<1>7. buf \in [0 .. newSize -> Values]
  <2>1. g \in Values
    BY GarbageAssumption DEF Values
  <2>2. \A i \in 0 .. newSize : i < cnt => i \in 0 .. (k - 1)
    BY <1>1, <1>4, <1>5
  <2> HIDE DEF cnt, k
  <2> QED
    BY <1>6, <2>1, <2>2
<1>8. Cell(newSize + 1, 0, cnt) = cnt
  BY <1>1, <1>5 DEF Cell
<1>9. WellFormed(ring')
  <2> HIDE DEF buf, cnt
  <2> QED
    BY <1>1, <1>3, <1>5, <1>7, <1>8 DEF WellFormed
<1>10. /\ Contents(ring') \in Seq(Values) /\ Len(Contents(ring')) = cnt
       /\ \A i \in 1 .. cnt : Contents(ring')[i] = Contents(ring)[i]
  <2>1. /\ Contents(ring') \in Seq(Values) /\ Len(Contents(ring')) = cnt
        /\ \A i \in 1 .. cnt : Contents(ring')[i] = buf[Cell(newSize + 1, 0, i - 1)]
    <3> HIDE DEF buf, cnt
    <3> QED
      BY <1>3, <1>9, Holds
  <2>2. ASSUME NEW i \in 1 .. cnt
        PROVE  Contents(ring')[i] = Contents(ring)[i]
    <3>1. /\ Cell(newSize + 1, 0, i - 1) = i - 1
          /\ i - 1 \in 0 .. newSize /\ i - 1 < cnt /\ i - 1 \in 0 .. (k - 1)
          /\ i \in 1 .. k
      BY <1>1, <1>4, <1>5 DEF Cell
    <3>2. buf[i - 1] = Nth(ring, i - 1)
      BY <3>1
    <3> HIDE DEF buf, cnt
    <3> QED
      BY <1>6, <2>1, <3>1, <3>2, Holds
  <2> HIDE DEF buf, cnt
  <2> QED
    BY <2>1, <2>2
<1>11. /\ Contents(ring) \in Seq(Values) /\ Len(Contents(ring)) = k
  BY Holds
<1>12. Contents(ring') = IF Len(Contents(ring)) <= newSize THEN Contents(ring)
                         ELSE SubSeq(Contents(ring), 1, newSize)
  <2>1. CASE k <= newSize
    <3>1. cnt = k
      BY <1>1, <1>4, <2>1
    <3> HIDE DEF cnt
    <3> QED
      BY <1>10, <1>11, <2>1, <3>1, SeqEqual
  <2>2. CASE ~(k <= newSize)
    <3>1. cnt = newSize
      BY <1>1, <1>4, <2>2
    <3> HIDE DEF cnt, k
    <3>2. \A i \in 1 .. newSize : Contents(ring)[i] \in Values
      BY <1>1, <1>4, <1>11, <2>2
    <3>3. /\ SubSeq(Contents(ring), 1, newSize) \in Seq(Values)
          /\ Len(SubSeq(Contents(ring), 1, newSize)) = newSize
          /\ \A i \in 1 .. newSize :
               SubSeq(Contents(ring), 1, newSize)[i] = Contents(ring)[i]
      BY <1>1, <3>2, SubSeqProperties
    <3> QED
      BY <1>10, <1>11, <2>2, <3>1, <3>3, SeqEqual
  <2> QED
    BY <2>1, <2>2
<1>13. Contents(ring)' = Contents(ring') /\ maxsize(ring)' = newSize
  BY <1>1, <1>3 DEF Contents, Nth, maxsize
<1> QED
  BY <1>1, <1>9, <1>12, <1>13 DEF MovingWindow!Resize

\* Every step leaves the ring well formed and is a step of the window.
LEMMA RingStep ==
  WellFormed(ring) /\ [AverageNext]_averageVars
    => WellFormed(ring') /\ [MovingWindow!Next]_<<Contents(ring), maxsize(ring)>>
<1> SUFFICES ASSUME WellFormed(ring), [AverageNext]_averageVars
             PROVE  /\ WellFormed(ring')
                    /\ [MovingWindow!Next]_<<Contents(ring), maxsize(ring)>>
  OBVIOUS
<1>1. ASSUME NEW r \in Readings, add2Avg(Unsigned(r))
      PROVE  WellFormed(ring') /\ MovingWindow!Next
  <2>1. Unsigned(r) \in Values
    BY ReadingsAssumption, ModulusAssumption DEF Unsigned, Values
  <2> QED
    BY <1>1, <2>1, AddSlides DEF MovingWindow!Next
<1>2. ASSUME NEW newSize \in Sizes, resize(newSize)
      PROVE  WellFormed(ring') /\ MovingWindow!Next
  BY <1>2, ResizeKeeps DEF MovingWindow!Next
<1>3. CASE UNCHANGED averageVars
  BY <1>3 DEF averageVars, WellFormed, Contents, Nth, maxsize
<1> QED
  BY <1>1, <1>2, <1>3 DEF AverageNext

LEMMA RingInit == AverageInit => WellFormed(ring) /\ MovingWindow!Init
<1> SUFFICES ASSUME AverageInit
             PROVE  WellFormed(ring) /\ MovingWindow!Init
  OBVIOUS
<1>1. PICK g \in Garbage : ring = NewRing(InitialSize, [i \in 0 .. InitialSize |-> g])
  BY DEF AverageInit
<1>2. InitialSize \in Nat /\ InitialSize # 0 /\ g \in Values
  BY SizesAssumption, GarbageAssumption DEF Values
<1>3. ring = [buf |-> [i \in 0 .. InitialSize |-> g], head |-> 0, tail |-> 0,
              size |-> InitialSize + 1, currentSize |-> 0]
  BY <1>1 DEF NewRing
<1>4. WellFormed(ring)
  BY <1>2, <1>3 DEF WellFormed, Cell
<1>5. Contents(ring) = <<>>
  <2>1. Contents(ring) \in Seq(Values) /\ Len(Contents(ring)) = 0
    BY <1>3, <1>4, Holds
  <2> QED
    BY <2>1
<1>6. maxsize(ring) = InitialSize
  BY <1>2, <1>3 DEF maxsize
<1> QED
  BY <1>4, <1>5, <1>6 DEF MovingWindow!Init

\* The total is that of the values in the ring, with what has rolled over gone.
TotalInv == runningTotal = Sum(Contents(ring)) % Modulus

LEMMA TotalAdd ==
  ASSUME WellFormed(ring), TotalInv, NEW v \in Values, add2Avg(v)
  PROVE  TotalInv'
<1> DEFINE c == Contents(ring)
           n == maxsize(ring)
<1>1. c \in Seq(Int) /\ v \in Int /\ Modulus \in Nat /\ Modulus # 0
  <2>1. c \in Seq(Values)
    BY Holds
  <2>2. Values \subseteq Int
    BY ModulusAssumption DEF Values
  <2> QED
    BY <2>1, <2>2, SeqMonotonic, ModulusAssumption
<1>2. is_full(ring) <=> Len(c) = n
  BY Full, Holds DEF maxsize
<1>3. Contents(ring)' = Append(IF Len(c) = n THEN Tail(c) ELSE c, v)
  BY AddSlides DEF MovingWindow!Add
<1>4. CASE is_full(ring)
  <2>1. c # <<>> /\ GetValue(ring) = c[1]
    <3>1. WellFormed(ring) /\ ring.currentSize >= 1 /\ ~is_empty(ring)
      BY <1>4, Full DEF WellFormed
    <3>2. Len(c) = ring.currentSize /\ c[1] = ring.buf[Cell(ring.size, ring.tail, 0)]
      BY <3>1, Holds
    <3>3. Cell(ring.size, ring.tail, 0) = ring.tail
      BY DEF WellFormed, Cell
    <3> QED
      BY <3>1, <3>2, <3>3 DEF GetValue
  <2> HIDE DEF c, n
  <2>2. c[1] \in Int /\ Tail(c) \in Seq(Int)
    BY <1>1, <2>1, HeadTailProperties
  <2>3. Sum(c) \in Int /\ Sum(Tail(c)) = Sum(c) - c[1]
    BY <1>1, <2>1, SumTail, SumAppend
  <2>4. Sum(Append(Tail(c), v)) = (Sum(c) + (-c[1])) + v
    BY <1>1, <2>2, <2>3, SumAppend
  <2>5. runningTotal' = (((runningTotal - c[1]) % Modulus) + v) % Modulus
    BY <1>4, <2>1 DEF add2Avg
  <2>6. runningTotal = Sum(c) % Modulus
    BY DEF TotalInv, c
  <2>7. ((Sum(c) % Modulus) + (-c[1])) % Modulus = (Sum(c) + (-c[1])) % Modulus
    <3>1. Sum(c) \in Int /\ -c[1] \in Int
      BY <2>2, <2>3
    <3> QED
      BY <1>1, <3>1, ModAdd
  <2>8. (((Sum(c) + (-c[1])) % Modulus) + v) % Modulus
          = ((Sum(c) + (-c[1])) + v) % Modulus
    <3>1. Sum(c) + (-c[1]) \in Int
      BY <2>2, <2>3
    <3> QED
      BY <1>1, <3>1, ModAdd
  <2>9. Sum(c) % Modulus \in Int
    BY <1>1, <2>3
  <2>10. (Sum(c) % Modulus) + (-c[1]) = (Sum(c) % Modulus) - c[1]
    BY <2>2, <2>9
  <2> QED
    BY <1>2, <1>3, <1>4, <2>4, <2>5, <2>6, <2>7, <2>8, <2>10 DEF TotalInv
<1>5. CASE ~is_full(ring)
  <2>1. runningTotal' = (runningTotal + v) % Modulus
    BY <1>5 DEF add2Avg
  <2>2. Contents(ring)' = Append(c, v)
    BY <1>2, <1>3, <1>5
  <2>3. runningTotal = Sum(c) % Modulus
    BY DEF TotalInv
  <2> HIDE DEF c
  <2>4. Sum(c) \in Int /\ Sum(Append(c, v)) = Sum(c) + v
    BY <1>1, SumAppend
  <2>5. ((Sum(c) % Modulus) + v) % Modulus = (Sum(c) + v) % Modulus
    BY <1>1, <2>4, ModAdd
  <2> QED
    BY <2>1, <2>2, <2>3, <2>4, <2>5 DEF TotalInv
<1> QED
  BY <1>4, <1>5

LEMMA TotalStep == WellFormed(ring) /\ TotalInv /\ [AverageNext]_averageVars => TotalInv'
<1> SUFFICES ASSUME WellFormed(ring), TotalInv, [AverageNext]_averageVars
             PROVE  TotalInv'
  OBVIOUS
<1>1. ASSUME NEW r \in Readings, add2Avg(Unsigned(r))
      PROVE  TotalInv'
  <2>1. Unsigned(r) \in Values
    BY ReadingsAssumption, ModulusAssumption DEF Unsigned, Values
  <2> QED
    BY <1>1, <2>1, TotalAdd
<1>2. ASSUME NEW newSize \in Sizes, resize(newSize)
      PROVE  TotalInv'
  <2>1. Contents(ring)' = Contents(ring')
    BY DEF Contents, Nth
  <2> QED
    BY <1>2, <2>1 DEF resize, TotalInv
<1>3. CASE UNCHANGED averageVars
  BY <1>3 DEF averageVars, TotalInv, Contents, Nth
<1> QED
  BY <1>1, <1>2, <1>3 DEF AverageNext

\* Without a negative reading the cast changes no value.
LEMMA ReadingsAreValues ==
  ASSUME NEW v \in Values, Signed(v) >= 0
  PROVE  Signed(v) = v
BY ModulusAssumption DEF Signed, Values

LEMMA TotalExact == WellFormed(ring) /\ TotalInv => ExactWithinWidth
<1> DEFINE c == Contents(ring)
           readings == [i \in DOMAIN c |-> Signed(c[i])]
           size == maxsize(ring)
<1> SUFFICES ASSUME WellFormed(ring), TotalInv,
                    \A i \in DOMAIN readings : readings[i] >= 0 /\ readings[i] * size < Modulus
             PROVE  runningTotal = Sum(readings)
  BY DEF ExactWithinWidth
<1>1. /\ c \in Seq(Values) /\ Len(c) \in Nat /\ Len(c) <= size
      /\ size \in Nat /\ size # 0 /\ DOMAIN c = 1 .. Len(c)
  BY Holds DEF WellFormed, maxsize
<1>2. \A i \in 1 .. Len(c) : c[i] \in Values /\ Signed(c[i]) = c[i]
  BY <1>1, ReadingsAreValues
<1>3. readings = c
  <2> HIDE DEF c
  <2> QED
    BY <1>1, <1>2
<1>4. Values \subseteq Int /\ Modulus \in Nat \ {0}
  BY ModulusAssumption DEF Values
<1>5. runningTotal = Sum(c) % Modulus
  BY DEF TotalInv
<1>6. \A i \in 1 .. Len(c) : c[i] >= 0 /\ c[i] * size < Modulus
  BY <1>1, <1>3
<1> HIDE DEF c, readings, size
<1>7. c \in Seq(Int)
  BY <1>1, <1>4, SeqMonotonic
<1>8. Sum(c) \in 0 .. (Modulus - 1)
  BY <1>1, <1>4, <1>6, <1>7, SumFits
<1> QED
  BY <1>3, <1>4, <1>5, <1>8

-----------------------------------------------------------------------------
(* The results. *)

\* The variables of the threads keep their types: no index runs out of an array
\* and the semaphore never counts beyond 1 (ads1256_test.cpp:621, physical.cpp:238).
THEOREM SensorTypeOK == Spec => []TypeOK
BY TypeHolds, PTL

\* dataSemaphore admits one thread at a time and always comes back
\* (physical.cpp:249-253, IOthread.cpp:116-122).
THEOREM SensorSemaphoreExcludes == Spec => []SemaphoreExcludes
BY SemHolds, PTL DEF SemInv

\* The semaphore is destroyed only after both threads have ended
\* (physical.cpp:125-136).
THEOREM SensorSemaphoreOutlivesUsers == Spec => []SemaphoreOutlivesUsers
BY LifeHolds, PTL DEF LifeInv

\* A start whose burst thread could not be created is back only after both sensor
\* threads have ended, the IO thread before the data thread, each told by its own
\* die flag (nativeapp.cpp:373-386).  Of a start with the burst thread nothing is
\* said.
THEOREM SensorFailedBurst == Spec => []FailedBurstTakesAllDown
<1>1. LifeInv => FailedBurstTakesAllDown
  BY DEF LifeInv, DieInv, FailedBurstTakesAllDown
<1> QED
  BY <1>1, LifeHolds, PTL

\* Every average is over readings of its own input, for any number of inputs,
\* channels and samples (ads1256_test.cpp:621-648).
THEOREM SensorChannelsNotMixed == Spec => []ChannelsNotMixed
<1>1. MixInv => ChannelsNotMixed
  BY DEF MixInv, PlaceInv, ChannelsNotMixed
<1> QED
  BY <1>1, MixHolds, PTL

\* The ring's own count is the distance between its indices, which stay within
\* the array (CircularBuffer.h, put() and get()).
THEOREM RingWellFormed == AverageSpec => []WellFormed(ring)
<1>1. WellFormed(ring) /\ [AverageNext]_averageVars => WellFormed(ring)'
  BY RingStep DEF WellFormed, Cell
<1> QED
  BY <1>1, RingInit, PTL DEF AverageSpec

\* The ring with its wrapping indices is a window over the values added last,
\* whatever its size and however it is resized (RunningAverage.h, add2Avg() and
\* resize()).
THEOREM RingSlidesAsAWindow == AverageSpec => SlidesAsAWindow
<1>1. WellFormed(ring) /\ [AverageNext]_averageVars
        => [MovingWindow!Next]_(MovingWindow!vars)
  BY RingStep DEF MovingWindow!vars
<1> QED
  BY <1>1, RingInit, RingWellFormed, PTL
     DEF AverageSpec, SlidesAsAWindow, MovingWindow!Spec

\* As long as the length of the window times the largest reading in it fits the
\* type and none is negative, the total kept beside the ring is their sum,
\* however many have rolled over before (RunningAverage.h, add2Avg() and
\* resize(); physical.cpp, run_data()).
THEOREM TotalIsExact == AverageSpec => []ExactWithinWidth
<1>1. AverageInit => TotalInv
  <2> SUFFICES ASSUME AverageInit PROVE TotalInv
    OBVIOUS
  <2>1. Contents(ring) = <<>>
    BY RingInit DEF MovingWindow!Init
  <2> QED
    BY <2>1, SumEmpty, ModulusAssumption DEF AverageInit, TotalInv
<1> QED
  BY <1>1, TotalStep, TotalExact, RingWellFormed, PTL DEF AverageSpec
=============================================================================
