---------------------------- MODULE SensorThreads ----------------------------
(***************************************************************************)
(* The threads that read the sensors, their start and their end.           *)
(* nativeapp.cpp start_system() has physical.cpp create the data thread,    *)
(* which creates the IO thread; then burst.cpp creates the burst thread,   *)
(* and when that fails kill_phy() takes the first two down again.          *)
(*                                                                         *)
(* A thread is asked to end by a die flag and takes the flag back when it  *)
(* does; whoever asked spins on the flag.  The IO thread scans an ADS1256  *)
(* converter and stores what it finds in adc[], the data thread averages   *)
(* adc[] and passes the averages on; dataSemaphore guards every access.    *)
(*                                                                         *)
(* A reading is modelled by the converter input it was taken from.  The    *)
(* process may end at any time: SIGINT and the end of main() both leave    *)
(* the threads running until exit() ends them all.                         *)
(***************************************************************************)
EXTENDS Integers, Sequences

CONSTANTS Inputs,         \* inputs the scan goes round, 8 in the program
          chCnt,          \* inputs the program uses, 3
          DEFLTSZ,        \* the length of a running average, 2
          HeldUp          \* may the IO thread be held up for the time of a
                          \* conversion (67 ms) between SYNC and RDATA?

ASSUME InputsAssumption == Inputs \in Nat /\ chCnt \in Nat /\ 1 <= chCnt /\ chCnt < Inputs
ASSUME LengthAssumption == DEFLTSZ \in Nat \ {0}
ASSUME HeldUpAssumption == HeldUp \in BOOLEAN

VARIABLES main,           \* where start_system() and what follows it is
          burst,          \* was the burst thread created?
          data, dataCh,   \* where run_data() is, and its channel i
          io, ioCh,       \* where run_io() is, and its channel i
          dieDataThDie,   \* asks the data thread to end
          dieThreadDie,   \* asks the IO thread to end
          semUp,          \* dataSemaphore: not yet, there, destroyed
          semCount,       \* and its value
          adc,            \* the raw counts the two threads share
          pending,        \* *upCnt # lastUpdt: a scan the data thread has not seen
          window,         \* RunningAvg[]: the readings each average is over
          mux,            \* converter: the input being converted
          ready,          \* converter: DRDY is low
          result,         \* converter: the input of the last conversion done
          Channel,        \* g_tADS1256.Channel
          AdcNow          \* g_tADS1256.AdcNow

mainVars == <<main, burst>>
dataVars == <<data, dataCh, window>>
ioVars   == <<io, ioCh, Channel, AdcNow>>
semVars  == <<semUp, semCount>>
converter == <<mux, ready, result>>

vars == <<mainVars, dataVars, ioVars, dieDataThDie, dieThreadDie, semVars,
          adc, pending, converter>>

NoReading == -1
Channels  == 0 .. (chCnt - 1)
Tags      == {NoReading} \union 0 .. (Inputs - 1)

----------------------------------------------------------------------------
\* Starting.

Init ==
  /\ main = "configured" /\ burst = FALSE
  /\ data = "none" /\ dataCh = 0
  /\ io = "none" /\ ioCh = 0
  /\ dieDataThDie = FALSE /\ dieThreadDie = FALSE
  /\ semUp = "none" /\ semCount = 0
  /\ adc = [c \in Channels |-> NoReading]
  /\ pending = FALSE
  /\ window = [c \in Channels |-> <<>>]
  /\ mux = 0 /\ ready \in BOOLEAN /\ result = 0
  /\ Channel = 0
  /\ AdcNow = [c \in 0 .. (Inputs - 1) |-> NoReading]

\* init_phy(): the semaphore and the data thread.
init_phy ==
  /\ main = "configured"
  /\ main' = "phy" /\ data' = "create"
  /\ semUp' = "up" /\ semCount' = 1
  /\ UNCHANGED <<burst, dataCh, window, ioVars, dieDataThDie, dieThreadDie,
                 adc, pending, converter>>

\* init_phy() whose sem_init(), or whose pthread_create(), fails: start_system()
\* returns the error, and main() goes to its cleanup.
init_phy_Fails ==
  /\ main = "configured"
  /\ main' = "failed"
  /\ semUp' \in {"none", "destroyed"}
  /\ UNCHANGED <<burst, dataVars, ioVars, dieDataThDie, dieThreadDie, semCount,
                 adc, pending, converter>>

init_burst ==
  /\ main = "phy"
  /\ main' = "running" /\ burst' = TRUE
  /\ UNCHANGED <<dataVars, ioVars, dieDataThDie, dieThreadDie, semVars, adc,
                 pending, converter>>

\* init_burst() whose pthread_create() fails: kill_phy() begins.
init_burst_Fails ==
  /\ main = "phy"
  /\ main' = "killing" /\ dieDataThDie' = TRUE
  /\ UNCHANGED <<burst, dataVars, ioVars, dieThreadDie, semVars, adc, pending,
                 converter>>

\* kill_phy() that does not wait for the data thread.
kill_phy_AtOnce ==
  /\ main = "killing"
  /\ main' = "running" /\ semUp' = "destroyed"
  /\ UNCHANGED <<burst, dataVars, ioVars, dieDataThDie, dieThreadDie, semCount,
                 adc, pending, converter>>

\* kill_phy() ends; start_system() then says NO_ERROR.
kill_phy ==
  /\ main = "killing" /\ ~dieDataThDie
  /\ main' = "running" /\ semUp' = "destroyed"
  /\ UNCHANGED <<burst, dataVars, ioVars, dieDataThDie, dieThreadDie, semCount,
                 adc, pending, converter>>

\* SIGINT, or main() after abortApp(): cleanup() stops no thread; exit() does.
Exit ==
  /\ main # "configured"
  /\ main' = "exited"
  /\ UNCHANGED <<burst, dataVars, ioVars, dieDataThDie, dieThreadDie, semVars,
                 adc, pending, converter>>

----------------------------------------------------------------------------
\* The data thread: run_data().

\* It creates the IO thread, or cannot and ends without a look at its flag.
CreateIO ==
  /\ data = "create"
  /\ \/ data' = "check" /\ io' = "init"
     \/ data' = "lost" /\ UNCHANGED io
  /\ UNCHANGED <<mainVars, dataCh, window, ioCh, Channel, AdcNow, dieDataThDie,
                 dieThreadDie, semVars, adc, pending, converter>>

\* The top of the loop, and what follows its end.
CheckData ==
  /\ data = "check"
  /\ IF dieDataThDie
     THEN data' = "ending" /\ dieThreadDie' = TRUE
     ELSE data' = "wait" /\ UNCHANGED dieThreadDie
  /\ UNCHANGED <<mainVars, dataCh, window, ioVars, dieDataThDie, semVars, adc,
                 pending, converter>>

\* The wait for an update is over, or MAXWAIT was: the same data again.
WaitUpdate ==
  /\ data = "wait"
  /\ data' = "take" /\ dataCh' = 0
  /\ pending' = FALSE
  /\ UNCHANGED <<mainVars, window, ioVars, dieDataThDie, dieThreadDie, semVars,
                 adc, converter>>

sem_wait == semUp = "up" /\ semCount > 0 /\ semCount' = semCount - 1 /\ UNCHANGED semUp
sem_post == semCount' = semCount + 1 /\ UNCHANGED semUp

\* TakeForData without sem_wait().
TakeForData_Free ==
  /\ data = "take"
  /\ data' = "add"
  /\ UNCHANGED <<mainVars, dataCh, window, ioVars, dieDataThDie, dieThreadDie,
                 semVars, adc, pending, converter>>

TakeForData ==
  /\ data = "take" /\ sem_wait
  /\ data' = "add"
  /\ UNCHANGED <<mainVars, dataCh, window, ioVars, dieDataThDie, dieThreadDie,
                 adc, pending, converter>>

\* add2Avg() of this channel's count.
AddToAverage ==
  /\ data = "add"
  /\ data' = "post"
  /\ window' = [window EXCEPT ![dataCh] =
                  Append(IF Len(@) = DEFLTSZ THEN Tail(@) ELSE @, adc[dataCh])]
  /\ UNCHANGED <<mainVars, dataCh, ioVars, dieDataThDie, dieThreadDie, semVars,
                 adc, pending, converter>>

\* The semaphore goes back; the averages of the first two channels are passed
\* on (PhysicalAlarms has what becomes of them); then the next channel.
NextChannel ==
  /\ data = "post" /\ sem_post
  /\ IF dataCh + 1 < chCnt
     THEN data' = "take" /\ dataCh' = dataCh + 1
     ELSE data' = "check" /\ dataCh' = 0
  /\ UNCHANGED <<mainVars, window, ioVars, dieDataThDie, dieThreadDie, adc,
                 pending, converter>>

\* EndData without the wait for the IO thread.
EndData_AtOnce ==
  /\ data = "ending"
  /\ data' = "ended" /\ dieDataThDie' = FALSE
  /\ UNCHANGED <<mainVars, dataCh, window, ioVars, dieThreadDie, semVars, adc,
                 pending, converter>>

\* The IO thread has taken its flag back, and the data thread does.
EndData ==
  /\ data = "ending" /\ ~dieThreadDie
  /\ data' = "ended" /\ dieDataThDie' = FALSE
  /\ UNCHANGED <<mainVars, dataCh, window, ioVars, dieThreadDie, semVars, adc,
                 pending, converter>>

run_data == CreateIO \/ CheckData \/ WaitUpdate \/ TakeForData \/ AddToAverage
              \/ NextChannel \/ EndData

----------------------------------------------------------------------------
\* The IO thread: run_io().

\* ADS1256_StartScan(): the scan begins at channel 0 with nothing read.
StartScan ==
  /\ Channel' = 0
  /\ AdcNow' = [c \in 0 .. (Inputs - 1) |-> NoReading]

\* The card is mapped and has the right chip, has another, or is not there.
InitIO ==
  /\ io = "init"
  /\ \/ io' = "check" /\ StartScan
     \/ io' \in {"badId", "exit"} /\ UNCHANGED <<Channel, AdcNow>>
  /\ UNCHANGED <<mainVars, dataVars, ioCh, dieDataThDie, dieThreadDie, semVars,
                 adc, pending, converter>>

\* With the wrong chip it looks at its flag once a second.
WrongChip ==
  /\ io = "badId" /\ dieThreadDie
  /\ io' = "exit"
  /\ UNCHANGED <<mainVars, dataVars, ioCh, Channel, AdcNow, dieDataThDie,
                 dieThreadDie, semVars, adc, pending, converter>>

CheckIO ==
  /\ io = "check"
  /\ io' = IF dieThreadDie THEN "exit" ELSE "scan"
  /\ UNCHANGED <<mainVars, dataVars, ioCh, Channel, AdcNow, dieDataThDie,
                 dieThreadDie, semVars, adc, pending, converter>>

\* ADS1256_Scan() once DRDY is low; ADS1256_ISR() selects the next input and
\* restarts the converter.  Until then the thread spins, whatever its flag says.
SelectInput ==
  /\ io = "scan" /\ ready
  /\ io' = "read"
  /\ mux' = Channel /\ ready' = FALSE
  /\ UNCHANGED <<mainVars, dataVars, ioCh, Channel, AdcNow, dieDataThDie,
                 dieThreadDie, semVars, adc, pending, result>>

\* The slot of AdcNow the conversion before belongs to.
SlotBefore == IF Channel = 0 THEN Inputs - 1 ELSE Channel - 1

\* ReadResult into the slot of the input just selected.
ReadResult_OfSelected ==
  /\ io = "read"
  /\ io' = "take" /\ ioCh' = 0
  /\ AdcNow' = [AdcNow EXCEPT ![Channel] = result]
  /\ Channel' = IF Channel + 1 >= Inputs THEN 0 ELSE Channel + 1
  /\ UNCHANGED <<mainVars, dataVars, dieDataThDie, dieThreadDie, semVars, adc,
                 pending, converter>>

\* ReadResult that goes one input too far round.
ReadResult_TooFar ==
  /\ io = "read"
  /\ io' = "take" /\ ioCh' = 0
  /\ AdcNow' = [AdcNow EXCEPT ![SlotBefore] = result]
  /\ Channel' = IF Channel + 1 > Inputs THEN 0 ELSE Channel + 1
  /\ UNCHANGED <<mainVars, dataVars, dieDataThDie, dieThreadDie, semVars, adc,
                 pending, converter>>

\* The rest of ADS1256_ISR(): the result is still that of the input before.
ReadResult ==
  /\ io = "read"
  /\ io' = "take" /\ ioCh' = 0
  /\ AdcNow' = [AdcNow EXCEPT ![SlotBefore] = result]
  /\ Channel' = IF Channel + 1 >= Inputs THEN 0 ELSE Channel + 1
  /\ UNCHANGED <<mainVars, dataVars, dieDataThDie, dieThreadDie, semVars, adc,
                 pending, converter>>

TakeForIO ==
  /\ io = "take" /\ sem_wait
  /\ io' = "store"
  /\ UNCHANGED <<mainVars, dataVars, ioCh, Channel, AdcNow, dieDataThDie,
                 dieThreadDie, adc, pending, converter>>

\* The channels first; when they are through, the update count.
Store ==
  /\ io = "store"
  /\ io' = "post"
  /\ IF ioCh < chCnt
     THEN adc' = [adc EXCEPT ![ioCh] = AdcNow[ioCh]] /\ UNCHANGED pending
     ELSE pending' = TRUE /\ UNCHANGED adc
  /\ UNCHANGED <<mainVars, dataVars, ioCh, Channel, AdcNow, dieDataThDie,
                 dieThreadDie, semVars, converter>>

\* PostIO without sem_post() after the update count.
PostIO_Kept ==
  /\ io = "post"
  /\ IF ioCh < chCnt
     THEN sem_post /\ io' = "take" /\ ioCh' = ioCh + 1
     ELSE UNCHANGED semVars /\ io' = "check" /\ ioCh' = 0
  /\ UNCHANGED <<mainVars, dataVars, Channel, AdcNow, dieDataThDie,
                 dieThreadDie, adc, pending, converter>>

PostIO ==
  /\ io = "post" /\ sem_post
  /\ IF ioCh < chCnt
     THEN io' = "take" /\ ioCh' = ioCh + 1
     ELSE io' = "check" /\ ioCh' = 0
  /\ UNCHANGED <<mainVars, dataVars, Channel, AdcNow, dieDataThDie,
                 dieThreadDie, adc, pending, converter>>

\* EndIO that leaves the flag.
EndIO_FlagLeft ==
  /\ io = "exit"
  /\ io' = IF dieThreadDie THEN "ended" ELSE "gaveUp"
  /\ UNCHANGED <<mainVars, dataVars, ioCh, Channel, AdcNow, dieDataThDie,
                 dieThreadDie, semVars, adc, pending, converter>>

\* runExit: a thread that was asked to end takes the flag back, one that ends
\* on its own leaves it.
EndIO ==
  /\ io = "exit"
  /\ io' = IF dieThreadDie THEN "ended" ELSE "gaveUp"
  /\ dieThreadDie' = FALSE
  /\ UNCHANGED <<mainVars, dataVars, ioCh, Channel, AdcNow, dieDataThDie,
                 semVars, adc, pending, converter>>

run_io == InitIO \/ WrongChip \/ CheckIO \/ SelectInput \/ ReadResult
            \/ TakeForIO \/ Store \/ PostIO \/ EndIO

\* The converter finishes a conversion of the selected input.
Convert ==
  /\ ~ready
  /\ io = "read" => HeldUp
  /\ ready' = TRUE /\ result' = mux
  /\ UNCHANGED <<mainVars, dataVars, ioVars, dieDataThDie, dieThreadDie,
                 semVars, adc, pending, mux>>

start_system == init_phy \/ init_phy_Fails \/ init_burst \/ init_burst_Fails
                  \/ kill_phy

Next ==
  /\ main # "exited"
  /\ start_system \/ run_data \/ run_io \/ Convert \/ Exit

Spec == Init /\ [][Next]_vars

\* Every thread goes on when it can; the converter converts; and a thread that
\* waits for the semaphore gets it if it is free again and again (the data
\* thread sleeps 1 ms at a time while it waits for an update).
Fairness ==
  /\ WF_vars(start_system /\ main # "exited")
  /\ WF_vars(run_data /\ main # "exited")
  /\ WF_vars(run_io /\ main # "exited")
  /\ WF_vars(Convert /\ main # "exited")
  /\ SF_vars(TakeForData /\ main # "exited")
  /\ SF_vars(TakeForIO /\ main # "exited")

FairSpec == Spec /\ Fairness

----------------------------------------------------------------------------
\* The type of the state (physical.cpp, IOthread.cpp, memory_glbl.cpp): the
\* indices of every array stay within it.
TypeOK ==
  /\ main \in {"configured", "phy", "killing", "running", "failed", "exited"}
  /\ data \in {"none", "create", "check", "wait", "take", "add", "post",
               "ending", "ended", "lost"}
  /\ io \in {"none", "init", "badId", "check", "scan", "read", "take", "store",
             "post", "exit", "ended", "gaveUp"}
  /\ burst \in BOOLEAN /\ dieDataThDie \in BOOLEAN /\ dieThreadDie \in BOOLEAN
  /\ dataCh \in Channels /\ ioCh \in 0 .. chCnt
  /\ semUp \in {"none", "up", "destroyed"} /\ semCount \in 0 .. 1
  /\ adc \in [Channels -> Tags]
  /\ pending \in BOOLEAN /\ ready \in BOOLEAN
  /\ window \in [Channels -> Seq(Tags)]
  /\ mux \in 0 .. (Inputs - 1) /\ result \in 0 .. (Inputs - 1)
  /\ Channel \in 0 .. (Inputs - 1)
  /\ AdcNow \in [0 .. (Inputs - 1) -> Tags]

DataHolds == data \in {"add", "post"}
IOHolds   == io \in {"store", "post"}

\* dataSemaphore admits one of the two threads, and no thread leaves without
\* giving it back (physical.cpp:249-253, IOthread.cpp:116-122).
SemaphoreExcludes ==
  /\ ~(DataHolds /\ IOHolds)
  /\ semUp = "up" => semCount = IF DataHolds \/ IOHolds THEN 0 ELSE 1

\* kill_phy() destroys the semaphore only when neither thread will touch it
\* again, however far the two had come when it was called (physical.cpp:133).
SemaphoreOutlivesUsers ==
  semUp # "up" => data \in {"none", "ended"} /\ io \in {"none", "ended"}

\* When the burst thread could not be created, start_system() comes back (with
\* NO_ERROR) only after both sensor threads have ended, the IO thread before the
\* data thread: each die flag is taken back by the thread it was for and by no
\* other (nativeapp.cpp:373-386, memory_glbl.h:45-46).  With the burst thread
\* created nothing is said of the sensor threads: a good start does not mean
\* that they run, for the data thread may have been unable to create the IO
\* thread (physical.cpp:171-176), and the IO thread may have found no card
\* (IOthread.cpp:54-57).
FailedBurstTakesAllDown ==
  /\ main = "running" /\ ~burst => data = "ended" /\ io = "ended"
  /\ main = "killing" /\ ~dieDataThDie => data = "ended"
  /\ data = "ending" /\ ~dieThreadDie => io = "ended"

\* Although the result read after a switch of the multiplexer is that of the
\* input before, every average is of readings of its own input, as long as the
\* IO thread is not held up in between (ads1256_test.cpp:621-648,
\* physical.cpp:250-273).
ChannelsNotMixed ==
  ~HeldUp => \A c \in Channels : \A i \in DOMAIN window[c] :
               window[c][i] \in {NoReading, c}

\* kill_phy() comes to its end, unless the data thread was lost with its flag
\* standing or the IO thread had given up before it was asked to end: the two
\* ways to leave start_system() waiting for ever (physical.cpp:131,307).
KillEnds ==
  main = "killing" ~> main # "killing" \/ data = "lost" \/ io = "gaveUp"

\* Once the scan runs, the flow is in the end an average over readings of its
\* own input alone, and nothing of the time before the first conversion is left
\* in it, unless the device ends or takes the threads down
\* (IOthread.cpp:105-122, physical.cpp:223-264).
FlowIsMeasured ==
  io = "scan" ~> \/ Len(window[0]) = DEFLTSZ /\ \A i \in DOMAIN window[0] : window[0][i] = 0
                 \/ dieDataThDie
                 \/ main = "exited"
=============================================================================
