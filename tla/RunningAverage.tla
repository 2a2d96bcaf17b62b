--------------------------- MODULE RunningAverage ---------------------------
(***************************************************************************)
(* The running average of Hip_Native/RunningAverage.h over the ring of     *)
(* Hip_Native/CircularBuffer.h.  The data thread keeps one for every       *)
(* converter channel and adds each reading to it.  The ring keeps one spare *)
(* cell to tell full from empty, and a count of its own beside the two     *)
(* indices; the average keeps a total of its own beside the ring.  Every   *)
(* call runs under the average's mutex, so each is one step.               *)
(*                                                                         *)
(* The total has the type of the values, uint32_t in the program: here a   *)
(* number modulo Modulus.  A reading of the converter is signed, and the   *)
(* data thread casts it to that type before it adds it.                    *)
(***************************************************************************)
EXTENDS Integers, Sequences

CONSTANTS Modulus,        \* 2^32 in the program
          Readings,       \* the signed readings of the converter
          Garbage,        \* what a new array's cells may hold
          InitialSize,    \* the template parameter initialSize
          Sizes           \* the lengths a caller of resize() may pass

ASSUME ModulusAssumption == Modulus \in Nat \ {0}
ASSUME ReadingsAssumption == Readings \subseteq Int
ASSUME GarbageAssumption == Garbage \subseteq 0 .. (Modulus - 1) /\ Garbage # {}
ASSUME SizesAssumption == InitialSize \in Nat \ {0} /\ Sizes \subseteq Nat

VARIABLES ring,           \* *pRndBuff
          runningTotal

averageVars == <<ring, runningTotal>>

Values == 0 .. (Modulus - 1)

\* The cast to the type of the values.
Unsigned(r) == r % Modulus

----------------------------------------------------------------------------
\* The ring: circular_buffer<C>.

\* A new buffer: one cell more than asked for, none of them written.
NewRing(size, cells) ==
  [buf |-> cells, head |-> 0, tail |-> 0, size |-> size + 1, currentSize |-> 0]

After(rb, i) == (i + 1) % rb.size

is_empty(rb) == rb.head = rb.tail
is_full(rb)  == After(rb, rb.head) = rb.tail
maxsize(rb)  == rb.size - 1

put(rb, item) ==
  LET head == After(rb, rb.head)
  IN  [rb EXCEPT !.buf[rb.head] = item,
                 !.head = head,
                 !.currentSize = IF @ >= rb.size THEN rb.size ELSE @ + 1,
                 !.tail = IF head = @ THEN After(rb, @) ELSE @]

\* The value get() returns, and the ring it leaves.
GetValue(rb) == IF is_empty(rb) THEN 0 ELSE rb.buf[rb.tail]

\* get() that leaves the count alone.
get_Uncounted(rb) ==
  IF is_empty(rb) THEN rb ELSE [rb EXCEPT !.tail = After(rb, @)]

get(rb) ==
  IF is_empty(rb)
  THEN [rb EXCEPT !.currentSize = 0]
  ELSE [rb EXCEPT !.currentSize = @ - 1, !.tail = After(rb, @)]

\* The i-th oldest value in the ring, from 0.
Nth(rb, i) == rb.buf[(rb.tail + i) % rb.size]

\* What the ring holds, the oldest first.
Contents(rb) == [i \in 1 .. rb.currentSize |-> Nth(rb, i - 1)]

Sum(s) == LET total[i \in 0 .. Len(s)] ==
                IF i = 0 THEN 0 ELSE total[i - 1] + s[i]
          IN  total[Len(s)]

----------------------------------------------------------------------------
\* The average: running_average<C, initialSize>.

AverageInit ==
  /\ \E g \in Garbage : ring = NewRing(InitialSize, [i \in 0 .. InitialSize |-> g])
  /\ runningTotal = 0

\* add2Avg() that takes nothing off the total.
add2Avg_Kept(newVal) ==
  /\ ring' = put(IF is_full(ring) THEN get(ring) ELSE ring, newVal)
  /\ runningTotal' = (runningTotal + newVal) % Modulus

\* add2Avg(): a full ring first gives up its oldest value, and the total with
\* it; then the new value goes into both.
add2Avg(newVal) ==
  LET room == IF is_full(ring) THEN get(ring) ELSE ring
      kept == IF is_full(ring) THEN (runningTotal - GetValue(ring)) % Modulus
                               ELSE runningTotal
  IN  /\ ring' = put(room, newVal)
      /\ runningTotal' = (kept + newVal) % Modulus

\* The loop of resize(): the values that fit go from the old ring, oldest
\* first, into the new one.
Copied(rb, newSize, cells) ==
  LET cnt == IF newSize < rb.currentSize THEN newSize ELSE rb.currentSize
  IN  [buf  |-> [i \in 0 .. newSize |-> IF i < cnt THEN Nth(rb, i) ELSE cells[i]],
       head |-> cnt, tail |-> 0, size |-> newSize + 1, currentSize |-> cnt]

resize(newSize) ==
  /\ newSize \notin {0, maxsize(ring)}
  /\ \E g \in Garbage :
       ring' = Copied(ring, newSize, [i \in 0 .. newSize |-> g])
  /\ runningTotal' = Sum(Contents(ring')) % Modulus

AverageNext ==
  \/ \E r \in Readings : add2Avg(Unsigned(r))
  \/ \E n \in Sizes : resize(n)

AverageSpec == AverageInit /\ [][AverageNext]_averageVars

----------------------------------------------------------------------------
Signed(v) == IF v >= Modulus \div 2 THEN v - Modulus ELSE v

\* The comment at the head of the class asks that the type hold the length of
\* the window times the largest value.  Under it, and when no reading in the
\* window is negative, the total is the sum of the converter's readings with
\* nothing rolled over (RunningAverage.h, physical.cpp, run_data()).
ExactWithinWidth ==
  LET readings == [i \in DOMAIN Contents(ring) |-> Signed(Contents(ring)[i])]
  IN  (\A i \in DOMAIN readings : readings[i] >= 0
                                  /\ readings[i] * maxsize(ring) < Modulus)
        => runningTotal = Sum(readings)

MovingWindow == INSTANCE MovingWindow
                  WITH window <- Contents(ring), length <- maxsize(ring)

\* The ring with its wrapping indices behaves as a window over the last
\* values: each add drops the oldest value and nothing else, each change of
\* the size keeps the values that fit in their order.
SlidesAsAWindow == MovingWindow!Spec
=============================================================================
