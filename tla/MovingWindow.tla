---------------------------- MODULE MovingWindow ----------------------------
(***************************************************************************)
(* What the running average of Hip_Native/RunningAverage.h promises: the   *)
(* mean is taken over the last few values and nothing else.  The window    *)
(* never holds more values than its length; a full window gives up its     *)
(* oldest value for a new one; a change of the length keeps the values     *)
(* that fit, the oldest first.                                             *)
(***************************************************************************)
EXTENDS Naturals, Sequences

CONSTANTS Values,         \* what can be added
          InitialSize,    \* the length of the window at the start
          Sizes           \* the lengths a caller may ask for

VARIABLES window,         \* the values averaged, the oldest first
          length          \* how many values the window may hold

vars == <<window, length>>

Init == window = <<>> /\ length = InitialSize

Add(v) ==
  /\ window' = Append(IF Len(window) = length THEN Tail(window) ELSE window, v)
  /\ UNCHANGED length

Resize(n) ==
  /\ n \notin {0, length}
  /\ length' = n
  /\ window' = IF Len(window) <= n THEN window ELSE SubSeq(window, 1, n)

Next == (\E v \in Values : Add(v)) \/ (\E n \in Sizes : Resize(n))

Spec == Init /\ [][Next]_vars
=============================================================================
