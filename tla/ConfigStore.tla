----------------------------- MODULE ConfigStore -----------------------------
(***************************************************************************)
(* What the configuration file promises: a device that starts works with   *)
(* the configuration kept last, whole, and only the one it works with is   *)
(* ever kept.                                                              *)
(***************************************************************************)
CONSTANTS Values,  \* the configurations there are
          Default  \* the one kept before anything was

VARIABLES up,   \* whether the device works
          mem,  \* the configuration it works with, Default while it does not
          kept  \* the configuration the next start begins with

vars == <<up, mem, kept>>

Init == ~up /\ mem = Default /\ kept = Default

Start == ~up /\ up' /\ mem' = kept /\ UNCHANGED kept

Change == up /\ mem' \in Values /\ UNCHANGED <<up, kept>>

Keep == up /\ kept' = mem /\ UNCHANGED <<up, mem>>

Stop == up /\ ~up' /\ mem' = Default /\ kept' \in {kept, mem}

Next == Start \/ Change \/ Keep \/ Stop

Spec == Init /\ [][Next]_vars
=============================================================================
