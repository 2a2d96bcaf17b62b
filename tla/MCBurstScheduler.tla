-------------------------- MODULE MCBurstScheduler --------------------------
\* Small hosts for BurstScheduler: two burst messages, one trigger mode of each
\* kind (continuous, window, on-change), on and off.
EXTENDS BurstScheduler

MCTriggerModes == {0, 1, 4}
MCControlCodes == {0, 4}

\* Periods of one to ten turns of the loop, update period and maximum equal or
\* not, sent in the wrong order and beside the table; a command with values to
\* trigger on and one without.
MCTimePairs == {<<1600, 3200>>, <<9000, 16000>>, <<9000, 4000>>}
MCBurstCmds == {9, 48}

\* One message a host re-times while it runs.
MCRetimedPairs == {<<1600, 3200>>}
MCRetimedCmds  == {9}

\* Bound: the first message takes all of this, the others are a continuous one of
\* one turn that a host switches on and off.
Neighbours == \A m \in Msgs \ {0} : /\ mode[m] = 0 /\ cmd[m] = 9
                                    /\ Period[m] = 1600 /\ MaxPer[m] = 3200
=============================================================================
