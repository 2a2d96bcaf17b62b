-------------------------- MODULE MCPhysicalAlarms --------------------------
\* The factory limits of the flow and of the tube current, readings on and
\* between them (every zone of the current, its two edges included, and a flow
\* that is good or at a limit), and hosts that send back a status the
\* device may have replied.
EXTENDS PhysicalAlarms

PerVar(pv, sv) == [v \in {"PV", "SV"} |-> IF v = "PV" THEN pv ELSE sv]

MCLowerSensorLimit == PerVar(0, -1)
MCLowAlarm         == PerVar(2400, 8)
MCHighAlarm        == PerVar(20000, 60)
MCUpperSensorLimit == PerVar(24000, 150)
MCReadings         == PerVar({10000, 24000}, {-1, 8, 30, 60, 151})

MCEchoes == {[b0 |-> {<<"SV", "ZeroValue">>}, efds |-> {"MaintReqd"}],
             [b0 |-> {<<"PV", "OverRange">>, <<"SV", "LoAlarm">>},
              efds |-> {}]}
=============================================================================
