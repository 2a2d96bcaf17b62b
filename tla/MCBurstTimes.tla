---------------------------- MODULE MCBurstTimes ----------------------------
\* Inputs for BurstTimes: the rungs of the table, the points half way between
\* two of them, the values beside each, and the edges of the range above one
\* minute, those of the repository's own testStep() included.
EXTENDS BurstTimes

MidPoints == {(legalValues[i] + legalValues[i + 1]) \div 2 :
                i \in 1 .. (Len(legalValues) - 1)}

Beside(S) == UNION {{v - 1, v, v + 1} : v \in S}

MCRawTimes ==
  Beside({legalValues[i] : i \in {1, 2, 3, 10, 11}})
    \union {legalValues[i] : i \in 4 .. 9}
    \union Beside({m \in MidPoints : m < 13000})
    \union {0, 2390, 14000, 510000, 1935999, 1936000, 60000000,
            115183999, 115184000, 115199999, 115200000, 115200001,
            115208000, 2147483647}
=============================================================================
