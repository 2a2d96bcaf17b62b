-------------------------- MODULE MCDeviceCommands --------------------------
\* Hosts that send every command of DeviceCommands, complete and short.
EXTENDS DeviceCommands

Plain(c)     == [cmd |-> c, short |-> FALSE, codes |-> <<>>, value |-> 0]
Short(c)     == [cmd |-> c, short |-> TRUE, codes |-> <<>>, value |-> 1]
With(c, s, x) == [cmd |-> c, short |-> FALSE, codes |-> s, value |-> x]

Readings == {0, 1, 2, 3, 7, 8, 12, 13, 14, 15, 16, 20, 50, 90, 95, 512, 520}
Totalizers == {2560, 2561, 2562, 2563, 2688, 2689, 2690, 2692, 2693, 2864}

MCRequests ==
  {Plain(c) : c \in Readings \cup {31, 120}}
    \cup {With(c, <<2>>, 1) : c \in Totalizers}
    \cup {Short(c) : c \in {11, 18, 21, 54, 513}}
    \cup {With(9, s, 0) : s \in {<<>>, <<3, 251>>, <<1, 244, 248>>}}
    \cup {With(c, <<>>, x) : c \in {11, 21}, x \in Texts}
    \cup {With(c, <<>>, 1) : c \in {17, 18, 19, 22, 513, 521}}
    \cup {With(44, <<>>, x) : x \in {12, 33}}
    \cup {With(53, <<s>>, x) : s \in {1, 248}, x \in {34, 250}}
    \cup {With(c, <<s>>, 1) : c \in {54, 534, 2561}, s \in {0, 2, 4}}
    \cup {With(79, <<s>>, x) : s \in {2, 4}, x \in {1, 2}}

\* The code after the first that is not used is no part of the message.
MCIndexLists == {<<246, 3, 0, 250, 1>>}

MCUnitSet == [v \in Variables |-> CASE v = 0 -> {11, 12} [] v = 1 -> {21}
                                    [] v = 2 -> {33, 34} [] OTHER -> {40 + v}]
=============================================================================
