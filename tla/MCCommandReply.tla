--------------------------- MODULE MCCommandReply ---------------------------
\* CommandReply with every kind of request from both masters.
EXTENDS CommandReply

MCHostKinds == Kinds
=============================================================================
