----------------------------- MODULE MCDataItems -----------------------------
\* DataItems with bytes of two values, so that 64 bits are 256 values, and
\* numbers on both sides of every width.
EXTENDS DataItems

MCGiven == {-2, -1, 0, 1, 2, 3, 4, 9, 15, 16, 33, 70, 255}
=============================================================================
