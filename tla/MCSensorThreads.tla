--------------------------- MODULE MCSensorThreads ---------------------------
\* A converter with one input more than the program uses.
EXTENDS SensorThreads
=============================================================================
