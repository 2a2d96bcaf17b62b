-------------------------- MODULE MCRunningAverage --------------------------
\* A converter of three bits and a total no wider: a window of two takes any
\* two positive readings, a window of three does not, and a negative reading
\* rolls the total over.
EXTENDS RunningAverage

MCReadings == {-4, -1, 0, 3}
=============================================================================
