---------------------------- MODULE MCTimeQueries ----------------------------
\* Instances of TimeQueries for TLC.
EXTENDS TimeQueries

CONSTANT alice

\* Readings in 1/100 s: a whole second, a tenth and a hundredth after it, the
\* same in the next second, and one that is further away than any two zones.
MCReadings == {0, 10, 11, 101, 110, 300}

\* UTC, and zones on both sides of it (an offset of seconds stands for one of
\* hours).
MCZones == {0, 1, -1}

=============================================================================
