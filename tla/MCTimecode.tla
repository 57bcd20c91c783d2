----------------------------- MODULE MCTimecode -----------------------------
(* One Timecode object at the rates the plugins know, moved by a frame, by    *)
(* the numbers dropped, by a minute, ten, an hour and a day, both ways.       *)
EXTENDS TimecodeCalls

MCBases == {25, 30, 60}

\* One frame, the two a minute drops, and the lengths of a minute, ten minutes,
\* an hour and a day in drop frame 30; in the other rates the same offsets fall
\* in the middle of those units.
Units    == {1, 2, 1800, 17982, 107892, 2589408}
MCDeltas == Units \cup {-u : u \in Units}

MCLabels == [hour : {0, 23}, min : {0, 1, 59}, sec : {0, 59}, frame : {0, 1, 29, 59}]

=============================================================================
