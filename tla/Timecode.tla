------------------------------ MODULE Timecode ------------------------------
(* The Timecode class: one frame position kept twice, as an offset from       *)
(* midnight and as hh:mm:ss:ff, with drop frame numbering; operators on a     *)
(* record (the members the rate determines are operators of it).              *)
(*                                                                            *)
(* int64_t offsets are taken not to overflow: 24 hours are 5.2 million frames *)
(* at most.  dropCount_ is left unassigned without drop frame, and is only    *)
(* read with it.                                                              *)
EXTENDS Integers

Invalid == [base |-> 0, drop |-> FALSE,
            hour |-> 0, min |-> 0, sec |-> 0, frame |-> 0, offset |-> 0]

RoundedBase(num, den) == (num + (den \div 2)) \div den

\* init(roundedRate, dropFrame)
InitRate(roundedRate, dropFrame) ==
    [Invalid EXCEPT !.base = roundedRate,
                    !.drop = dropFrame /\ roundedRate \in {30, 60}]

\* Mutant of DropCount: two at every rate.
DropCountOfThirty(tc) == IF ~tc.drop THEN 0 ELSE 2

DropCount(tc)      == IF ~tc.drop THEN 0 ELSE IF tc.base = 60 THEN 4 ELSE 2
FramesPerMin(tc)   == tc.base * 60 - DropCount(tc)
FramesPer10Min(tc) == FramesPerMin(tc) * 10 + DropCount(tc)
FramesPerHour(tc)  == FramesPer10Min(tc) * 6
MaxOffset(tc)      == 24 * FramesPerHour(tc)

\* Mutant of TotalFrames: the frames dropped at each minute are forgotten.
TotalFramesWithoutDrop(tc) ==
    tc.hour * FramesPerHour(tc) + tc.min * tc.base * 60 + tc.sec * tc.base + tc.frame

\* getTotalFrames
TotalFrames(tc) ==
    tc.hour * FramesPerHour(tc)
    + (IF tc.drop
       THEN (tc.min \div 10) * FramesPer10Min(tc) + (tc.min % 10) * FramesPerMin(tc)
       ELSE tc.min * FramesPerMin(tc))
    + tc.sec * tc.base + tc.frame

\* Mutant of CleanTimecode: labels that do not exist are kept.
CleanRangeOnly(tc, l) ==
    IF tc.base = 0 THEN Invalid
    ELSE [tc EXCEPT !.hour = l.hour % 24, !.min = l.min % 60, !.sec = l.sec % 60,
                    !.frame = l.frame % tc.base]

\* cleanTimecode: a label into range, and onto a number that is not dropped.
CleanTimecode(tc, l) ==
    LET dropped == /\ tc.drop /\ l.sec % 60 = 0 /\ (l.min % 60) % 10 # 0
                   /\ l.frame % tc.base < DropCount(tc)
    IN  IF tc.base = 0 THEN Invalid
        ELSE [tc EXCEPT !.hour = l.hour % 24, !.min = l.min % 60, !.sec = l.sec % 60,
                        !.frame = IF dropped THEN DropCount(tc) ELSE l.frame % tc.base]

\* init(hour, min, sec, frame), with updateOffset
SetLabel(tc, l) ==
    LET c == CleanTimecode(tc, l) IN [c EXCEPT !.offset = TotalFrames(c)]

\* Mutant of MinuteOf: the first minute of ten loses its frames too.
MinuteOfEqualMinutes(tc, o) ==
    [min |-> o \div FramesPerMin(tc), rest |-> o % FramesPerMin(tc), dropped |-> tc.drop]

\* updateTimecode, inside ten minutes: the first has all its numbers.
MinuteOf(tc, o) ==
    LET later == o - tc.base * 60
    IN  IF later < 0 THEN [min |-> 0, rest |-> o, dropped |-> FALSE]
        ELSE [min     |-> (later \div FramesPerMin(tc)) + 1,
              rest    |-> later % FramesPerMin(tc),
              dropped |-> tc.drop]

\* updateTimecode: adding the dropped numbers carries as far as the hour.
UpdateTimecode(tc) ==
    LET inHour == tc.offset % FramesPerHour(tc)
        m      == MinuteOf(tc, inHour % FramesPer10Min(tc))
        frame  == (m.rest % tc.base) + (IF m.dropped THEN DropCount(tc) ELSE 0)
        sec    == (m.rest \div tc.base) + (frame \div tc.base)
        min    == (inHour \div FramesPer10Min(tc)) * 10 + m.min + (sec \div 60)
        hour   == (tc.offset \div FramesPerHour(tc)) + (min \div 60)
    IN  [tc EXCEPT !.hour = hour % 24, !.min = min % 60, !.sec = sec % 60,
                   !.frame = frame % tc.base]

\* Mutant of SetOffset: a day that is over is not taken off.
SetOffsetUncleaned(tc, o) ==
    IF tc.base = 0 THEN Invalid ELSE UpdateTimecode([tc EXCEPT !.offset = o])

\* init(offset), with cleanOffset: C's remainder and its correction are %.
SetOffset(tc, o) ==
    IF tc.base = 0 THEN Invalid
    ELSE UpdateTimecode([tc EXCEPT !.offset = o % MaxOffset(tc)])

AddOffset(tc, d) == SetOffset(tc, tc.offset + d)

\* convertPosition with ROUND_AUTO: up to a lower rate, down to a higher one;
\* both, with its treatment of negative positions, whatever the sign.
ConvertPosition(p, top, bottom) ==
    IF top < bottom THEN -((-(p * top)) \div bottom) ELSE (p * top) \div bottom

\* fromMilliseconds, on a whole number of them: every division rounds down.
FromMilliseconds(ms, num, den, dropFrame) ==
    SetLabel(InitRate(RoundedBase(num, den), dropFrame),
             [hour  |-> ms \div 3600000,
              min   |-> (ms % 3600000) \div 60000,
              sec   |-> (ms % 60000) \div 1000,
              frame |-> ((ms % 1000) * num) \div (den * 1000)])

\* Mutant of FromTimecodeString: a semicolon is read like a colon.
FromTimecodeStringAnyColon(text, num, den) ==
    IF ~text.matches THEN Invalid
    ELSE SetLabel(InitRate(RoundedBase(num, den), FALSE), text.label)

\* fromTimecodeString: what is no timecode gives an invalid object, of 0 frames.
FromTimecodeString(text, num, den) ==
    IF ~text.matches THEN Invalid
    ELSE SetLabel(InitRate(RoundedBase(num, den), text.semicolon), text.label)

\* What getHour, getMin, getSec and getFrame show.
LabelOf(c) == <<c.hour, c.min, c.sec, c.frame>>

=============================================================================
