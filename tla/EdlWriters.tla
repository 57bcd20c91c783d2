------------------------------ MODULE EdlWriters ------------------------------
(* One request given to the three plugins, each writing its EDL of it; pool   *)
(* threads run them, so their steps interleave.                               *)
EXTENDS Cmx3600, FinalCut, AafPlugin

wVars == <<edlFrameRate, clips, cmx, fcp, aaf>>

WInit == RequestInit /\ CmxInit /\ FcInit /\ AafInit

WNext == \/ CmxNext /\ UNCHANGED <<fcp, aaf>>
         \/ FcNext /\ UNCHANGED <<cmx, aaf>>
         \/ AafNext /\ UNCHANGED <<cmx, fcp>>

WSpec == WInit /\ [][WNext]_wVars

-----------------------------------------------------------------------------
Faults == {"none", "invalid_argument", "MARKIN_BIGGER_THAN_MARKOUT",
           "MARK_INOUT_OUTSIDE_DURATION", "UNSUPPORTED_FRAME_RATE", "out_of_range", "GENERIC"}

\* A timecode a plugin may print: of a day, in range; or the invalid one, at a
\* rate that rounds to no frame a second.
Printable(t) ==
    \/ t = Invalid
    \/ /\ t.offset \in 0..(MaxOffset(t) - 1)
       /\ t.hour \in 0..23 /\ t.min \in 0..59 /\ t.sec \in 0..59 /\ t.frame \in 0..(t.base - 1)

\* Counters stay within the request, and every timecode printed is one.
WTypeOK ==
    /\ {cmx.fault, fcp.fault, aaf.fault} \subseteq Faults
    /\ cmx.next \in 0..(Len(clips) + 1) /\ fcp.next \in 0..(Len(clips) + 1)
    /\ aaf.next \in 1..(Len(clips) + 1)
    /\ fcp.section \in {"video", "audio", "done"} /\ aaf.phase \in {"read", "write", "done"}
    /\ aaf.saved \in BOOLEAN /\ (aaf.saved => aaf.fault = "none" /\ aaf.phase = "done")
    /\ \A k \in 1..Len(cmx.events) :
        LET e == cmx.events[k]
        IN  \A t \in {e.markIn, e.markOut, e.recordIn, e.recordOut} : Printable(t)

\* A request one of the first two refuses the other refuses for the same
\* reason, and what they accept the AAF plugin accepts too, when the numbers
\* only it reads fit and its library does not fail.
SameVerdict ==
    CmxEnded /\ FcEnded /\ AafEnded =>
        /\ cmx.fault = fcp.fault
        /\ cmx.fault = "none" /\ (\A k \in 1..Len(clips) : clips[k].fits)
             => aaf.fault \in {"none", "GENERIC"}

\* The plugins number frames alike, drop frame or not: of the sequence, and of
\* each clip whatever came before it, when the ratio of the rate is known.
SameNumbering ==
    /\ KnownRatio(edlFrameRate) /\ cmx.next > 0 /\ fcp.next > 0 /\ aaf.phase # "read"
         => cmx.dropFrame = fcp.dropFrame /\ fcp.dropFrame = aaf.isDrop
    /\ \A k \in 1..Len(fcp.video) :
        KnownRatio(clips[k].rate) => fcp.video[k].ntsc = IsDropFrame(clips[k].rate)

\* The three describe one edit: a clip is at the same frames of the sequence in
\* each, counted three times over, and the CMX event shows these frames.
SameEdit ==
    LET Both(s, t) == (1..Len(s)) \cap (1..Len(t))
    IN  /\ \A k \in Both(fcp.video, aaf.video) :
            <<fcp.video[k].start, fcp.video[k].end>> = <<aaf.video[k].from, aaf.video[k].to>>
        /\ \A k \in Both(cmx.events, fcp.video) :
            /\ cmx.events[k].recordIn = RecordTimecode(clips[k], fcp.video[k].start)
            /\ cmx.events[k].recordOut = RecordTimecode(clips[k], fcp.video[k].end)
        /\ \A k \in Both(cmx.events, aaf.video) :
            /\ cmx.events[k].recordIn = RecordTimecode(clips[k], aaf.video[k].from)
            /\ cmx.events[k].recordOut = RecordTimecode(clips[k], aaf.video[k].to)

\* A mark given as a timecode is printed as it was given, when its label exists
\* at the clip's rate and its semicolon means what the plugin means by it.
CmxShowsMarks ==
    LET Exists(l, t) == /\ l.hour < 24 /\ l.min < 60 /\ l.sec < 60 /\ l.frame < t.base
                        /\ ~(t.drop /\ l.sec = 0 /\ l.min % 10 # 0 /\ l.frame < DropCount(t))
        Shows(t, mark) ==
            /\ mark.kind = "timecode" /\ mark.text.matches
            /\ t.drop = (mark.text.semicolon /\ t.base \in {30, 60})
            /\ Exists(mark.text.label, t)
            => LabelOf(t) = LabelOf(mark.text.label)
    IN  \A k \in 1..Len(cmx.events) :
            /\ Shows(cmx.events[k].markIn, clips[k].markIn)
            /\ Shows(cmx.events[k].markOut, clips[k].markOut)


=============================================================================
