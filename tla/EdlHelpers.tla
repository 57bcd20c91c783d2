----------------------------- MODULE EdlHelpers -----------------------------
(* A getEdl request as the plugins see it, and the helpers they share to read *)
(* a clip.                                                                    *)
(*                                                                            *)
(* A rate is [item, numerator, denominator].  A time is [kind, frames],       *)
(* [kind, text] or [kind, ms].  A clip carries the elements README.md lists   *)
(* as required; of them only bmContents is checked for by the code.  "numeric"*)
(* says whether its channels and the parts of its rate are numbers; "fits",   *)
(* whether its sizes and sampling rate fit the integers they are read into.   *)
(* A denominator of zero, which divides the process by zero, is left out.     *)
EXTENDS Timecode, Sequences

CONSTANTS
    Rates,    \* sequence rates
    Clips,    \* clip elements
    MaxClips  \* bound: clips in a request

Rational == [item : Nat, numerator : Nat, denominator : Nat \ {0}]

ASSUME RatesAssumption == Rates \subseteq Rational
ASSUME ClipsAssumption ==
    \A c \in Clips : c.rate \in Rational /\ c.nrAudioTracks \in Nat /\ c.nrAudioChannels \in Nat

\* A time in one of its three forms; a text that is no timecode has no label.
IsTime(t) ==
    \/ t.kind = "editUnitNumber" /\ t.frames \in Nat
    \/ /\ t.kind = "timecode" /\ t.text.matches \in BOOLEAN
       /\ t.text.matches => /\ t.text.semicolon \in BOOLEAN
                            /\ t.text.label \in [hour : Nat, min : Nat, sec : Nat, frame : Nat]
    \/ t.kind = "normalPlayTime" /\ t.ms \in Nat

ASSUME TimesAssumption ==
    \A c \in Clips : IsTime(c.markIn) /\ IsTime(c.markOut) /\ IsTime(c.duration)
ASSUME MaxClipsAssumption == MaxClips \in Nat

VARIABLES
    edlFrameRate,
    clips

request == <<edlFrameRate, clips>>

RequestInit ==
    /\ edlFrameRate \in Rates
    /\ clips \in UNION {[1..n -> Clips] : n \in 0..MaxClips}

-----------------------------------------------------------------------------
FrameRateNum(rate) == rate.numerator * rate.item

\* getNrFrames of a TimeType; of a time of day QTime::msec() is the part below
\* a second.
NrFramesOfTime(time, rate) ==
    CASE time.kind = "editUnitNumber" -> time.frames
      [] time.kind = "timecode" ->
            TotalFrames(FromTimecodeString(time.text, FrameRateNum(rate), rate.denominator))
      [] time.kind = "normalPlayTime" ->
            TotalFrames(FromMilliseconds(time.ms % 1000, FrameRateNum(rate), rate.denominator, TRUE))

\* getNrFrames of a DurationType
NrFramesOfDuration(duration, rate) ==
    IF duration.kind = "normalPlayTime"
    THEN TotalFrames(FromMilliseconds(duration.ms, FrameRateNum(rate), rate.denominator, TRUE))
    ELSE NrFramesOfTime(duration, rate)

\* What processClipInfo and then getClipDurationInFrames throw; stoi throws at
\* what is no number.
ClipFault(c) ==
    LET file    == NrFramesOfDuration(c.duration, c.rate)
        markIn  == NrFramesOfTime(c.markIn, c.rate)
        markOut == NrFramesOfTime(c.markOut, c.rate)
    IN  IF ~c.bmContents \/ ~c.numeric THEN "invalid_argument"
        ELSE IF markIn > markOut THEN "MARKIN_BIGGER_THAN_MARKOUT"
        ELSE IF markIn > file \/ markOut > file THEN "MARK_INOUT_OUTSIDE_DURATION"
        ELSE "none"

\* The lengths getClipDurationInFrames returns.
ClipFrames(c) ==
    LET markIn  == NrFramesOfTime(c.markIn, c.rate)
        markOut == NrFramesOfTime(c.markOut, c.rate)
    IN  [file     |-> NrFramesOfDuration(c.duration, c.rate),
         markIn   |-> markIn,
         markOut  |-> markOut,
         duration |-> markOut - markIn]

ClipDuration(c) == ClipFrames(c).duration

Channels(c) == c.nrAudioTracks * c.nrAudioChannels

\* The rates isDropFrame and the two processFrameRate take, and whether one is
\* drop frame, which the latter leave as it was for a ratio they do not know.
Supported(rate) == rate.item \in {24, 25, 30, 50, 60}

KnownRatio(rate) ==
    <<rate.numerator, rate.denominator>> \in {<<1, 1>>, <<1000, 1001>>}

DropOr(rate, before) ==
    IF rate.item \in {25, 50} THEN FALSE
    ELSE IF KnownRatio(rate) THEN rate.denominator = 1001
    ELSE before

=============================================================================
