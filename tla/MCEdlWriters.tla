----------------------------- MODULE MCEdlWriters -----------------------------
(* Requests of up to three clips: rates that are drop frame, whole, unknown to*)
(* the plugins or of a ratio they do not know; marks in every form, around a  *)
(* dropped number and around midnight; every way a clip is refused.           *)
EXTENDS EdlWriters

MCNumbered(location, n) == location \o ToString(n)

Rate(item, numerator, denominator) ==
    [item |-> item, numerator |-> numerator, denominator |-> denominator]

Pal    == Rate(25, 1, 1)
Ntsc   == Rate(30, 1000, 1001)
Thirty == Rate(30, 1, 1)
Odd    == Rate(60, 1, 2)
High   == Rate(48, 1, 1)

Frames(n) == [kind |-> "editUnitNumber", frames |-> n]
Play(ms)  == [kind |-> "normalPlayTime", ms |-> ms]
Tc(h, m, s, f, semicolon) ==
    [kind |-> "timecode",
     text |-> [matches |-> TRUE, semicolon |-> semicolon,
               label |-> [hour |-> h, min |-> m, sec |-> s, frame |-> f]]]
NoTc == [kind |-> "timecode", text |-> [matches |-> FALSE]]

Clip(rate, markIn, markOut, duration, location, tracks, channels) ==
    [rate |-> rate, markIn |-> markIn, markOut |-> markOut, duration |-> duration,
     location |-> location, nrAudioTracks |-> tracks, nrAudioChannels |-> channels,
     bmContents |-> TRUE, numeric |-> TRUE, fits |-> TRUE]

Stereo == Clip(Pal, Frames(10), Frames(40), Frames(100), "a1", 1, 2)
\* The last of its sounds has number 12 after Stereo: "a12", like the first of Stereo.
AcrossMinute ==
    Clip(Ntsc, Tc(0, 1, 0, 0, TRUE), Tc(0, 2, 0, 2, TRUE), Play(180000), "a", 8, 1)
\* Without a channel, and too large for the integers of the AAF plugin.
AlmostDay == [Clip(Ntsc, NoTc, Frames(2589400), Frames(2589407), "a", 1, 0)
                 EXCEPT !.fits = FALSE]
TenMinutes == Clip(Odd, Play(40), Frames(17000), Play(600000), "b", 0, 2)
Outside   == [Stereo EXCEPT !.markOut = Frames(101)]
TooFast   == [Stereo EXCEPT !.rate = High]
\* Refused for three reasons; without bmContents it would be as with no numbers.
Hopeless  == [TooFast EXCEPT !.numeric = FALSE, !.markIn = Frames(41)]

MCRates == {Pal, Ntsc, Odd, High}
MCClips == {Stereo, AcrossMinute, AlmostDay, TenMinutes,
            Outside, TooFast, Hopeless}

\* The requests that show a time of day and a rate as they are documented.
TimedClips == {[Stereo EXCEPT !.markIn = Play(1000)],
               [TenMinutes EXCEPT !.markIn = Frames(0), !.rate = Thirty]}

=============================================================================
