------------------------------ MODULE Cmx3600 ------------------------------
(* The CMX3600 plugin: one call of createEdl, clip by clip.                   *)
EXTENDS EdlHelpers

VARIABLE cmx  \* what the call has so far

CmxInit ==
    cmx = [next            |-> 0,       \* 0: the header; k: clip k
           returned        |-> FALSE,
           fault           |-> "none",  \* what the call threw
           dropFrame       |-> FALSE,   \* the FCM line
           totalFrameCount |-> 0,
           events          |-> <<>>]    \* the form statements

\* isDropFrame, of a rate that is supported; FALSE for a ratio it does not know
IsDropFrame(rate) ==
    /\ rate.item \in {24, 30, 60}
    /\ rate.numerator = 1000 /\ rate.denominator = 1001

CmxTimecode(rate, offset) ==
    SetOffset(InitRate(RoundedBase(FrameRateNum(rate), rate.denominator), IsDropFrame(rate)),
              offset)

RecordTimecode(c, frames) == CmxTimecode(c.rate, frames)

\* Mutant of Statement: the record time is that of the end of the clip.
StatementFromEnd(c, total) ==
    LET f == ClipFrames(c)
    IN  [markIn    |-> CmxTimecode(c.rate, f.markIn),
         markOut   |-> CmxTimecode(c.rate, f.markOut),
         recordIn  |-> CmxTimecode(c.rate, total + f.duration),
         recordOut |-> CmxTimecode(c.rate, total + f.duration),
         channels  |-> Channels(c) % 256]

\* The form statement of a clip; audioTotalChannels, a uint8_t, stands for the
\* track names and the AUD line it selects.
Statement(c, total) ==
    LET f == ClipFrames(c)
    IN  [markIn    |-> CmxTimecode(c.rate, f.markIn),
         markOut   |-> CmxTimecode(c.rate, f.markOut),
         recordIn  |-> RecordTimecode(c, total),
         recordOut |-> RecordTimecode(c, total + f.duration),
         channels  |-> Channels(c) % 256]

CmxRunning == cmx.fault = "none" /\ ~cmx.returned

CmxHeader ==
    /\ CmxRunning /\ cmx.next = 0
    /\ cmx' = IF Supported(edlFrameRate)
              THEN [cmx EXCEPT !.next = 1, !.dropFrame = IsDropFrame(edlFrameRate)]
              ELSE [cmx EXCEPT !.fault = "UNSUPPORTED_FRAME_RATE"]
    /\ UNCHANGED request

\* What a clip throws: what the helpers throw, then isDropFrame of its rate.
CmxClipFault(c) ==
    IF ClipFault(c) # "none" THEN ClipFault(c)
    ELSE IF Supported(c.rate) THEN "none" ELSE "UNSUPPORTED_FRAME_RATE"

\* Mutant of CmxAdd: what is added up is the file's length.
CmxAddFile(c) ==
    [cmx EXCEPT !.next            = @ + 1,
                !.totalFrameCount = @ + ClipFrames(c).file,
                !.events          = Append(@, Statement(c, cmx.totalFrameCount))]

CmxAdd(c) ==
    [cmx EXCEPT !.next            = @ + 1,
                !.totalFrameCount = @ + ClipFrames(c).duration,
                !.events          = Append(@, Statement(c, cmx.totalFrameCount))]

CmxClip ==
    /\ CmxRunning /\ cmx.next \in 1..Len(clips)
    /\ LET c == clips[cmx.next]
       IN  cmx' = IF CmxClipFault(c) = "none" THEN CmxAdd(c)
                  ELSE [cmx EXCEPT !.fault = CmxClipFault(c)]
    /\ UNCHANGED request

\* Mutant of CmxReturn: the clips left, if any, are not written.
CmxReturnEarly ==
    /\ CmxRunning /\ cmx.next > 0
    /\ cmx' = [cmx EXCEPT !.returned = TRUE]
    /\ UNCHANGED request

CmxReturn ==
    /\ CmxRunning /\ cmx.next = Len(clips) + 1
    /\ cmx' = [cmx EXCEPT !.returned = TRUE]
    /\ UNCHANGED request

CmxNext == CmxHeader \/ CmxClip \/ CmxReturn

CmxEnded == ~CmxRunning

CmxSpec == RequestInit /\ CmxInit /\ [][CmxNext]_<<request, cmx>>

-----------------------------------------------------------------------------
CmxPlaylist == INSTANCE Playlist WITH
    Length  <- ClipDuration,
    Shown   <- RecordTimecode,
    placed  <- [k \in 1..Len(cmx.events) |->
                  [from |-> cmx.events[k].recordIn, to |-> cmx.events[k].recordOut]],
    end     <- cmx.totalFrameCount,
    verdict <- IF cmx.fault # "none" THEN "refused" ELSE IF cmx.returned THEN "done" ELSE "open"

\* The record side of a CMX3600 EDL is a playlist: each event starts where the
\* one before it ended, in timecodes of its own clip's rate, and an EDL that is
\* returned has an event for every clip.
CmxPlays == CmxPlaylist!Spec

\* An event is as long on the record side as on the source side, whatever
\* minutes and midnights either crosses: frames counted from the labels.
CmxKeepsLength ==
    \A k \in 1..Len(cmx.events) :
        LET e == cmx.events[k]
        IN  (TotalFrames(e.recordOut) - TotalFrames(e.recordIn)) % MaxOffset(e.recordIn)
            = (TotalFrames(e.markOut) - TotalFrames(e.markIn)) % MaxOffset(e.markIn)

=============================================================================
