------------------------------ MODULE FinalCut ------------------------------
(* The FinalCut plugin: one call of createEdl.  The video section is written  *)
(* clip by clip, then the audio section from what was noted of each clip.  Of *)
(* the XML are kept the elements open, and of each item its place on the      *)
(* track, its rate and its identifiers.                                       *)
EXTENDS EdlHelpers, SequencesExt

CONSTANT
    Numbered(_, _)  \* the text of a location's file name and a number after it

VARIABLE fcp  \* what the call has so far

FcInit ==
    fcp = [next        |-> 0,       \* 0: the head; k: clip k, of video then audio
           section     |-> "video",
           fault       |-> "none",
           isDropFrame |-> FALSE, timeBase |-> 0,
           dropFrame   |-> FALSE,   \* the sequence's ntsc
           open        |-> <<>>,    \* elements begun and not ended, innermost last
           tracks      |-> 0,       \* video tracks begun
           video       |-> <<>>,    \* video clip items
           audio       |-> <<>>,    \* audio clip items
           infos       |-> <<>>,    \* audioInfos
           nItem       |-> 1,
           total       |-> 0,       \* totalTrackFramesDuration
           holder      |-> "none"]  \* the element the sequence's duration is in

\* Mutant of ProcessFrameRate: once drop frame, always drop frame.
ProcessFrameRateSticky(rate, isDropFrame) ==
    [isDropFrame |-> isDropFrame \/ DropOr(rate, isDropFrame), timeBase |-> rate.item]

\* processFrameRate, of a rate that is supported
ProcessFrameRate(rate, isDropFrame) ==
    [isDropFrame |-> DropOr(rate, isDropFrame), timeBase |-> rate.item]

FcRunning(section) == fcp.fault = "none" /\ fcp.section = section

FcFail(fault) == fcp' = [fcp EXCEPT !.fault = fault]

FcHeader ==
    /\ FcRunning("video") /\ fcp.next = 0
    /\ LET r == ProcessFrameRate(edlFrameRate, FALSE)
       IN  IF Supported(edlFrameRate)
           THEN fcp' = [fcp EXCEPT !.next = 1, !.dropFrame = r.isDropFrame,
                                   !.isDropFrame = r.isDropFrame, !.timeBase = r.timeBase,
                                   !.open = <<"xmeml", "sequence", "media", "video">>]
           ELSE FcFail("UNSUPPORTED_FRAME_RATE")
    /\ UNCHANGED request

\* Mutant of FcClipFault: the clip's rate is not checked.
FcClipFaultOfHelpers(c) == ClipFault(c)

\* What a clip throws: what the helpers throw, then processFrameRate.
FcClipFault(c) ==
    IF ClipFault(c) # "none" THEN ClipFault(c)
    ELSE IF Supported(c.rate) THEN "none" ELSE "UNSUPPORTED_FRAME_RATE"

\* writeLinkDescriptions: one audio link for a track of one channel, or none.
LinkIds(c) ==
    [i \in 1..(IF c.nrAudioChannels > 1 THEN Channels(c) ELSE c.nrAudioTracks) |->
        Numbered(c.location, i + 1)]

\* Mutant of OpenTrack: the track before is not ended.
OpenTrackInside(open) == Append(open, "track")

\* A track for the clip.  displayWidth and displayHeight are compared as
\* pointers, which differ between clip elements: every clip is "different".
OpenTrack(open) == Append(IF fcp.next > 1 THEN Front(open) ELSE open, "track")

FcClip ==
    /\ FcRunning("video") /\ fcp.next \in 1..Len(clips)
    /\ LET c == clips[fcp.next]
           f == ClipFrames(c)
           r == ProcessFrameRate(c.rate, fcp.isDropFrame)
           item == [start |-> fcp.total, end |-> fcp.total + f.duration,
                    ntsc |-> r.isDropFrame, timeBase |-> r.timeBase, links |-> LinkIds(c)]
           info == [ntsc |-> r.isDropFrame, timeBase |-> r.timeBase, duration |-> f.duration,
                    path |-> c.location, channels |-> Channels(c)]
       IN  IF FcClipFault(c) # "none" THEN FcFail(FcClipFault(c))
           ELSE fcp' = [fcp EXCEPT !.next        = @ + 1,
                                   !.isDropFrame = r.isDropFrame, !.timeBase = r.timeBase,
                                   !.infos       = Append(@, info),
                                   !.open        = OpenTrack(@), !.tracks = @ + 1,
                                   !.video       = Append(@, item),
                                   !.total       = @ + f.duration]
    /\ UNCHANGED request

\* Mutant of FcAudio: totalTrackFramesDuration is not reset.
FcAudioGoesOn ==
    /\ FcRunning("video") /\ fcp.next = Len(clips) + 1
    /\ fcp' = [fcp EXCEPT !.section = "audio", !.next = 1, !.nItem = 2,
                          !.open = Append(Front(Front(@)), "audio")]
    /\ UNCHANGED request

\* Mutant of FcAudio: the loop over the clips may end early.
FcAudioEarly ==
    /\ FcRunning("video") /\ fcp.next \in 2..(Len(clips) + 1)
    /\ fcp' = [fcp EXCEPT !.section = "audio", !.next = 1, !.total = 0, !.nItem = 2,
                          !.open = Append(Front(Front(@)), "audio")]
    /\ UNCHANGED request

\* </track>, </video>, <audio>
FcAudio ==
    /\ FcRunning("video") /\ fcp.next = Len(clips) + 1
    /\ fcp' = [fcp EXCEPT !.section = "audio", !.next = 1, !.total = 0, !.nItem = 2,
                          !.open = Append(Front(Front(@)), "audio")]
    /\ UNCHANGED request

\* Mutant of NextItem: the channels of a clip take one number together.
NextItemOfClip(nItem, info) == nItem + 1

\* nItem counts every channel, and every clip once more.
NextItem(nItem, info) == nItem + info.channels + 1

\* One track for each channel of the clip, each begun and ended.
FcAudioClip ==
    /\ FcRunning("audio") /\ fcp.next \in 1..Len(fcp.infos)
    /\ LET info == fcp.infos[fcp.next]
           items == [i \in 1..info.channels |->
                        [clip |-> fcp.next, nItem |-> fcp.nItem + i - 1,
                         id |-> Numbered(info.path, fcp.nItem + i - 1),
                         start |-> fcp.total, end |-> fcp.total + info.duration,
                         ntsc |-> info.ntsc, timeBase |-> info.timeBase]]
       IN  fcp' = [fcp EXCEPT !.next  = @ + 1,
                              !.audio = @ \o items,
                              !.nItem = NextItem(@, info),
                              !.total = @ + info.duration]
    /\ UNCHANGED request

\* </audio>, </media>, the duration, and the end of the document
FcEnd ==
    /\ FcRunning("audio") /\ fcp.next = Len(fcp.infos) + 1
    /\ LET left == Front(Front(fcp.open))
       IN  fcp' = [fcp EXCEPT !.section = "done", !.holder = Last(left), !.open = <<>>]
    /\ UNCHANGED request

FcNext == FcHeader \/ FcClip \/ FcAudio \/ FcAudioClip \/ FcEnd

FcEnded == fcp.fault # "none" \/ fcp.section = "done"

FcSpec == RequestInit /\ FcInit /\ [][FcNext]_<<request, fcp>>

-----------------------------------------------------------------------------
Frame(c, frames) == frames

FcPlaylist == INSTANCE Playlist WITH
    Length  <- ClipDuration,
    Shown   <- Frame,
    placed  <- [k \in 1..Len(fcp.video) |->
                  [from |-> fcp.video[k].start, to |-> fcp.video[k].end]],
    end     <- IF fcp.video = <<>> THEN 0 ELSE Last(fcp.video).end,
    verdict <- IF fcp.fault # "none" THEN "refused"
               ELSE IF fcp.section = "done" THEN "done" ELSE "open"

\* The picture of the sequence is a playlist, and a document is only returned
\* with an item for every clip.
FcPlays == FcPlaylist!Spec

\* The two loops agree: a clip's sound plays where its picture does, at the
\* same rate.
FcInSync ==
    \A k \in 1..Len(fcp.audio) :
        LET a == fcp.audio[k]
            v == fcp.video[a.clip]
        IN  <<a.start, a.end, a.ntsc, a.timeBase>> = <<v.start, v.end, v.ntsc, v.timeBase>>

\* Elements are ended where they were begun: with a clip at all, the audio
\* section is inside the media element and the duration inside the sequence.
FcNested ==
    Len(clips) > 0 =>
        /\ FcRunning("video") /\ fcp.next > 1
             => fcp.open = <<"xmeml", "sequence", "media", "video", "track">>
        /\ FcRunning("audio") => fcp.open = <<"xmeml", "sequence", "media", "audio">>
        /\ fcp.section = "done" => fcp.holder = "sequence"

\* Two audio clip items have one identifier only when the file names of their
\* clips, different numbers after each, are one text; and the links of the first
\* clip, when its tracks have channels, name its own items.
FcIdentified ==
    LET OneText(c, d) == \E m, n \in 2..fcp.nItem :
                            m # n /\ Numbered(c.location, m) = Numbered(d.location, n)
    IN  /\ \A j, k \in 1..Len(fcp.audio) :
            j # k /\ fcp.audio[j].id = fcp.audio[k].id
              => OneText(clips[fcp.audio[j].clip], clips[fcp.audio[k].clip])
        /\ fcp.section = "done" /\ Len(clips) > 0 /\ clips[1].nrAudioChannels > 0
             => {fcp.audio[k].id : k \in {j \in 1..Len(fcp.audio) : fcp.audio[j].clip = 1}}
                = {fcp.video[1].links[i] : i \in 1..Len(fcp.video[1].links)}

=============================================================================
