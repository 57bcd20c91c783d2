------------------------------ MODULE AafPlugin ------------------------------
(* The AAF plugin: one call of createEdl, which reads every clip before it    *)
(* builds anything.  Of the AAF file are kept the mobs with their slots, the  *)
(* source references between them and the components of the sequences.  Any   *)
(* call of the AAF library may fail.                                          *)
EXTENDS EdlHelpers, FiniteSets, FiniteSetsExt

CONSTANTS
    CallsFail,  \* whether calls of the AAF library may fail
    IntMax      \* the largest int

ASSUME CallsFailAssumption == CallsFail \in BOOLEAN
ASSUME IntMaxAssumption == IntMax \in Nat

VARIABLE aaf  \* what the call has so far

AafInit ==
    aaf = [next        |-> 1,       \* the clip to read, then to write
           phase       |-> "read",
           fault       |-> "none",
           maxSlots    |-> 0,       \* audio sequences
           isDrop      |-> FALSE,
           editRate    |-> <<0, 1>>,
           totalLength |-> 0,       \* of the timecode of the composition
           video       |-> <<>>,    \* the components of videoSequence
           videoLength |-> 0,       \* their length
           audioLength |-> <<>>,    \* of the components of each audioSequences
           slots       |-> {},      \* [mob, slot, kind]
           refs        |-> {},      \* source references, to such a slot
           saved       |-> FALSE]   \* whether Save and Close wrote the file

\* processFrameRate, of a rate that is supported; isDrop is what the caller has.
EditRate(rate) ==
    IF rate.item \in {25, 50} THEN <<rate.item, 1>>
    ELSE <<rate.item * 1000, rate.item * 1001>>

AafRunning(phase) == aaf.fault = "none" /\ aaf.phase = phase

AafFail(fault) == aaf' = [aaf EXCEPT !.fault = fault]

SlotsFor(c) == Max({aaf.maxSlots, Channels(c)})

\* What an int holds of n.
ToInt(n) == ((n + IntMax + 1) % (2 * (IntMax + 1))) - (IntMax + 1)

\* Mutant of AddLength: the length of the composition counts whole files.
AddFileLength(total, c) == ToInt(total + ClipFrames(c).file)

\* accumulate adds up in an int.
AddLength(total, c) == ToInt(total + ClipDuration(c))

\* The clips are read; maxSlots and totalLength, computed later from what was
\* read, are kept up as it goes.
AafRead ==
    /\ AafRunning("read") /\ aaf.next <= Len(clips)
    /\ LET c == clips[aaf.next]
       IN  IF ClipFault(c) # "none" THEN AafFail(ClipFault(c))
           ELSE aaf' = [aaf EXCEPT !.next        = @ + 1,
                                   !.maxSlots    = SlotsFor(c),
                                   !.totalLength = AddLength(@, c)]
    /\ UNCHANGED request

Slot(mob, slot, kind) == [mob |-> mob, slot |-> slot, kind |-> kind]

\* The composition mob and its slots.  isDrop is read uninitialised when the
\* ratio is not known.
AafCompose ==
    /\ AafRunning("read") /\ aaf.next = Len(clips) + 1
    /\ \E garbage \in IF KnownRatio(edlFrameRate) THEN {FALSE} ELSE BOOLEAN :
       IF ~Supported(edlFrameRate) THEN AafFail("UNSUPPORTED_FRAME_RATE")
       ELSE aaf' = [aaf EXCEPT
                !.phase       = "write", !.next = 1,
                !.isDrop      = DropOr(edlFrameRate, garbage),
                !.editRate    = EditRate(edlFrameRate),
                !.audioLength = [s \in 1..aaf.maxSlots |-> 0],
                !.slots       = {Slot(<<"composition", 0>>, 1, "picture")}
                    \cup {Slot(<<"composition", 0>>, s + 1, "sound") : s \in 1..aaf.maxSlots}
                    \cup {Slot(<<"composition", 0>>, aaf.maxSlots + 2, "timecode")}]
    /\ UNCHANGED request

\* Mutant of ClipSlots: the master mob has no slots for sound.
ClipSlotsOfPicture(k, c) ==
    {Slot(<<m, k>>, 1, "picture") : m \in {"tape", "video file", "master"}}

\* Slots of the mobs of clip k: the tape has one for each track, the master one
\* for each channel, and each channel a file of its own.
ClipSlots(k, c) ==
    {Slot(<<m, k>>, 1, "picture") : m \in {"tape", "video file", "master"}}
    \cup {Slot(<<"tape", k>>, s + 1, "sound") : s \in 1..c.nrAudioTracks}
    \cup {Slot(<<"tape", k>>, c.nrAudioTracks + 2, "timecode")}
    \cup {Slot(<<"master", k>>, z + 1, "sound") : z \in 1..Channels(c)}
    \cup {Slot(<<"audio file", k, z>>, 1, "sound") : z \in 1..Channels(c)}

\* The references of clip k: composition to master to files to tape.
ClipRefs(k, c) ==
    {Slot(<<m, k>>, 1, "picture") : m \in {"tape", "video file", "master"}}
    \cup UNION {{Slot(<<"tape", k>>, z + 1, "sound"),
                 Slot(<<"audio file", k, z>>, 1, "sound"),
                 Slot(<<"master", k>>, z + 1, "sound")} : z \in 1..Channels(c)}

\* Mutant of Lengthened: no filler where the clip has no channel.
LengthenedWithoutFiller(lengths, c, segLen) ==
    [s \in DOMAIN lengths |-> lengths[s] + IF s <= Channels(c) THEN segLen ELSE 0]

\* A source clip for each channel, a filler for every other audio sequence.
Lengthened(lengths, c, segLen) == [s \in DOMAIN lengths |-> lengths[s] + segLen]

\* Mutant of Component: it is put at the start.
ComponentPrepended(segLen) == [from |-> 0, to |-> segLen]

\* A component is put at the end of videoSequence.
Component(segLen) == [from |-> aaf.videoLength, to |-> aaf.videoLength + segLen]

\* stoi and stoul throw at a size or sampling rate that is too large for them.
AafWrite ==
    /\ AafRunning("write") /\ aaf.next <= Len(clips)
    /\ LET c == clips[aaf.next]
           segLen == ClipDuration(c)
       IN  IF ~c.fits THEN AafFail("out_of_range")
           ELSE aaf' = [aaf EXCEPT !.next        = @ + 1,
                                   !.slots       = @ \cup ClipSlots(aaf.next, c),
                                   !.refs        = @ \cup ClipRefs(aaf.next, c),
                                   !.video       = Append(@, Component(segLen)),
                                   !.videoLength = @ + segLen,
                                   !.audioLength = Lengthened(@, c, segLen)]
    /\ UNCHANGED request

\* check throws when a call fails while the file is built.
AafCallFails ==
    /\ CallsFail
    /\ \/ AafRunning("read") /\ aaf.next = Len(clips) + 1
       \/ AafRunning("write") /\ aaf.next <= Len(clips)
    /\ AafFail("GENERIC")
    /\ UNCHANGED request

\* Save and Close are not checked: whatever is in the temporary file is returned.
AafSave ==
    /\ AafRunning("write") /\ aaf.next = Len(clips) + 1
    /\ \E worked \in {TRUE} \cup {~CallsFail} :
          aaf' = [aaf EXCEPT !.phase = "done", !.saved = worked]
    /\ UNCHANGED request

AafNext == AafRead \/ AafCompose \/ AafWrite \/ AafCallFails \/ AafSave

AafEnded == aaf.fault # "none" \/ aaf.phase = "done"

AafSpec == RequestInit /\ AafInit /\ [][AafNext]_<<request, aaf>>

-----------------------------------------------------------------------------
Position(c, frames) == frames

AafPlaylist == INSTANCE Playlist WITH
    Length  <- ClipDuration,
    Shown   <- Position,
    placed  <- aaf.video,
    end     <- aaf.videoLength,
    verdict <- IF aaf.fault # "none" THEN "refused"
               ELSE IF aaf.saved THEN "done" ELSE "open"

\* The picture of the composition is a playlist, and a file that Save and Close
\* wrote has a component for every clip.  Of a file they failed to write, which is
\* returned all the same, nothing is said.
AafPlays == AafPlaylist!Spec

\* After every clip the sequences are of one length, and there is one for each
\* of its channels.
AafAligned ==
    /\ \A s \in DOMAIN aaf.audioLength : aaf.audioLength[s] = aaf.videoLength
    /\ aaf.phase = "write" => \A k \in 1..Len(clips) : Channels(clips[k]) <= Len(aaf.audioLength)

\* The composition's timecode is as long as its picture, when an int can hold
\* the length.
AafTimecodeLength ==
    aaf.phase = "done" /\ aaf.videoLength <= IntMax => aaf.totalLength = aaf.videoLength

\* Every source reference finds a slot of its kind, of the clips with no more
\* than one channel to a track.
AafResolved ==
    \A r \in aaf.refs :
        clips[r.mob[2]].nrAudioChannels <= 1 => r \in aaf.slots

\* AafPlugin.h: editRate is "The edit rate extracted from the frameRate input".
EditRateIsRate ==
    aaf.phase \in {"write", "done"} =>
        aaf.editRate[1] * edlFrameRate.denominator
        = aaf.editRate[2] * FrameRateNum(edlFrameRate)

=============================================================================
