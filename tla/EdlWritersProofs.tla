-------------------------- MODULE EdlWritersProofs --------------------------
(* Theorems about the three plugins, for every request: each implements       *)
(* Playlist, and the invariants of each.                                      *)
EXTENDS EdlWriters, TimecodeLemmas, SequenceTheorems

-----------------------------------------------------------------------------
(* Sequences                                                                  *)

\* A sequence of anything is extended by anything.
LEMMA AppendAny ==
    ASSUME NEW S, NEW s \in Seq(S), NEW e
    PROVE  /\ Append(s, e) \in Seq(S \cup {e})
           /\ Len(Append(s, e)) = Len(s) + 1
           /\ \A k \in 1..Len(s) : Append(s, e)[k] = s[k]
           /\ Append(s, e)[Len(s) + 1] = e
  <1>1. s \in Seq(S \cup {e}) /\ e \in S \cup {e}
    OBVIOUS
  <1> QED
    BY <1>1

\* Two sequences of anything, one after the other.
LEMMA ConcatAny ==
    ASSUME NEW S, NEW s \in Seq(S), NEW T, NEW t \in Seq(T)
    PROVE  /\ s \o t \in Seq(S \cup T)
           /\ Len(s \o t) = Len(s) + Len(t)
           /\ \A k \in 1..Len(s) : (s \o t)[k] = s[k]
           /\ \A k \in (Len(s) + 1)..(Len(s) + Len(t)) : (s \o t)[k] = t[k - Len(s)]
  <1>1. s \in Seq(S \cup T) /\ t \in Seq(S \cup T)
    OBVIOUS
  <1>2. s \o t \in Seq(S \cup T)
    BY <1>1
  <1> QED
    BY <1>2

\* A function on 1..n, with one value more, is that sequence appended to.
LEMMA OneMore ==
    ASSUME NEW n \in Nat, NEW p, NEW q, NEW x, NEW S,
           p \in [1..n -> S], q = [k \in 1..(n + 1) |-> q[k]],
           \A k \in 1..n : q[k] = p[k], q[n + 1] = x
    PROVE  q = Append(p, x) /\ Len(p) = n
  <1>1. p \in Seq(S) /\ Len(p) = n
    OBVIOUS
  <1>2. /\ Append(p, x) \in Seq(S \cup {x}) /\ Len(Append(p, x)) = n + 1
        /\ \A k \in 1..n : Append(p, x)[k] = p[k]
        /\ Append(p, x)[n + 1] = x
    BY <1>1, AppendAny
  <1>3. \A k \in 1..(n + 1) : Append(p, x)[k] = q[k]
    <2> SUFFICES ASSUME NEW k \in 1..(n + 1)
                 PROVE  Append(p, x)[k] = q[k]
      OBVIOUS
    <2>1. k = n + 1 \/ k \in 1..n
      OBVIOUS
    <2> QED
      BY <2>1, <1>2
  <1>4. Append(p, x) \in [1..(n + 1) -> S \cup {x}]
    BY <1>2, LenProperties
  <1> QED
    BY <1>1, <1>3, <1>4

-----------------------------------------------------------------------------
(* The request                                                                *)

LEMMA RequestTyped ==
    ASSUME RequestInit
    PROVE  clips \in Seq(Clips)
  BY MaxClipsAssumption DEF RequestInit

-----------------------------------------------------------------------------
(* CMX3600: an event for each clip that is done, whatever the events are      *)

\* The place in the playlist an event shows.
EventPlace(e) == [from |-> e.recordIn, to |-> e.recordOut]

CmxPlaced == [k \in 1..Len(cmx.events) |-> [from |-> cmx.events[k].recordIn,
                                         to |-> cmx.events[k].recordOut]]

CmxVerdict == IF cmx.fault # "none" THEN "refused" ELSE IF cmx.returned THEN "done" ELSE "open"

\* r has the fields of cmx and no other.
CmxFields(r) ==
    r = [next |-> r.next, returned |-> r.returned, fault |-> r.fault,
         dropFrame |-> r.dropFrame, totalFrameCount |-> r.totalFrameCount,
         events |-> r.events]

\* An event for each clip that is done, whatever the events are.
CmxCounts ==
    /\ cmx.next \in 0..(Len(clips) + 1)
    /\ \E S : cmx.events \in Seq(S)
    /\ cmx.next = 0 => Len(cmx.events) = 0
    /\ cmx.next # 0 => Len(cmx.events) = cmx.next - 1
    /\ cmx.returned => cmx.next = Len(clips) + 1

CmxInv == clips \in Seq(Clips) /\ CmxFields(cmx) /\ CmxCounts

\* The places of a longer list of events.
LEMMA CmxPlacedGrows ==
    ASSUME NEW S, cmx.events \in Seq(S), NEW e, cmx'.events = Append(cmx.events, e)
    PROVE  /\ Len(CmxPlaced) = Len(cmx.events)
           /\ CmxPlaced' = Append(CmxPlaced, EventPlace(e))
  <1> DEFINE n == Len(cmx.events)
             P == {EventPlace(cmx.events[k]) : k \in 1..n}
  <1>1. n \in Nat /\ Len(cmx'.events) = n + 1 /\ cmx'.events[n + 1] = e
        /\ \A k \in 1..n : cmx'.events[k] = cmx.events[k]
    BY AppendAny
  <1>2. CmxPlaced \in [1..n -> P]
    BY DEF CmxPlaced, EventPlace
  <1>3. CmxPlaced' = [k \in 1..(n + 1) |-> CmxPlaced'[k]]
    BY <1>1 DEF CmxPlaced
  <1>4. \A k \in 1..n : CmxPlaced'[k] = CmxPlaced[k]
    BY <1>1 DEF CmxPlaced
  <1>5. CmxPlaced'[n + 1] = EventPlace(e)
    BY <1>1 DEF CmxPlaced, EventPlace
  <1> HIDE DEF n, P
  <1> QED
    BY <1>1, <1>2, <1>3, <1>4, <1>5, OneMore DEF n

LEMMA CmxInvInit == RequestInit /\ CmxInit => CmxInv
  <1> SUFFICES ASSUME RequestInit, CmxInit
               PROVE  CmxInv
    OBVIOUS
  <1>1. clips \in Seq(Clips) /\ Len(clips) \in Nat
    BY RequestTyped
  <1>2. CmxFields(cmx)
    BY DEF CmxInit, CmxFields
  <1>3. cmx.events = <<>> /\ cmx.next = 0 /\ cmx.returned = FALSE
    BY DEF CmxInit
  <1>4. cmx.events \in Seq({}) /\ Len(cmx.events) = 0
    BY <1>3
  <1>5. \E S : cmx.events \in Seq(S)
    BY <1>4
  <1>6. cmx.next \in 0..(Len(clips) + 1)
    BY <1>1, <1>3
  <1>7. CmxCounts
    BY <1>3, <1>4, <1>5, <1>6, Zenon DEF CmxCounts
  <1> QED
    BY <1>1, <1>2, <1>7 DEF CmxInv

\* What each step leaves of the fields.
LEMMA CmxHeaderFields ==
    ASSUME CmxFields(cmx), CmxHeader
    PROVE  /\ CmxFields(cmx') /\ cmx.next = 0 /\ ~cmx.returned /\ cmx.fault = "none"
           /\ cmx'.events = cmx.events /\ cmx'.totalFrameCount = cmx.totalFrameCount
           /\ ~cmx'.returned
           /\ \/ cmx'.next = 1 /\ cmx'.fault = "none"
              \/ cmx'.next = 0 /\ cmx'.fault # "none"
  <1>1. cmx.next = 0 /\ ~cmx.returned /\ cmx.fault = "none"
    BY DEF CmxHeader, CmxRunning
  <1>2. CASE Supported(edlFrameRate)
    <2>1. cmx' = [next |-> 1, returned |-> cmx.returned, fault |-> cmx.fault,
                  dropFrame |-> IsDropFrame(edlFrameRate),
                  totalFrameCount |-> cmx.totalFrameCount, events |-> cmx.events]
      BY <1>2 DEF CmxHeader, CmxFields
    <2> QED
      BY <2>1, <1>1 DEF CmxFields
  <1>3. CASE ~Supported(edlFrameRate)
    <2>1. cmx' = [next |-> cmx.next, returned |-> cmx.returned,
                  fault |-> "UNSUPPORTED_FRAME_RATE", dropFrame |-> cmx.dropFrame,
                  totalFrameCount |-> cmx.totalFrameCount, events |-> cmx.events]
      BY <1>3 DEF CmxHeader, CmxFields
    <2> QED
      BY <2>1, <1>1 DEF CmxFields
  <1> QED
    BY <1>2, <1>3

LEMMA CmxClipFields ==
    ASSUME CmxFields(cmx), CmxClip, NEW c, c = clips[cmx.next]
    PROVE  /\ CmxFields(cmx') /\ cmx.next \in 1..Len(clips) /\ ~cmx.returned
           /\ cmx.fault = "none" /\ ~cmx'.returned
           /\ \/ /\ cmx'.next = cmx.next + 1 /\ cmx'.fault = "none"
                 /\ cmx'.events = Append(cmx.events, Statement(c, cmx.totalFrameCount))
                 /\ cmx'.totalFrameCount = cmx.totalFrameCount + ClipDuration(c)
              \/ /\ cmx'.next = cmx.next /\ cmx'.fault # "none"
                 /\ cmx'.events = cmx.events
                 /\ cmx'.totalFrameCount = cmx.totalFrameCount
  <1>1. cmx.next \in 1..Len(clips) /\ ~cmx.returned /\ cmx.fault = "none"
    BY DEF CmxClip, CmxRunning
  <1>2. CASE CmxClipFault(c) = "none"
    <2>1. cmx' = CmxAdd(c)
      BY <1>2 DEF CmxClip
    <2>2. cmx' = [next |-> cmx.next + 1, returned |-> cmx.returned, fault |-> cmx.fault,
                  dropFrame |-> cmx.dropFrame,
                  totalFrameCount |-> cmx.totalFrameCount + ClipDuration(c),
                  events |-> Append(cmx.events, Statement(c, cmx.totalFrameCount))]
      BY <2>1 DEF CmxAdd, CmxFields, ClipDuration
    <2> QED
      BY <2>2, <1>1 DEF CmxFields
  <1>3. CASE CmxClipFault(c) # "none"
    <2>1. cmx' = [cmx EXCEPT !.fault = CmxClipFault(c)]
      BY <1>3 DEF CmxClip
    <2>2. cmx' = [next |-> cmx.next, returned |-> cmx.returned, fault |-> CmxClipFault(c),
                  dropFrame |-> cmx.dropFrame,
                  totalFrameCount |-> cmx.totalFrameCount, events |-> cmx.events]
      BY <2>1 DEF CmxFields
    <2> QED
      BY <2>2, <1>1, <1>3 DEF CmxFields
  <1> QED
    BY <1>2, <1>3

LEMMA CmxReturnFields ==
    ASSUME CmxFields(cmx), CmxReturn
    PROVE  /\ CmxFields(cmx') /\ cmx.next = Len(clips) + 1 /\ ~cmx.returned
           /\ cmx.fault = "none" /\ cmx'.returned = TRUE
           /\ cmx'.next = cmx.next /\ cmx'.fault = cmx.fault
           /\ cmx'.events = cmx.events /\ cmx'.totalFrameCount = cmx.totalFrameCount
  <1>1. cmx.next = Len(clips) + 1 /\ ~cmx.returned /\ cmx.fault = "none"
    BY DEF CmxReturn, CmxRunning
  <1>2. cmx' = [next |-> cmx.next, returned |-> TRUE, fault |-> cmx.fault,
                dropFrame |-> cmx.dropFrame,
                totalFrameCount |-> cmx.totalFrameCount, events |-> cmx.events]
    BY DEF CmxReturn, CmxFields
  <1> QED
    BY <1>1, <1>2 DEF CmxFields

LEMMA CmxInvStep == CmxInv /\ [CmxNext]_<<request, cmx>> => CmxInv'
  <1> SUFFICES ASSUME CmxInv, [CmxNext]_<<request, cmx>>
               PROVE  CmxInv'
    OBVIOUS
  <1>1. CmxFields(cmx) /\ clips' = clips /\ clips \in Seq(Clips) /\ Len(clips) \in Nat
    BY DEF CmxInv, CmxNext, CmxHeader, CmxClip, CmxReturn, request
  <1>2. CmxCounts
    BY DEF CmxInv
  <1>3. CASE CmxHeader
    <2>1. CmxFields(cmx') /\ cmx'.events = cmx.events /\ cmx'.next \in {0, 1} /\ ~cmx'.returned
          /\ cmx.next = 0
      BY <1>1, <1>3, CmxHeaderFields
    <2>2. /\ cmx'.next \in 0..(Len(clips') + 1) /\ Len(cmx'.events) = 0
          /\ \E S : cmx'.events \in Seq(S)
      BY <1>1, <1>2, <2>1 DEF CmxCounts
    <2>3. CmxCounts'
      BY <2>1, <2>2 DEF CmxCounts
    <2> QED
      BY <1>1, <2>1, <2>3 DEF CmxInv
  <1>4. CASE CmxClip
    <2> DEFINE e == Statement(clips[cmx.next], cmx.totalFrameCount)
    <2>1. /\ CmxFields(cmx') /\ cmx.next \in 1..Len(clips) /\ ~cmx'.returned
          /\ \/ cmx'.next = cmx.next + 1 /\ cmx'.events = Append(cmx.events, e)
             \/ cmx'.next = cmx.next /\ cmx'.events = cmx.events
      BY <1>1, <1>4, CmxClipFields
    <2> HIDE DEF e
    <2>2. CASE cmx'.next = cmx.next /\ cmx'.events = cmx.events
      <3>1. ~cmx'.returned /\ clips' = clips /\ CmxFields(cmx')
        BY <1>1, <2>1
      <3>2. CmxCounts'
        BY <1>2, <2>2, <3>1, Zenon DEF CmxCounts
      <3> QED
        BY <1>1, <3>1, <3>2 DEF CmxInv
    <2>3. CASE cmx'.next = cmx.next + 1 /\ cmx'.events = Append(cmx.events, e)
      <3>1. PICK S : cmx.events \in Seq(S)
        BY <1>2 DEF CmxCounts
      <3>2. cmx'.events \in Seq(S \cup {e}) /\ Len(cmx'.events) = Len(cmx.events) + 1
        BY <2>3, <3>1, AppendAny
      <3>3. \E T : cmx'.events \in Seq(T)
        BY <3>2
      <3>4. Len(cmx.events) = cmx.next - 1
        BY <1>2, <2>1 DEF CmxCounts
      <3>5. cmx'.next \in 0..(Len(clips') + 1) /\ cmx'.next # 0
            /\ Len(cmx'.events) = cmx'.next - 1
        BY <1>1, <2>1, <2>3, <3>2, <3>4
      <3>6. CmxCounts'
        BY <2>1, <3>3, <3>5, Zenon DEF CmxCounts
      <3> QED
        BY <1>1, <2>1, <3>6 DEF CmxInv
    <2> QED
      BY <2>1, <2>2, <2>3
  <1>5. CASE CmxReturn
    <2>1. CmxFields(cmx') /\ cmx'.events = cmx.events /\ cmx'.next = cmx.next
          /\ cmx.next = Len(clips) + 1 /\ cmx'.returned = TRUE
      BY <1>1, <1>5, CmxReturnFields
    <2>2. CmxCounts'
      BY <1>1, <1>2, <2>1 DEF CmxCounts
    <2> QED
      BY <1>1, <2>1, <2>2 DEF CmxInv
  <1>6. CASE UNCHANGED <<request, cmx>>
    BY <1>6 DEF CmxInv, CmxCounts, request
  <1> QED
    BY <1>3, <1>4, <1>5, <1>6 DEF CmxNext

LEMMA CmxPlaces == CmxInv /\ [CmxNext]_<<request, cmx>>
                    => [CmxPlaylist!Next]_(CmxPlaylist!playlistVars)
  <1> SUFFICES ASSUME CmxInv, [CmxNext]_<<request, cmx>>
               PROVE  [CmxPlaylist!Next]_(CmxPlaylist!playlistVars)
    OBVIOUS
  <1>1. CmxFields(cmx) /\ clips' = clips /\ Len(clips) \in Nat
    BY DEF CmxInv, CmxNext, CmxHeader, CmxClip, CmxReturn, request
  <1>2. PICK S : cmx.events \in Seq(S)
    BY DEF CmxInv, CmxCounts
  <1>3. Len(cmx.events) \in Nat /\ Len(CmxPlaced) = Len(cmx.events)
    BY <1>2 DEF CmxPlaced
  <1>4. CASE UNCHANGED <<request, cmx>>
    BY <1>4 DEF request, CmxPlaylist!playlistVars
  <1>5. CASE CmxHeader
    <2>1. /\ cmx.fault = "none" /\ ~cmx.returned /\ ~cmx'.returned
          /\ cmx'.events = cmx.events /\ cmx'.totalFrameCount = cmx.totalFrameCount
      BY <1>1, <1>5, CmxHeaderFields
    <2>2. CmxPlaced' = CmxPlaced
      BY <2>1 DEF CmxPlaced
    <2>3. CmxVerdict = "open" /\ CmxVerdict' \in {"open", "refused"}
      BY <2>1 DEF CmxVerdict
    <2> QED
      BY <1>1, <2>1, <2>2, <2>3
      DEF CmxPlaylist!Next, CmxPlaylist!Refuse, CmxPlaylist!playlistVars, CmxPlaced, CmxVerdict
  <1>6. CASE CmxClip
    <2> DEFINE c == clips[cmx.next]
               e == Statement(c, cmx.totalFrameCount)
    <2>1. /\ cmx.fault = "none" /\ ~cmx.returned /\ ~cmx'.returned
          /\ cmx.next \in 1..Len(clips)
          /\ \/ /\ cmx'.fault = "none" /\ cmx'.events = Append(cmx.events, e)
                /\ cmx'.totalFrameCount = cmx.totalFrameCount + ClipDuration(c)
             \/ /\ cmx'.fault # "none" /\ cmx'.events = cmx.events
                /\ cmx'.totalFrameCount = cmx.totalFrameCount
      BY <1>1, <1>6, CmxClipFields
    <2>2. CASE cmx'.fault # "none"
      <3>1. CmxPlaced' = CmxPlaced
        BY <2>1, <2>2 DEF CmxPlaced
      <3>2. CmxVerdict = "open" /\ CmxVerdict' = "refused"
        BY <2>1, <2>2 DEF CmxVerdict
      <3> QED
        BY <1>1, <2>1, <2>2, <3>1, <3>2
        DEF CmxPlaylist!Next, CmxPlaylist!Refuse, CmxPlaced, CmxVerdict
    <2>3. CASE cmx'.fault = "none"
      <3>1. CmxPlaced' = Append(CmxPlaced, EventPlace(e))
        BY <1>2, <2>1, <2>3, CmxPlacedGrows
      <3>2. EventPlace(e) = [from |-> RecordTimecode(c, cmx.totalFrameCount),
                             to |-> RecordTimecode(c, cmx'.totalFrameCount)]
        BY <2>1, <2>3 DEF EventPlace, Statement, ClipDuration
      <3>3. CmxVerdict = "open" /\ CmxVerdict' = "open"
        BY <2>1, <2>3 DEF CmxVerdict
      <3>4. Len(CmxPlaced) = cmx.next - 1 /\ Len(CmxPlaced) < Len(clips)
            /\ c = clips[Len(CmxPlaced) + 1]
        BY <1>1, <1>3, <2>1 DEF CmxInv, CmxCounts
      <3> HIDE DEF c, e
      <3> QED
        BY <1>1, <2>1, <2>3, <3>1, <3>2, <3>3, <3>4
        DEF CmxPlaylist!Next, CmxPlaylist!Place, CmxPlaced, CmxVerdict
    <2> QED
      BY <2>2, <2>3
  <1>7. CASE CmxReturn
    <2>1. /\ cmx.fault = "none" /\ ~cmx.returned /\ cmx'.fault = "none" /\ cmx'.returned
          /\ cmx.next = Len(clips) + 1
          /\ cmx'.events = cmx.events /\ cmx'.totalFrameCount = cmx.totalFrameCount
      BY <1>1, <1>7, CmxReturnFields
    <2>2. CmxPlaced' = CmxPlaced
      BY <2>1 DEF CmxPlaced
    <2>3. CmxVerdict = "open" /\ CmxVerdict' = "done"
      BY <2>1 DEF CmxVerdict
    <2>4. Len(CmxPlaced) = Len(clips)
      BY <1>1, <1>3, <2>1 DEF CmxInv, CmxCounts
    <2> QED
      BY <1>1, <2>1, <2>2, <2>3, <2>4
      DEF CmxPlaylist!Next, CmxPlaylist!Finish, CmxPlaced, CmxVerdict
  <1> QED
    BY <1>4, <1>5, <1>6, <1>7 DEF CmxNext

\* Every clip's event starts where the one before ended, in timecodes of its own
\* rate, and an EDL that is returned has an event for every clip.
THEOREM CmxImplementsPlaylist == CmxSpec => CmxPlays
  <1>1. RequestInit /\ CmxInit => CmxPlaylist!Init
    <2> SUFFICES ASSUME CmxInit
                 PROVE  CmxPlaylist!Init
      OBVIOUS
    <2>1. cmx.events = <<>> /\ cmx.totalFrameCount = 0 /\ cmx.fault = "none" /\ ~cmx.returned
      BY DEF CmxInit
    <2>2. CmxPlaced = <<>>
      BY <2>1 DEF CmxPlaced
    <2>3. CmxVerdict = "open"
      BY <2>1 DEF CmxVerdict
    <2> QED
      BY <2>1, <2>2, <2>3 DEF CmxPlaylist!Init, CmxPlaced, CmxVerdict
  <1> QED
    BY <1>1, CmxInvInit, CmxInvStep, CmxPlaces, PTL DEF CmxSpec, CmxPlays, CmxPlaylist!Spec

\* In the composition each plugin takes steps of its own and leaves the request.
LEMMA WritersSeparate ==
    [WNext]_wVars => /\ [CmxNext]_<<request, cmx>>
                     /\ [FcNext]_<<request, fcp>>
                     /\ [AafNext]_<<request, aaf>>
  BY DEF WNext, wVars, request,
         CmxNext, CmxHeader, CmxClip, CmxReturn,
         FcNext, FcHeader, FcClip, FcAudio, FcAudioClip, FcEnd,
         AafNext, AafRead, AafCompose, AafWrite, AafCallFails, AafSave

LEMMA WritersRunEach == WSpec => CmxSpec /\ FcSpec /\ AafSpec
  BY WritersSeparate, PTL DEF WSpec, WInit, CmxSpec, FcSpec, AafSpec

-----------------------------------------------------------------------------
(* FinalCut: what each step leaves of the fields                              *)

\* r has the fields of fcp and no other.
FcFields(r) ==
    r = [next |-> r.next, section |-> r.section, fault |-> r.fault,
         isDropFrame |-> r.isDropFrame, timeBase |-> r.timeBase, dropFrame |-> r.dropFrame,
         open |-> r.open, tracks |-> r.tracks, video |-> r.video, audio |-> r.audio,
         infos |-> r.infos, nItem |-> r.nItem, total |-> r.total, holder |-> r.holder]

\* The picture, sound and notes of a step that writes none.
FcKeeps == fcp'.video = fcp.video /\ fcp'.audio = fcp.audio /\ fcp'.infos = fcp.infos

\* A step that throws changes nothing else.
LEMMA FcFailFields ==
    ASSUME FcFields(fcp), NEW f, FcFail(f)
    PROVE  /\ FcFields(fcp') /\ FcKeeps /\ fcp'.fault = f
           /\ fcp'.section = fcp.section /\ fcp'.next = fcp.next /\ fcp'.total = fcp.total
           /\ fcp'.open = fcp.open /\ fcp'.nItem = fcp.nItem /\ fcp'.holder = fcp.holder
  BY DEF FcFields, FcFail, FcKeeps

LEMMA FcHeaderFields ==
    ASSUME FcFields(fcp), FcHeader, Supported(edlFrameRate)
    PROVE  /\ FcFields(fcp') /\ FcKeeps /\ fcp'.fault = fcp.fault
           /\ fcp'.section = fcp.section /\ fcp'.next = 1 /\ fcp'.total = fcp.total
           /\ fcp'.open = <<"xmeml", "sequence", "media", "video">>
           /\ fcp'.nItem = fcp.nItem /\ fcp'.holder = fcp.holder
  BY DEF FcFields, FcHeader, FcKeeps

\* The item and the note a clip adds.
FcItem(c) ==
    LET r == ProcessFrameRate(c.rate, fcp.isDropFrame)
    IN  [start |-> fcp.total, end |-> fcp.total + ClipDuration(c),
         ntsc |-> r.isDropFrame, timeBase |-> r.timeBase, links |-> LinkIds(c)]

FcInfo(c) ==
    LET r == ProcessFrameRate(c.rate, fcp.isDropFrame)
    IN  [ntsc |-> r.isDropFrame, timeBase |-> r.timeBase, duration |-> ClipDuration(c),
         path |-> c.location, channels |-> Channels(c)]

LEMMA FcClipFields ==
    ASSUME FcFields(fcp), FcClip, NEW c, c = clips[fcp.next], FcClipFault(c) = "none"
    PROVE  /\ FcFields(fcp') /\ fcp'.fault = fcp.fault
           /\ fcp'.section = fcp.section /\ fcp'.next = fcp.next + 1
           /\ fcp'.total = fcp.total + ClipDuration(c)
           /\ fcp'.open = OpenTrack(fcp.open)
           /\ fcp'.video = Append(fcp.video, FcItem(c))
           /\ fcp'.infos = Append(fcp.infos, FcInfo(c))
           /\ fcp'.audio = fcp.audio
           /\ fcp'.nItem = fcp.nItem /\ fcp'.holder = fcp.holder
  BY DEF FcFields, FcClip, FcItem, FcInfo, ClipDuration

LEMMA FcAudioFields ==
    ASSUME FcFields(fcp), FcAudio
    PROVE  /\ FcFields(fcp') /\ FcKeeps /\ fcp'.fault = fcp.fault
           /\ fcp'.section = "audio" /\ fcp'.next = 1 /\ fcp'.total = 0
           /\ fcp'.open = Append(Front(Front(fcp.open)), "audio")
           /\ fcp'.nItem = 2 /\ fcp'.holder = fcp.holder
  BY DEF FcFields, FcAudio, FcKeeps

\* The items of one clip, one for each of its channels.
FcSound(info) ==
    [i \in 1..info.channels |->
        [clip |-> fcp.next, nItem |-> fcp.nItem + i - 1,
         id |-> Numbered(info.path, fcp.nItem + i - 1),
         start |-> fcp.total, end |-> fcp.total + info.duration,
         ntsc |-> info.ntsc, timeBase |-> info.timeBase]]

LEMMA FcAudioClipFields ==
    ASSUME FcFields(fcp), FcAudioClip, NEW info, info = fcp.infos[fcp.next]
    PROVE  /\ FcFields(fcp') /\ fcp'.fault = fcp.fault
           /\ fcp'.section = fcp.section /\ fcp'.next = fcp.next + 1
           /\ fcp'.total = fcp.total + info.duration
           /\ fcp'.video = fcp.video /\ fcp'.infos = fcp.infos
           /\ fcp'.audio = fcp.audio \o FcSound(info)
           /\ fcp'.open = fcp.open
           /\ fcp'.nItem = fcp.nItem + info.channels + 1 /\ fcp'.holder = fcp.holder
  BY DEF FcFields, FcAudioClip, FcSound, NextItem

LEMMA FcEndFields ==
    ASSUME FcFields(fcp), FcEnd
    PROVE  /\ FcFields(fcp') /\ FcKeeps /\ fcp'.fault = fcp.fault
           /\ fcp'.section = "done" /\ fcp'.next = fcp.next /\ fcp'.total = fcp.total
           /\ fcp'.holder = Last(Front(Front(fcp.open)))
           /\ fcp'.nItem = fcp.nItem
  BY DEF FcFields, FcEnd, FcKeeps

-----------------------------------------------------------------------------
(* FinalCut: the inductive invariant                                          *)

\* Lists are as long as the part of the request that is done.
FcCounts ==
    /\ fcp.section \in {"video", "audio", "done"}
    /\ \E S : fcp.video \in Seq(S)
    /\ \E S : fcp.infos \in Seq(S)
    /\ \E S : fcp.audio \in Seq(S)
    /\ Len(fcp.infos) = Len(fcp.video)
    /\ fcp.section = "video" =>
         /\ fcp.next \in 0..(Len(clips) + 1)
         /\ fcp.next = 0 => Len(fcp.video) = 0
         /\ fcp.next # 0 => Len(fcp.video) = fcp.next - 1
         /\ Len(fcp.audio) = 0
    /\ fcp.section # "video" => Len(fcp.video) = Len(clips)
    /\ fcp.section = "audio" => fcp.next \in 1..(Len(clips) + 1)

\* Where the picture of clip k starts.
EndBefore(video, k) == IF k = 1 THEN 0 ELSE video[k - 1].end

\* The notes say of each clip what its picture shows, and the picture of a clip
\* starts where the one before ends.
FcNoted ==
    \A k \in 1..Len(fcp.video) :
        /\ fcp.video[k].start = EndBefore(fcp.video, k)
        /\ fcp.video[k].end = fcp.video[k].start + fcp.infos[k].duration
        /\ fcp.video[k].ntsc = fcp.infos[k].ntsc
        /\ fcp.video[k].timeBase = fcp.infos[k].timeBase
        /\ fcp.video[k].links = LinkIds(clips[k])
        /\ fcp.infos[k].path = clips[k].location
        /\ fcp.infos[k].channels = Channels(clips[k])
        /\ fcp.infos[k].channels \in Nat

\* Each loop's total is the start of the clip it is at.
FcTotals ==
    /\ fcp.section = "video" => fcp.total = EndBefore(fcp.video, Len(fcp.video) + 1)
    /\ fcp.section = "audio" => fcp.total = EndBefore(fcp.video, fcp.next)

\* The sound written so far is where its picture is.
FcSounds ==
    \A k \in 1..Len(fcp.audio) :
        LET a == fcp.audio[k]
            v == fcp.video[a.clip]
        IN  /\ a.clip \in 1..Len(fcp.video)
            /\ a.start = v.start /\ a.end = v.end /\ a.ntsc = v.ntsc
            /\ a.timeBase = v.timeBase
            /\ a.id = Numbered(clips[a.clip].location, a.nItem)

\* nItem is past every number given so far, numbers only go up, and the sound of
\* the first clip comes first, from number 2.
FcNumbers ==
    /\ fcp.nItem \in Nat /\ (fcp.section # "video" => fcp.nItem >= 2)
    /\ fcp.section = "audio" /\ fcp.next = 1 => Len(fcp.audio) = 0 /\ fcp.nItem = 2
    /\ \A k \in 1..Len(fcp.audio) : fcp.audio[k].nItem \in 2..(fcp.nItem - 1)
    /\ \A j, k \in 1..Len(fcp.audio) : j < k => fcp.audio[j].nItem < fcp.audio[k].nItem
    /\ Len(clips) > 0 /\ ((fcp.section = "audio" /\ fcp.next > 1) \/ fcp.section = "done") =>
         /\ fcp.infos[1].channels <= Len(fcp.audio)
         /\ \A k \in 1..Len(fcp.audio) :
              /\ k <= fcp.infos[1].channels =>
                   /\ fcp.audio[k].clip = 1
                   /\ fcp.audio[k].id = Numbered(fcp.infos[1].path, k + 1)
              /\ k > fcp.infos[1].channels => fcp.audio[k].clip # 1

\* The elements open.
FcOpened ==
    /\ fcp.section = "video" /\ fcp.next = 1
         => fcp.open = <<"xmeml", "sequence", "media", "video">>
    /\ fcp.section = "video" /\ fcp.next > 1
         => fcp.open = <<"xmeml", "sequence", "media", "video", "track">>
    /\ Len(clips) > 0 /\ fcp.section = "audio"
         => fcp.open = <<"xmeml", "sequence", "media", "audio">>
    /\ Len(clips) > 0 /\ fcp.section = "done" => fcp.holder = "sequence"

FcInv == /\ clips \in Seq(Clips) /\ FcFields(fcp)
         /\ FcCounts /\ FcNoted /\ FcTotals /\ FcSounds /\ FcNumbers /\ FcOpened

LEMMA FrontOfAppend ==
    ASSUME NEW S, NEW s \in Seq(S), NEW e \in S
    PROVE  Front(Append(s, e)) = s
  <1>1. /\ Append(s, e) \in Seq(S) /\ Len(Append(s, e)) = Len(s) + 1
        /\ \A k \in 1..Len(s) : Append(s, e)[k] = s[k]
    BY AppendProperties
  <1> QED
    BY <1>1 DEF Front

LEMMA ThreeElements ==
    ASSUME NEW a, NEW b, NEW c
    PROVE  Append(<<a, b>>, c) = <<a, b, c>> /\ Front(<<a, b, c>>) = <<a, b>>
  <1> DEFINE S == {a, b, c}
  <1>1. <<a, b>> \in Seq(S) /\ c \in S
    OBVIOUS
  <1>2. Append(<<a, b>>, c) = [i \in 1..3 |-> IF i = 3 THEN c ELSE <<a, b>>[i]]
    OBVIOUS
  <1>3. <<a, b, c>> = [i \in 1..3 |-> IF i = 3 THEN c ELSE <<a, b>>[i]]
    OBVIOUS
  <1> QED
    BY <1>1, <1>2, <1>3, FrontOfAppend

LEMMA FourElements ==
    ASSUME NEW a, NEW b, NEW c, NEW d
    PROVE  /\ Append(<<a, b, c>>, d) = <<a, b, c, d>>
           /\ Front(<<a, b, c, d>>) = <<a, b, c>>
  <1> DEFINE S == {a, b, c, d}
  <1>1. <<a, b, c>> \in Seq(S) /\ d \in S
    OBVIOUS
  <1>2. Append(<<a, b, c>>, d) = [i \in 1..4 |-> IF i = 4 THEN d ELSE <<a, b, c>>[i]]
    OBVIOUS
  <1>3. <<a, b, c, d>> = [i \in 1..4 |-> IF i = 4 THEN d ELSE <<a, b, c>>[i]]
    OBVIOUS
  <1> QED
    BY <1>1, <1>2, <1>3, FrontOfAppend

LEMMA FiveElements ==
    ASSUME NEW a, NEW b, NEW c, NEW d, NEW e
    PROVE  /\ Append(<<a, b, c, d>>, e) = <<a, b, c, d, e>>
           /\ Front(<<a, b, c, d, e>>) = <<a, b, c, d>>
  <1> DEFINE S == {a, b, c, d, e}
  <1>1. <<a, b, c, d>> \in Seq(S) /\ e \in S
    OBVIOUS
  <1>2. Append(<<a, b, c, d>>, e) = [i \in 1..5 |-> IF i = 5 THEN e ELSE <<a, b, c, d>>[i]]
    OBVIOUS
  <1>3. <<a, b, c, d, e>> = [i \in 1..5 |-> IF i = 5 THEN e ELSE <<a, b, c, d>>[i]]
    OBVIOUS
  <1> QED
    BY <1>1, <1>2, <1>3, FrontOfAppend

LEMMA FcInvInit == RequestInit /\ FcInit => FcInv
  <1> SUFFICES ASSUME RequestInit, FcInit
               PROVE  FcInv
    OBVIOUS
  <1>1. clips \in Seq(Clips) /\ Len(clips) \in Nat
    BY RequestTyped
  <1>2. /\ FcFields(fcp) /\ fcp.section = "video" /\ fcp.next = 0 /\ fcp.total = 0
        /\ fcp.video = <<>> /\ fcp.infos = <<>> /\ fcp.audio = <<>>
    BY DEF FcInit, FcFields
  <1>11. fcp.nItem = 1
    BY DEF FcInit
  <1>3. /\ fcp.video \in Seq({}) /\ fcp.infos \in Seq({}) /\ fcp.audio \in Seq({})
        /\ Len(fcp.video) = 0 /\ Len(fcp.infos) = 0 /\ Len(fcp.audio) = 0
    BY <1>2
  <1>4. \E S : fcp.video \in Seq(S)
    BY <1>3
  <1>5. \E S : fcp.infos \in Seq(S)
    BY <1>3
  <1>6. \E S : fcp.audio \in Seq(S)
    BY <1>3
  <1>7. fcp.next \in 0..(Len(clips) + 1)
    BY <1>1, <1>2
  <1>8. FcCounts
    BY <1>2, <1>3, <1>4, <1>5, <1>6, <1>7 DEF FcCounts
  <1>9. FcNoted /\ FcSounds
    BY <1>3 DEF FcNoted, FcSounds
  <1>10. FcTotals /\ FcOpened
    BY <1>2, <1>3 DEF FcTotals, FcOpened, EndBefore
  <1>12. FcNumbers
    BY <1>2, <1>3, <1>11 DEF FcNumbers
  <1> QED
    BY <1>1, <1>2, <1>8, <1>9, <1>10, <1>12 DEF FcInv

\* A step that writes nothing and stays where it is.
LEMMA FcInvKept ==
    ASSUME FcInv, clips' = clips, FcFields(fcp'), FcKeeps,
           fcp'.section = fcp.section, fcp'.next = fcp.next, fcp'.total = fcp.total,
           fcp'.open = fcp.open, fcp'.holder = fcp.holder, fcp'.nItem = fcp.nItem
    PROVE  FcInv'
  <1>1. FcCounts'
    BY Zenon DEF FcInv, FcCounts, FcKeeps
  <1>2. FcNoted'
    BY Zenon DEF FcInv, FcNoted, FcKeeps
  <1>3. FcSounds'
    BY Zenon DEF FcInv, FcSounds, FcKeeps
  <1>4. FcTotals' /\ FcOpened'
    BY Zenon DEF FcInv, FcTotals, FcOpened, FcKeeps
  <1>5. FcNumbers'
    BY SMT DEF FcInv, FcNumbers, FcKeeps
  <1> QED
    BY <1>1, <1>2, <1>3, <1>4, <1>5 DEF FcInv

LEMMA FcInvHeader ==
    ASSUME FcInv, FcHeader
    PROVE  FcInv'
  <1>1. clips' = clips /\ FcFields(fcp) /\ fcp.section = "video" /\ fcp.next = 0
    BY DEF FcInv, FcHeader, FcRunning, request
  <1>2. CASE ~Supported(edlFrameRate)
    <2>1. FcFail("UNSUPPORTED_FRAME_RATE")
      BY <1>2 DEF FcHeader
    <2> QED
      BY <1>1, <2>1, FcFailFields, FcInvKept
  <1>3. CASE Supported(edlFrameRate)
    <2>1. /\ FcFields(fcp') /\ FcKeeps /\ fcp'.section = "video" /\ fcp'.next = 1
          /\ fcp'.total = fcp.total /\ fcp'.nItem = fcp.nItem
          /\ fcp'.open = <<"xmeml", "sequence", "media", "video">>
      BY <1>1, <1>3, FcHeaderFields
    <2>2. /\ \E S : fcp'.video \in Seq(S)
          /\ \E S : fcp'.infos \in Seq(S)
          /\ \E S : fcp'.audio \in Seq(S)
          /\ Len(fcp'.infos) = Len(fcp'.video) /\ Len(fcp'.video) = 0 /\ Len(fcp'.audio) = 0
      BY <1>1, <2>1, Zenon DEF FcInv, FcCounts, FcKeeps
    <2>3. fcp'.next \in 0..(Len(clips') + 1) /\ fcp'.next - 1 = 0
      BY <1>1, <2>1 DEF FcInv
    <2>4. FcCounts'
      BY <2>1, <2>2, <2>3 DEF FcCounts
    <2>5. FcNoted' /\ FcSounds'
      BY <2>2 DEF FcNoted, FcSounds
    <2>6. FcTotals' /\ FcOpened'
      BY <1>1, <2>1, <2>2 DEF FcInv, FcTotals, FcOpened, EndBefore, FcKeeps
    <2>7. FcNumbers'
      BY <2>1, <2>2 DEF FcInv, FcNumbers
    <2> QED
      BY <1>1, <2>1, <2>4, <2>5, <2>6, <2>7 DEF FcInv
  <1> QED
    BY <1>2, <1>3

LEMMA ChannelsNat ==
    ASSUME NEW c \in Clips
    PROVE  Channels(c) \in Nat
  <1>1. c.nrAudioTracks \in Nat /\ c.nrAudioChannels \in Nat
    BY ClipsAssumption
  <1>2. \A m, n \in Nat : m * n \in Nat
    OBVIOUS
  <1> QED
    BY <1>1, <1>2 DEF Channels

LEMMA FcInvClip ==
    ASSUME FcInv, FcClip
    PROVE  FcInv'
  <1> DEFINE c == clips[fcp.next]
             n == Len(fcp.video)
  <1>1. /\ clips' = clips /\ FcFields(fcp) /\ fcp.section = "video"
        /\ fcp.next \in 1..Len(clips) /\ Len(clips) \in Nat /\ c \in Clips
    BY DEF FcInv, FcClip, FcRunning, request
  <1>2. CASE FcClipFault(c) # "none"
    <2>1. FcFail(FcClipFault(c))
      BY <1>2 DEF FcClip
    <2> QED
      BY <1>1, <2>1, FcFailFields, FcInvKept
  <1>3. CASE FcClipFault(c) = "none"
    <2>1. /\ FcFields(fcp') /\ fcp'.section = "video" /\ fcp'.next = fcp.next + 1
          /\ fcp'.total = fcp.total + ClipDuration(c) /\ fcp'.open = OpenTrack(fcp.open)
          /\ fcp'.video = Append(fcp.video, FcItem(c))
          /\ fcp'.infos = Append(fcp.infos, FcInfo(c)) /\ fcp'.audio = fcp.audio
          /\ fcp'.nItem = fcp.nItem
      BY <1>1, <1>3, FcClipFields
    <2>2. n = fcp.next - 1 /\ Len(fcp.infos) = n /\ n \in Nat /\ Len(fcp.audio) = 0
      BY <1>1 DEF FcInv, FcCounts
    <2>3. PICK S : fcp.video \in Seq(S)
      BY DEF FcInv, FcCounts
    <2>4. PICK T : fcp.infos \in Seq(T)
      BY DEF FcInv, FcCounts
    <2>5. /\ fcp'.video \in Seq(S \cup {FcItem(c)}) /\ Len(fcp'.video) = n + 1
          /\ \A k \in 1..n : fcp'.video[k] = fcp.video[k]
          /\ fcp'.video[n + 1] = FcItem(c)
      BY <2>1, <2>3, AppendAny
    <2>6. /\ fcp'.infos \in Seq(T \cup {FcInfo(c)}) /\ Len(fcp'.infos) = n + 1
          /\ \A k \in 1..n : fcp'.infos[k] = fcp.infos[k]
          /\ fcp'.infos[n + 1] = FcInfo(c)
      BY <2>1, <2>2, <2>4, AppendAny
    <2>7. FcItem(c).start = fcp.total /\ FcItem(c).end = fcp.total + FcInfo(c).duration
          /\ FcItem(c).ntsc = FcInfo(c).ntsc /\ FcItem(c).timeBase = FcInfo(c).timeBase
          /\ FcItem(c).end = fcp'.total /\ FcInfo(c).channels \in Nat
      BY <1>1, <2>1, ChannelsNat DEF FcItem, FcInfo
    <2>15. /\ c = clips[n + 1] /\ FcItem(c).links = LinkIds(c)
           /\ FcInfo(c).path = c.location /\ FcInfo(c).channels = Channels(c)
      BY <1>1, <2>2 DEF FcItem, FcInfo
    <2> HIDE DEF n, c
    <2>8. FcCounts'
      <3>1. \E X : fcp'.video \in Seq(X)
        BY <2>5
      <3>2. \E X : fcp'.infos \in Seq(X)
        BY <2>6
      <3>3. \E X : fcp'.audio \in Seq(X)
        BY <2>1, Zenon DEF FcInv, FcCounts
      <3>4. /\ fcp'.next \in 0..(Len(clips') + 1) /\ fcp'.next # 0
            /\ Len(fcp'.video) = fcp'.next - 1
            /\ Len(fcp'.infos) = Len(fcp'.video) /\ Len(fcp'.audio) = 0
        BY <1>1, <2>1, <2>2, <2>5, <2>6
      <3> QED
        BY <2>1, <3>1, <3>2, <3>3, <3>4 DEF FcCounts
    <2>9. \A k \in 1..(n + 1) : EndBefore(fcp'.video, k) = EndBefore(fcp.video, k)
      BY <2>2, <2>5 DEF EndBefore
    <2>10. fcp.total = EndBefore(fcp.video, n + 1)
      BY <1>1 DEF FcInv, FcTotals, n
    <2>11. FcNoted'
      <3> SUFFICES ASSUME NEW k \in 1..(n + 1)
                   PROVE  /\ fcp'.video[k].start = EndBefore(fcp'.video, k)
                          /\ fcp'.video[k].end = fcp'.video[k].start + fcp'.infos[k].duration
                          /\ fcp'.video[k].ntsc = fcp'.infos[k].ntsc
                          /\ fcp'.video[k].timeBase = fcp'.infos[k].timeBase
                          /\ fcp'.video[k].links = LinkIds(clips[k])
                          /\ fcp'.infos[k].path = clips[k].location
                          /\ fcp'.infos[k].channels = Channels(clips[k])
                          /\ fcp'.infos[k].channels \in Nat
        BY <1>1, <2>5 DEF FcNoted
      <3>1. CASE k = n + 1
        BY <3>1, <2>2, <2>5, <2>6, <2>7, <2>9, <2>10, <2>15
      <3>2. CASE k \in 1..n
        <4>1. /\ fcp.video[k].start = EndBefore(fcp.video, k)
              /\ fcp.video[k].end = fcp.video[k].start + fcp.infos[k].duration
              /\ fcp.video[k].ntsc = fcp.infos[k].ntsc
              /\ fcp.video[k].timeBase = fcp.infos[k].timeBase
              /\ fcp.video[k].links = LinkIds(clips[k])
              /\ fcp.infos[k].path = clips[k].location
              /\ fcp.infos[k].channels = Channels(clips[k])
              /\ fcp.infos[k].channels \in Nat
          BY <3>2 DEF FcInv, FcNoted, n
        <4> QED
          BY <3>2, <4>1, <2>5, <2>6, <2>9
      <3> QED
        BY <2>2, <3>1, <3>2
    <2>12. FcTotals'
      <3>1. EndBefore(fcp'.video, n + 2) = fcp'.video[n + 1].end
        BY <2>2 DEF EndBefore
      <3> QED
        BY <2>1, <2>2, <2>5, <2>7, <3>1 DEF FcTotals
    <2>13. FcSounds'
      BY <2>1, <2>2 DEF FcSounds
    <2>14. FcOpened'
      <3>1. fcp'.open = <<"xmeml", "sequence", "media", "video", "track">>
        <4>1. CASE fcp.next = 1
          <5>1. fcp.open = <<"xmeml", "sequence", "media", "video">>
            BY <4>1, <1>1 DEF FcInv, FcOpened
          <5>2. OpenTrack(fcp.open) = Append(fcp.open, "track")
            BY <4>1 DEF OpenTrack
          <5> QED
            BY <2>1, <5>1, <5>2, FiveElements
        <4>2. CASE fcp.next > 1
          <5>1. fcp.open = <<"xmeml", "sequence", "media", "video", "track">>
            BY <4>2, <1>1 DEF FcInv, FcOpened
          <5>2. OpenTrack(fcp.open) = Append(Front(fcp.open), "track")
            BY <4>2 DEF OpenTrack
          <5> QED
            BY <2>1, <5>1, <5>2, FiveElements
        <4> QED
          BY <1>1, <4>1, <4>2
      <3>2. fcp'.next > 1 /\ fcp'.next # 1
        BY <1>1, <2>1
      <3> QED
        BY <2>1, <3>1, <3>2 DEF FcOpened
    <2>16. FcNumbers'
      BY <2>1, <2>2 DEF FcInv, FcNumbers
    <2> QED
      BY <1>1, <2>1, <2>8, <2>11, <2>12, <2>13, <2>14, <2>16 DEF FcInv
  <1> QED
    BY <1>2, <1>3

LEMMA FcInvAudio ==
    ASSUME FcInv, FcAudio
    PROVE  FcInv'
  <1>1. /\ clips' = clips /\ FcFields(fcp) /\ fcp.section = "video"
        /\ fcp.next = Len(clips) + 1 /\ Len(clips) \in Nat
    BY DEF FcInv, FcAudio, FcRunning, request
  <1>2. /\ FcFields(fcp') /\ FcKeeps /\ fcp'.section = "audio" /\ fcp'.next = 1
        /\ fcp'.total = 0 /\ fcp'.open = Append(Front(Front(fcp.open)), "audio")
        /\ fcp'.nItem = 2
    BY <1>1, FcAudioFields
  <1>3. /\ Len(fcp.video) = Len(clips) /\ Len(fcp.infos) = Len(fcp.video)
        /\ Len(fcp.audio) = 0
        /\ \E S : fcp.video \in Seq(S)
        /\ \E S : fcp.infos \in Seq(S)
        /\ \E S : fcp.audio \in Seq(S)
    BY <1>1 DEF FcInv, FcCounts
  <1>4. FcCounts'
    <2>1. fcp'.next \in 1..(Len(clips') + 1)
      BY <1>1, <1>2
    <2> QED
      BY <1>1, <1>2, <1>3, <2>1 DEF FcCounts, FcKeeps
  <1>5. FcNoted'
    BY <1>1, <1>2 DEF FcInv, FcNoted, FcKeeps
  <1>6. FcSounds' /\ FcNumbers'
    BY <1>2, <1>3 DEF FcSounds, FcNumbers, FcKeeps
  <1>7. FcTotals'
    BY <1>2 DEF FcTotals, EndBefore
  <1>8. FcOpened'
    <2>1. SUFFICES ASSUME Len(clips) > 0
                   PROVE  fcp'.open = <<"xmeml", "sequence", "media", "audio">>
      BY <1>1, <1>2 DEF FcOpened
    <2>2. fcp.open = <<"xmeml", "sequence", "media", "video", "track">>
      BY <1>1, <2>1 DEF FcInv, FcOpened
    <2>3. Front(fcp.open) = <<"xmeml", "sequence", "media", "video">>
      BY <2>2, FiveElements, Zenon
    <2>4. Front(Front(fcp.open)) = <<"xmeml", "sequence", "media">>
      BY <2>3, FourElements, Zenon
    <2> QED
      BY <1>2, <2>4, FourElements, Zenon
  <1> QED
    BY <1>1, <1>2, <1>4, <1>5, <1>6, <1>7, <1>8 DEF FcInv

LEMMA FcInvEnd ==
    ASSUME FcInv, FcEnd
    PROVE  FcInv'
  <1>1. /\ clips' = clips /\ FcFields(fcp) /\ fcp.section = "audio"
        /\ fcp.next = Len(fcp.infos) + 1 /\ Len(clips) \in Nat
    BY DEF FcInv, FcEnd, FcRunning, request
  <1>2. /\ FcFields(fcp') /\ FcKeeps /\ fcp'.section = "done"
        /\ fcp'.holder = Last(Front(Front(fcp.open))) /\ fcp'.nItem = fcp.nItem
    BY <1>1, FcEndFields
  <1>3. /\ Len(fcp.video) = Len(clips) /\ Len(fcp.infos) = Len(fcp.video)
        /\ \E S : fcp.video \in Seq(S)
        /\ \E S : fcp.infos \in Seq(S)
        /\ \E S : fcp.audio \in Seq(S)
    BY <1>1 DEF FcInv, FcCounts
  <1>4. FcCounts'
    BY <1>1, <1>2, <1>3 DEF FcCounts, FcKeeps
  <1>5. FcNoted'
    BY <1>1, <1>2 DEF FcInv, FcNoted, FcKeeps
  <1>6. FcSounds'
    BY <1>1, <1>2 DEF FcInv, FcSounds, FcKeeps
  <1>7. FcNumbers'
    BY <1>1, <1>2, <1>3 DEF FcInv, FcNumbers, FcKeeps
  <1>8. FcTotals'
    BY <1>2 DEF FcTotals
  <1>9. FcOpened'
    <2>1. SUFFICES ASSUME Len(clips) > 0
                   PROVE  fcp'.holder = "sequence"
      BY <1>1, <1>2 DEF FcOpened
    <2>2. fcp.open = <<"xmeml", "sequence", "media", "audio">>
      BY <1>1, <2>1 DEF FcInv, FcOpened
    <2>3. Front(fcp.open) = <<"xmeml", "sequence", "media">>
      BY <2>2, FourElements, Zenon
    <2>4. Front(Front(fcp.open)) = <<"xmeml", "sequence">>
      BY <2>3, ThreeElements, Zenon
    <2> QED
      BY <1>2, <2>4 DEF Last
  <1> QED
    BY <1>1, <1>2, <1>4, <1>5, <1>6, <1>7, <1>8, <1>9 DEF FcInv

\* The sound of a clip: where it is, and numbered from nItem.
LEMMA FcSoundItems ==
    ASSUME NEW info, info.channels \in Nat, fcp.nItem \in Nat
    PROVE  /\ \E T : FcSound(info) \in Seq(T)
           /\ Len(FcSound(info)) = info.channels
           /\ \A i \in 1..info.channels :
                /\ FcSound(info)[i].clip = fcp.next
                /\ FcSound(info)[i].nItem = fcp.nItem + i - 1
                /\ FcSound(info)[i].id = Numbered(info.path, fcp.nItem + i - 1)
                /\ FcSound(info)[i].start = fcp.total
                /\ FcSound(info)[i].end = fcp.total + info.duration
                /\ FcSound(info)[i].ntsc = info.ntsc
                /\ FcSound(info)[i].timeBase = info.timeBase
  <1> DEFINE item(i) == [clip |-> fcp.next, nItem |-> fcp.nItem + i - 1,
                         id |-> Numbered(info.path, fcp.nItem + i - 1),
                         start |-> fcp.total, end |-> fcp.total + info.duration,
                         ntsc |-> info.ntsc, timeBase |-> info.timeBase]
             T == {item(i) : i \in 1..info.channels}
  <1>1. FcSound(info) = [i \in 1..info.channels |-> item(i)]
    BY DEF FcSound
  <1>2. FcSound(info) \in [1..info.channels -> T]
    BY <1>1
  <1> HIDE DEF T
  <1>3. FcSound(info) \in Seq(T) /\ Len(FcSound(info)) = info.channels
    BY <1>2
  <1>4. \E X : FcSound(info) \in Seq(X)
    BY <1>3
  <1>5. \A i \in 1..info.channels : FcSound(info)[i] = item(i)
    BY <1>1
  <1>6. \A i \in 1..info.channels :
            /\ FcSound(info)[i].clip = fcp.next
            /\ FcSound(info)[i].nItem = fcp.nItem + i - 1
            /\ FcSound(info)[i].id = Numbered(info.path, fcp.nItem + i - 1)
            /\ FcSound(info)[i].start = fcp.total
            /\ FcSound(info)[i].end = fcp.total + info.duration
            /\ FcSound(info)[i].ntsc = info.ntsc
            /\ FcSound(info)[i].timeBase = info.timeBase
    <2> SUFFICES ASSUME NEW i \in 1..info.channels
                 PROVE  /\ FcSound(info)[i].clip = fcp.next
                        /\ FcSound(info)[i].nItem = fcp.nItem + i - 1
                /\ FcSound(info)[i].id = Numbered(info.path, fcp.nItem + i - 1)
                        /\ FcSound(info)[i].start = fcp.total
                        /\ FcSound(info)[i].end = fcp.total + info.duration
                        /\ FcSound(info)[i].ntsc = info.ntsc
                        /\ FcSound(info)[i].timeBase = info.timeBase
      OBVIOUS
    <2>1. FcSound(info)[i] = item(i)
      BY <1>5
    <2> QED
      BY <2>1
  <1> QED
    BY <1>3, <1>4, <1>6, Zenon

LEMMA FcInvAudioClip ==
    ASSUME FcInv, FcAudioClip
    PROVE  FcInv'
  <1> DEFINE x == fcp.next
             info == fcp.infos[x]
             v == fcp.video[x]
             n == Len(fcp.audio)
             m == info.channels
             sound == FcSound(info)
  <1>1. /\ clips' = clips /\ FcFields(fcp) /\ fcp.section = "audio"
        /\ x \in 1..Len(fcp.infos) /\ Len(clips) \in Nat
    BY DEF FcInv, FcAudioClip, FcRunning, request
  <1>2. /\ Len(fcp.video) = Len(clips) /\ Len(fcp.infos) = Len(clips)
        /\ \E S : fcp.video \in Seq(S)
        /\ \E S : fcp.infos \in Seq(S)
    BY <1>1 DEF FcInv, FcCounts
  <1>3. PICK S : fcp.audio \in Seq(S)
    BY DEF FcInv, FcCounts
  <1>4. /\ FcFields(fcp') /\ fcp'.section = "audio" /\ fcp'.next = x + 1
        /\ fcp'.total = fcp.total + info.duration
        /\ fcp'.video = fcp.video /\ fcp'.infos = fcp.infos
        /\ fcp'.audio = fcp.audio \o sound
        /\ fcp'.open = fcp.open /\ fcp'.nItem = fcp.nItem + m + 1
    BY <1>1, FcAudioClipFields
  <1>5. /\ v.start = EndBefore(fcp.video, x) /\ v.end = v.start + info.duration
        /\ v.ntsc = info.ntsc /\ v.timeBase = info.timeBase /\ m \in Nat
    BY <1>1, <1>2 DEF FcInv, FcNoted
  <1>6. v.start = fcp.total /\ v.end = fcp'.total
    BY <1>1, <1>4, <1>5 DEF FcInv, FcTotals
  <1>7. n \in Nat /\ fcp.nItem \in Nat
    BY <1>3 DEF FcInv, FcNumbers
  <1>8. /\ Len(sound) = m
        /\ \A i \in 1..m :
              /\ sound[i].clip = x /\ sound[i].nItem = fcp.nItem + i - 1
              /\ sound[i].id = Numbered(info.path, fcp.nItem + i - 1)
              /\ sound[i].start = v.start /\ sound[i].end = v.end
              /\ sound[i].ntsc = v.ntsc /\ sound[i].timeBase = v.timeBase
    BY <1>4, <1>5, <1>6, <1>7, FcSoundItems
  <1>9. PICK T : sound \in Seq(T)
    BY <1>5, <1>7, FcSoundItems
  <1> HIDE DEF info, sound
  <1>10. /\ fcp'.audio \in Seq(S \cup T) /\ Len(fcp'.audio) = n + m
         /\ \A k \in 1..n : fcp'.audio[k] = fcp.audio[k]
         /\ \A k \in (n + 1)..(n + m) : fcp'.audio[k] = sound[k - n]
    <2>1. /\ fcp.audio \o sound \in Seq(S \cup T)
          /\ Len(fcp.audio \o sound) = Len(fcp.audio) + Len(sound)
          /\ \A k \in 1..Len(fcp.audio) : (fcp.audio \o sound)[k] = fcp.audio[k]
          /\ \A k \in (Len(fcp.audio) + 1)..(Len(fcp.audio) + Len(sound)) :
                (fcp.audio \o sound)[k] = sound[k - Len(fcp.audio)]
      BY <1>3, <1>9, ConcatAny
    <2>2. Len(sound) = m
      BY <1>8
    <2> QED
      BY <1>4, <2>1, <2>2, Zenon
  <1> HIDE DEF v, n, m
  <1>11. FcCounts'
    <2>1. \E X : fcp'.audio \in Seq(X)
      BY <1>10
    <2>2. fcp'.next \in 1..(Len(clips') + 1)
      BY <1>1, <1>2, <1>4
    <2> QED
      BY <1>1, <1>2, <1>4, <2>1, <2>2 DEF FcCounts
  <1>12. FcNoted'
    BY <1>1, <1>4 DEF FcInv, FcNoted
  <1>13. FcTotals'
    <2>1. EndBefore(fcp'.video, fcp'.next) = v.end
      BY <1>1, <1>2, <1>4 DEF EndBefore, v
    <2> QED
      BY <1>4, <1>6, <2>1 DEF FcTotals
  <1>14. FcSounds'
    <2> SUFFICES ASSUME NEW k \in 1..(n + m)
                 PROVE  LET a == fcp'.audio[k]
                            w == fcp.video[a.clip]
                        IN  /\ a.clip \in 1..Len(fcp.video)
                            /\ a.start = w.start /\ a.end = w.end /\ a.ntsc = w.ntsc
                            /\ a.timeBase = w.timeBase
                            /\ a.id = Numbered(clips[a.clip].location, a.nItem)
      BY <1>1, <1>4, <1>10 DEF FcSounds
    <2>1. CASE k \in 1..n
      BY <2>1, <1>10 DEF FcInv, FcSounds, n
    <2>2. CASE k \in (n + 1)..(n + m)
      <3>1. k - n \in 1..m /\ fcp'.audio[k] = sound[k - n]
        BY <2>2, <1>5, <1>7, <1>10 DEF m
      <3>2. fcp'.audio[k].clip = x /\ fcp.video[x] = v
        BY <3>1, <1>8 DEF v
      <3>3. info.path = clips[x].location
        BY <1>1, <1>2 DEF FcInv, FcNoted, info
      <3>4. /\ sound[k - n].nItem = fcp.nItem + (k - n) - 1
            /\ sound[k - n].id = Numbered(info.path, fcp.nItem + (k - n) - 1)
        BY <3>1, <1>8
      <3> QED
        BY <3>1, <3>2, <3>3, <3>4, <1>1, <1>2, <1>8
    <2> QED
      BY <2>1, <2>2, <1>5, <1>7 DEF m
  <1>15. FcOpened'
    BY <1>1, <1>4 DEF FcInv, FcOpened
  <1>16. FcNumbers'
    <2> DEFINE number(k) == fcp'.audio[k].nItem
    <2>0. fcp.nItem >= 2
      BY <1>1 DEF FcInv, FcNumbers
    <2>1. \A k \in 1..n : number(k) \in 2..(fcp.nItem - 1)
      BY <1>10 DEF FcInv, FcNumbers, n
    <2>2. \A k \in (n + 1)..(n + m) : number(k) = fcp.nItem + k - n - 1
      <3> SUFFICES ASSUME NEW k \in (n + 1)..(n + m)
                   PROVE  number(k) = fcp.nItem + k - n - 1
        OBVIOUS
      <3>1. k - n \in 1..m /\ fcp'.audio[k] = sound[k - n]
        BY <1>5, <1>7, <1>10 DEF m
      <3>2. fcp'.audio[k].nItem = fcp.nItem + (k - n) - 1
        BY <3>1, <1>8
      <3> QED
        BY <3>2, <1>7
    <2>3. \A j, k \in 1..n : j < k => number(j) < number(k)
      BY <1>10 DEF FcInv, FcNumbers, n
    <2> HIDE DEF number
    <2>4. /\ fcp'.nItem \in Nat /\ fcp'.nItem >= 2
          /\ \A k \in 1..(n + m) : number(k) \in 2..(fcp'.nItem - 1)
      <3>1. fcp'.nItem = fcp.nItem + m + 1 /\ m \in Nat
        BY <1>4, <1>5
      <3>2. \A k \in 1..(n + m) : k \in 1..n \/ k \in (n + 1)..(n + m)
        BY <1>7, <3>1
      <3>3. \A k \in 1..n : number(k) \in 2..(fcp'.nItem - 1)
        BY <1>7, <2>1, <3>1
      <3>4. \A k \in (n + 1)..(n + m) : number(k) \in 2..(fcp'.nItem - 1)
        BY <1>7, <2>0, <2>2, <3>1
      <3> QED
        BY <1>7, <2>0, <3>1, <3>2, <3>3, <3>4
    <2>5. \A j, k \in 1..(n + m) : j < k => number(j) < number(k)
      BY <1>5, <1>7, <2>1, <2>2, <2>3 DEF m
    <2>6. /\ fcp.infos[1].channels <= n + m
          /\ \A k \in 1..(n + m) :
               /\ k <= fcp.infos[1].channels =>
                    /\ fcp'.audio[k].clip = 1
                    /\ fcp'.audio[k].id = Numbered(fcp.infos[1].path, k + 1)
               /\ k > fcp.infos[1].channels => fcp'.audio[k].clip # 1
      <3>1. CASE x = 1
        <4>1. n = 0 /\ fcp.nItem = 2 /\ info = fcp.infos[1] /\ m = fcp.infos[1].channels
          BY <3>1, <1>1 DEF FcInv, FcNumbers, n, m, info
        <4>2. \A k \in 1..m : fcp'.audio[k] = sound[k]
          BY <4>1, <1>5, <1>10 DEF m
        <4>3. \A k \in 1..m : fcp'.audio[k].id = Numbered(info.path, k + 1)
          <5> SUFFICES ASSUME NEW k \in 1..m
                       PROVE  fcp'.audio[k].id = Numbered(info.path, k + 1)
            OBVIOUS
          <5>1. fcp'.audio[k].id = Numbered(info.path, 2 + k - 1)
            BY <1>8, <4>1, <4>2
          <5> QED
            BY <5>1, <1>5 DEF m
        <4> QED
          BY <3>1, <4>1, <4>2, <4>3, <1>5, <1>8 DEF m
      <3>2. CASE x > 1
        <4>1. /\ fcp.infos[1].channels <= n
              /\ \A k \in 1..n :
                   /\ k <= fcp.infos[1].channels =>
                        /\ fcp.audio[k].clip = 1
                        /\ fcp.audio[k].id = Numbered(fcp.infos[1].path, k + 1)
                   /\ k > fcp.infos[1].channels => fcp.audio[k].clip # 1
          BY <3>2, <1>1, <1>2 DEF FcInv, FcNumbers, n
        <4>2. \A k \in (n + 1)..(n + m) : fcp'.audio[k].clip # 1
          <5> SUFFICES ASSUME NEW k \in (n + 1)..(n + m)
                       PROVE  fcp'.audio[k].clip # 1
            OBVIOUS
          <5>1. k - n \in 1..m /\ fcp'.audio[k] = sound[k - n]
            BY <1>5, <1>7, <1>10 DEF m
          <5> QED
            BY <3>2, <5>1, <1>8
        <4>3. fcp.infos[1].channels \in Nat
          BY <1>1, <1>2 DEF FcInv, FcNoted
        <4>4. \A k \in 1..(n + m) : k \in 1..n \/ k \in (n + 1)..(n + m)
          BY <1>5, <1>7 DEF m
        <4>5. /\ fcp.infos[1].channels <= n + m
              /\ \A k \in (n + 1)..(n + m) : ~(k <= fcp.infos[1].channels)
          BY <4>1, <4>3, <1>5, <1>7 DEF m
        <4> QED
          BY <4>1, <4>2, <4>4, <4>5, <1>10
      <3> QED
        BY <1>1, <3>1, <3>2
    <2>7. fcp'.section # "done" /\ fcp'.next # 1
      BY <1>1, <1>4
    <2> QED
      BY <1>4, <1>10, <2>4, <2>5, <2>6, <2>7 DEF FcNumbers, number
  <1> QED
    BY <1>1, <1>4, <1>11, <1>12, <1>13, <1>14, <1>15, <1>16 DEF FcInv

LEMMA FcInvStep == FcInv /\ [FcNext]_<<request, fcp>> => FcInv'
  <1> SUFFICES ASSUME FcInv, [FcNext]_<<request, fcp>>
               PROVE  FcInv'
    OBVIOUS
  <1>1. CASE UNCHANGED <<request, fcp>>
    <2>1. /\ clips' = clips /\ FcKeeps /\ fcp' = fcp
      BY <1>1 DEF request, FcKeeps
    <2>2. FcFields(fcp')
      BY <2>1 DEF FcInv
    <2> QED
      BY <2>1, <2>2, FcInvKept
  <1> QED
    BY <1>1, FcInvHeader, FcInvClip, FcInvAudio, FcInvAudioClip, FcInvEnd DEF FcNext

LEMMA FcInvAlways == FcSpec => []FcInv
  BY FcInvInit, FcInvStep, PTL DEF FcSpec

\* A clip's sound plays where its picture does, at the same rate.
THEOREM FcSoundInSync == FcSpec => []FcInSync
  <1>1. FcInv => FcInSync
    BY DEF FcInv, FcSounds, FcInSync
  <1> QED
    BY <1>1, FcInvAlways, PTL

\* Elements are ended where they were begun: what is written lands in the element
\* it belongs to.
THEOREM FcWellNested == FcSpec => []FcNested
  <1>1. FcInv => FcNested
    BY DEF FcInv, FcOpened, FcNested, FcRunning
  <1> QED
    BY <1>1, FcInvAlways, PTL

\* Two audio items have one identifier only when the file names of their clips,
\* different numbers after each, are one text; and the links of the first clip
\* name its own items.
THEOREM FcItemsIdentified == FcSpec => []FcIdentified
  <1>1. ASSUME FcInv, NEW j \in 1..Len(fcp.audio), NEW k \in 1..Len(fcp.audio),
               j # k, fcp.audio[j].id = fcp.audio[k].id
        PROVE  \E m, n \in 2..fcp.nItem :
                  /\ m # n
                  /\ Numbered(clips[fcp.audio[j].clip].location, m)
                     = Numbered(clips[fcp.audio[k].clip].location, n)
    <2> DEFINE m == fcp.audio[j].nItem
               n == fcp.audio[k].nItem
    <2>1. PICK S : fcp.audio \in Seq(S)
      BY <1>1 DEF FcInv, FcCounts
    <2>2. j \in Nat /\ k \in Nat /\ fcp.nItem \in Nat
      BY <1>1, <2>1 DEF FcInv, FcNumbers
    <2>3. m \in 2..(fcp.nItem - 1) /\ n \in 2..(fcp.nItem - 1)
      BY <1>1 DEF FcInv, FcNumbers
    <2>4. j < k \/ k < j
      BY <1>1, <2>2
    <2>5. (j < k => m < n) /\ (k < j => n < m)
      BY <1>1 DEF FcInv, FcNumbers
    <2>6. /\ fcp.audio[j].id = Numbered(clips[fcp.audio[j].clip].location, m)
          /\ fcp.audio[k].id = Numbered(clips[fcp.audio[k].clip].location, n)
      BY <1>1 DEF FcInv, FcSounds
    <2>7. m \in 2..fcp.nItem /\ n \in 2..fcp.nItem /\ m # n
      BY <2>2, <2>3, <2>4, <2>5
    <2> HIDE DEF m, n
    <2> QED
      BY <1>1, <2>6, <2>7, Zenon
  <1>2. ASSUME FcInv, fcp.section = "done", Len(clips) > 0, clips[1].nrAudioChannels > 0
        PROVE  {fcp.audio[k].id : k \in {j \in 1..Len(fcp.audio) : fcp.audio[j].clip = 1}}
               = {fcp.video[1].links[i] : i \in 1..Len(fcp.video[1].links)}
    <2> DEFINE c == clips[1]
               m == Channels(c)
               path == c.location
    <2>1. c \in Clips /\ Len(clips) \in Nat
      BY <1>2 DEF FcInv
    <2>2. m \in Nat /\ c.nrAudioTracks \in Nat /\ c.nrAudioChannels \in Nat
      BY <2>1, ChannelsNat, ClipsAssumption
    <2>3. Len(fcp.video) = Len(clips) /\ (\E S : fcp.audio \in Seq(S))
      BY <1>2 DEF FcInv, FcCounts
    <2>4. fcp.video[1].links = LinkIds(c) /\ fcp.infos[1].path = path
          /\ fcp.infos[1].channels = m
      BY <1>2, <2>1, <2>3 DEF FcInv, FcNoted
    <2>5. /\ m <= Len(fcp.audio)
          /\ \A k \in 1..Len(fcp.audio) :
               /\ k <= m => fcp.audio[k].clip = 1 /\ fcp.audio[k].id = Numbered(path, k + 1)
               /\ k > m => fcp.audio[k].clip # 1
      BY <1>2, <2>4 DEF FcInv, FcNumbers
    <2>6. (IF c.nrAudioChannels > 1 THEN m ELSE c.nrAudioTracks) = m
      <3>1. CASE c.nrAudioChannels > 1
        BY <3>1
      <3>2. CASE c.nrAudioChannels = 1
        BY <3>2, <2>2 DEF Channels
      <3> QED
        BY <1>2, <2>2, <3>1, <3>2
    <2>7. LinkIds(c) = [i \in 1..m |-> Numbered(path, i + 1)]
      BY <2>6, Zenon DEF LinkIds
    <2> HIDE DEF c, m, path
    <2>8. Len(LinkIds(c)) = m /\ \A i \in 1..m : LinkIds(c)[i] = Numbered(path, i + 1)
      BY <2>2, <2>7
    <2>9. Len(fcp.audio) \in Nat
      BY <2>3
    <2>10. {j \in 1..Len(fcp.audio) : fcp.audio[j].clip = 1} = 1..m
      BY <2>2, <2>5, <2>9
    <2>11. \A k \in 1..m : fcp.audio[k].id = LinkIds(c)[k]
      <3> SUFFICES ASSUME NEW k \in 1..m
                   PROVE  fcp.audio[k].id = LinkIds(c)[k]
        OBVIOUS
      <3>1. k \in 1..Len(fcp.audio) /\ k <= m
        BY <2>2, <2>5, <2>9
      <3>2. fcp.audio[k].id = Numbered(path, k + 1)
        BY <2>5, <3>1
      <3> QED
        BY <2>8, <3>2
    <2> QED
      BY <2>4, <2>8, <2>10, <2>11
  <1>3. FcInv => FcIdentified
    BY <1>1, <1>2 DEF FcIdentified
  <1> QED
    BY <1>3, FcInvAlways, PTL

-----------------------------------------------------------------------------
(* FinalCut implements Playlist                                               *)

FcPlaced == [k \in 1..Len(fcp.video) |->
               [from |-> fcp.video[k].start, to |-> fcp.video[k].end]]

FcLast == IF fcp.video = <<>> THEN 0 ELSE Last(fcp.video).end

FcVerdict == IF fcp.fault # "none" THEN "refused"
             ELSE IF fcp.section = "done" THEN "done" ELSE "open"

\* A step that adds no picture and goes on.
LEMMA FcPlacesNothing ==
    ASSUME FcKeeps, clips' = clips, fcp.fault = "none", fcp'.fault = "none",
           fcp.section # "done", fcp'.section # "done"
    PROVE  UNCHANGED FcPlaylist!playlistVars
  BY DEF FcKeeps, FcPlaylist!playlistVars

LEMMA FcRefuses ==
    ASSUME FcKeeps, clips' = clips, fcp.fault = "none", fcp'.fault # "none",
           fcp.section # "done"
    PROVE  FcPlaylist!Refuse
  BY DEF FcKeeps, FcPlaylist!Refuse

LEMMA FcPlacesClip ==
    ASSUME FcInv, FcClip, FcClipFault(clips[fcp.next]) = "none"
    PROVE  FcPlaylist!Place
  <1> DEFINE c == clips[fcp.next]
             n == Len(fcp.video)
             place == [from |-> Frame(c, FcLast), to |-> Frame(c, FcLast')]
             P == {[from |-> fcp.video[k].start, to |-> fcp.video[k].end] : k \in 1..n}
  <1>1. /\ clips' = clips /\ FcFields(fcp) /\ fcp.section = "video" /\ fcp.fault = "none"
        /\ fcp.next \in 1..Len(clips) /\ Len(clips) \in Nat
    BY DEF FcInv, FcClip, FcRunning, request
  <1>2. /\ fcp'.fault = "none" /\ fcp'.section = "video"
        /\ fcp'.video = Append(fcp.video, FcItem(c))
    BY <1>1, FcClipFields
  <1>3. PICK S : fcp.video \in Seq(S)
    BY DEF FcInv, FcCounts
  <1>4. n \in Nat /\ n = fcp.next - 1
    BY <1>1, <1>3 DEF FcInv, FcCounts
  <1>5. /\ fcp'.video \in Seq(S \cup {FcItem(c)}) /\ Len(fcp'.video) = n + 1
        /\ \A k \in 1..n : fcp'.video[k] = fcp.video[k]
        /\ fcp'.video[n + 1] = FcItem(c)
    BY <1>2, <1>3, AppendAny
  <1>6. fcp.total = FcLast
    <2>1. fcp.total = EndBefore(fcp.video, n + 1)
      BY <1>1 DEF FcInv, FcTotals
    <2>2. CASE n = 0
      <3>1. fcp.video = <<>>
        BY <2>2, <1>3
      <3> QED
        BY <2>1, <2>2, <3>1 DEF EndBefore, FcLast
    <2>3. CASE n > 0
      <3>1. fcp.video # <<>> /\ n + 1 # 1 /\ n + 1 - 1 = n
        BY <2>3, <1>3
      <3> QED
        BY <2>1, <3>1 DEF EndBefore, FcLast, Last
    <2>4. n = 0 \/ n > 0
      BY <1>3
    <2> QED
      BY <2>2, <2>3, <2>4, Zenon
  <1>7. FcLast' = fcp.total + ClipDuration(c)
    <2>1. fcp'.video # <<>>
      BY <1>4, <1>5
    <2> QED
      BY <1>5, <2>1 DEF FcLast, Last, FcItem
  <1>8. FcPlaced' = Append(FcPlaced, place)
    <2>1. FcPlaced \in [1..n -> P]
      BY DEF FcPlaced
    <2>2. FcPlaced' = [k \in 1..(n + 1) |-> FcPlaced'[k]]
      BY <1>5 DEF FcPlaced
    <2>3. \A k \in 1..n : FcPlaced'[k] = FcPlaced[k]
      BY <1>4, <1>5 DEF FcPlaced
    <2>4. FcPlaced'[n + 1] = place
      BY <1>4, <1>5, <1>6, <1>7 DEF FcPlaced, FcItem, Frame
    <2> HIDE DEF n, P, place
    <2> QED
      BY <1>4, <2>1, <2>2, <2>3, <2>4, OneMore
  <1>9. Len(FcPlaced) = n
    BY <1>4 DEF FcPlaced
  <1>10. Len(FcPlaced) < Len(clips) /\ c = clips[Len(FcPlaced) + 1]
    BY <1>1, <1>4, <1>9
  <1>11. FcVerdict = "open" /\ FcVerdict' = "open"
    BY <1>1, <1>2 DEF FcVerdict
  <1> HIDE DEF c, n
  <1>12. FcLast' = FcLast + ClipDuration(c)
    BY <1>6, <1>7
  <1> QED
    BY <1>1, <1>8, <1>10, <1>11, <1>12
    DEF FcPlaylist!Place, FcPlaced, FcVerdict, FcLast

LEMMA FcPlaces == FcInv /\ [FcNext]_<<request, fcp>>
                    => [FcPlaylist!Next]_(FcPlaylist!playlistVars)
  <1> SUFFICES ASSUME FcInv, [FcNext]_<<request, fcp>>
               PROVE  [FcPlaylist!Next]_(FcPlaylist!playlistVars)
    OBVIOUS
  <1>1. FcFields(fcp) /\ clips' = clips
    BY DEF FcInv, FcNext, FcHeader, FcClip, FcAudio, FcAudioClip, FcEnd, request
  <1>2. CASE UNCHANGED <<request, fcp>>
    BY <1>2 DEF request, FcPlaylist!playlistVars
  <1>3. CASE FcHeader
    <2>1. fcp.fault = "none" /\ fcp.section = "video"
      BY <1>3 DEF FcHeader, FcRunning
    <2>2. CASE Supported(edlFrameRate)
      <3>1. FcKeeps /\ fcp'.fault = "none" /\ fcp'.section = "video"
        BY <1>1, <1>3, <2>1, <2>2, FcHeaderFields
      <3> QED
        BY <1>1, <2>1, <3>1, FcPlacesNothing
    <2>3. CASE ~Supported(edlFrameRate)
      <3>1. FcFail("UNSUPPORTED_FRAME_RATE")
        BY <1>3, <2>3 DEF FcHeader
      <3>2. FcKeeps /\ fcp'.fault # "none"
        BY <1>1, <3>1, FcFailFields
      <3> QED
        BY <1>1, <2>1, <3>2, FcRefuses DEF FcPlaylist!Next
    <2> QED
      BY <2>2, <2>3
  <1>4. CASE FcClip
    <2>1. fcp.fault = "none" /\ fcp.section = "video"
      BY <1>4 DEF FcClip, FcRunning
    <2>2. CASE FcClipFault(clips[fcp.next]) = "none"
      BY <1>4, <2>2, FcPlacesClip DEF FcPlaylist!Next
    <2>3. CASE FcClipFault(clips[fcp.next]) # "none"
      <3>1. FcFail(FcClipFault(clips[fcp.next]))
        BY <1>4, <2>3 DEF FcClip
      <3>2. FcKeeps /\ fcp'.fault # "none"
        BY <1>1, <2>3, <3>1, FcFailFields
      <3> QED
        BY <1>1, <2>1, <3>2, FcRefuses DEF FcPlaylist!Next
    <2> QED
      BY <2>2, <2>3
  <1>5. CASE FcAudio
    <2>1. /\ fcp.fault = "none" /\ fcp.section = "video"
          /\ FcKeeps /\ fcp'.fault = "none" /\ fcp'.section = "audio"
      BY <1>1, <1>5, FcAudioFields DEF FcAudio, FcRunning
    <2> QED
      BY <1>1, <2>1, FcPlacesNothing
  <1>6. CASE FcAudioClip
    <2>1. /\ fcp.fault = "none" /\ fcp.section = "audio" /\ fcp'.video = fcp.video
          /\ fcp'.fault = "none" /\ fcp'.section = "audio"
      BY <1>1, <1>6, FcAudioClipFields DEF FcAudioClip, FcRunning
    <2> QED
      BY <1>1, <2>1 DEF FcPlaylist!playlistVars
  <1>7. CASE FcEnd
    <2>1. /\ fcp.fault = "none" /\ fcp.section = "audio"
          /\ FcKeeps /\ fcp'.fault = "none" /\ fcp'.section = "done"
      BY <1>1, <1>7, FcEndFields DEF FcEnd, FcRunning
    <2>2. Len(fcp.video) = Len(clips) /\ (\E S : fcp.video \in Seq(S))
      BY <2>1 DEF FcInv, FcCounts
    <2>3. Len(FcPlaced) = Len(clips) /\ FcPlaced' = FcPlaced /\ FcLast' = FcLast
      BY <2>1, <2>2 DEF FcPlaced, FcLast, FcKeeps
    <2>4. FcVerdict = "open" /\ FcVerdict' = "done"
      BY <2>1 DEF FcVerdict
    <2> QED
      BY <1>1, <2>3, <2>4
      DEF FcPlaylist!Next, FcPlaylist!Finish, FcPlaced, FcVerdict, FcLast
  <1> QED
    BY <1>2, <1>3, <1>4, <1>5, <1>6, <1>7 DEF FcNext

\* The picture is a playlist of the request: clip after clip without a gap, all of
\* them when the document is returned.
THEOREM FcImplementsPlaylist == FcSpec => FcPlays
  <1>1. RequestInit /\ FcInit => FcPlaylist!Init
    BY DEF FcInit, FcPlaylist!Init
  <1> QED
    BY <1>1, FcInvAlways, FcPlaces, PTL DEF FcSpec, FcPlays, FcPlaylist!Spec

-----------------------------------------------------------------------------
(* AAF: what each step leaves of the fields                                   *)

\* r has the fields of aaf and no other.
AafFields(r) ==
    r = [next |-> r.next, phase |-> r.phase, fault |-> r.fault, maxSlots |-> r.maxSlots,
         isDrop |-> r.isDrop, editRate |-> r.editRate, totalLength |-> r.totalLength,
         video |-> r.video, videoLength |-> r.videoLength, audioLength |-> r.audioLength,
         slots |-> r.slots, refs |-> r.refs, saved |-> r.saved]

\* A step that puts nothing into the file.
AafKeeps == /\ aaf'.video = aaf.video /\ aaf'.videoLength = aaf.videoLength
            /\ aaf'.refs = aaf.refs

LEMMA AafFailFields ==
    ASSUME AafFields(aaf), NEW f, AafFail(f)
    PROVE  /\ AafFields(aaf') /\ AafKeeps /\ aaf'.fault = f /\ aaf'.saved = aaf.saved
           /\ aaf'.next = aaf.next /\ aaf'.phase = aaf.phase /\ aaf'.maxSlots = aaf.maxSlots
           /\ aaf'.audioLength = aaf.audioLength /\ aaf'.slots = aaf.slots
           /\ aaf'.isDrop = aaf.isDrop /\ aaf'.totalLength = aaf.totalLength
  BY DEF AafFields, AafFail, AafKeeps

LEMMA AafReadFields ==
    ASSUME AafFields(aaf), AafRead, NEW c, c = clips[aaf.next], ClipFault(c) = "none"
    PROVE  /\ AafFields(aaf') /\ AafKeeps /\ aaf'.fault = aaf.fault /\ aaf'.saved = aaf.saved
           /\ aaf'.next = aaf.next + 1 /\ aaf'.phase = aaf.phase
           /\ aaf'.maxSlots = SlotsFor(c)
           /\ aaf'.audioLength = aaf.audioLength /\ aaf'.slots = aaf.slots
           /\ aaf'.isDrop = aaf.isDrop /\ aaf'.totalLength = AddLength(aaf.totalLength, c)
  BY DEF AafFields, AafRead, AafKeeps

LEMMA AafComposeFields ==
    ASSUME AafFields(aaf), AafCompose, Supported(edlFrameRate)
    PROVE  /\ AafFields(aaf') /\ AafKeeps /\ aaf'.fault = aaf.fault /\ aaf'.saved = aaf.saved
           /\ aaf'.next = 1 /\ aaf'.phase = "write" /\ aaf'.maxSlots = aaf.maxSlots
           /\ aaf'.audioLength = [s \in 1..aaf.maxSlots |-> 0]
           /\ aaf'.totalLength = aaf.totalLength
           /\ \E b : /\ KnownRatio(edlFrameRate) => b = FALSE
                    /\ aaf'.isDrop = DropOr(edlFrameRate, b)
  <1>1. PICK b \in IF KnownRatio(edlFrameRate) THEN {FALSE} ELSE BOOLEAN :
           aaf' = [aaf EXCEPT
                !.phase       = "write", !.next = 1,
                !.isDrop      = DropOr(edlFrameRate, b),
                !.editRate    = EditRate(edlFrameRate),
                !.audioLength = [s \in 1..aaf.maxSlots |-> 0],
                !.slots       = {Slot(<<"composition", 0>>, 1, "picture")}
                    \cup {Slot(<<"composition", 0>>, s + 1, "sound") : s \in 1..aaf.maxSlots}
                    \cup {Slot(<<"composition", 0>>, aaf.maxSlots + 2, "timecode")}]
    BY DEF AafCompose
  <1>2. KnownRatio(edlFrameRate) => b = FALSE
    BY <1>1
  <1> QED
    BY <1>1, <1>2 DEF AafFields, AafKeeps

LEMMA AafWriteFields ==
    ASSUME AafFields(aaf), AafWrite, NEW c, c = clips[aaf.next], c.fits
    PROVE  /\ AafFields(aaf') /\ aaf'.fault = aaf.fault /\ aaf'.saved = aaf.saved
           /\ aaf'.next = aaf.next + 1 /\ aaf'.phase = aaf.phase
           /\ aaf'.maxSlots = aaf.maxSlots /\ aaf'.isDrop = aaf.isDrop
           /\ aaf'.totalLength = aaf.totalLength
           /\ aaf'.slots = aaf.slots \cup ClipSlots(aaf.next, c)
           /\ aaf'.refs = aaf.refs \cup ClipRefs(aaf.next, c)
           /\ aaf'.video = Append(aaf.video, Component(ClipDuration(c)))
           /\ aaf'.videoLength = aaf.videoLength + ClipDuration(c)
           /\ aaf'.audioLength = Lengthened(aaf.audioLength, c, ClipDuration(c))
  BY DEF AafFields, AafWrite

LEMMA AafSaveFields ==
    ASSUME AafFields(aaf), AafSave
    PROVE  /\ AafFields(aaf') /\ AafKeeps /\ aaf'.fault = aaf.fault
           /\ aaf'.next = aaf.next /\ aaf'.phase = "done" /\ aaf'.maxSlots = aaf.maxSlots
           /\ aaf'.audioLength = aaf.audioLength /\ aaf'.slots = aaf.slots
           /\ aaf'.isDrop = aaf.isDrop /\ aaf'.totalLength = aaf.totalLength
           /\ aaf'.saved \in BOOLEAN
  BY DEF AafFields, AafSave, AafKeeps

-----------------------------------------------------------------------------
(* AAF: the inductive invariant                                               *)

\* A slot for each channel of the clips read, and a component of the picture for
\* each clip written.
AafCounts ==
    /\ aaf.phase \in {"read", "write", "done"} /\ aaf.maxSlots \in Nat
    /\ aaf.next \in 1..(Len(clips) + 1)
    /\ \E S : aaf.video \in Seq(S)
    /\ aaf.phase = "read" =>
         /\ Len(aaf.video) = 0 /\ aaf.videoLength = 0 /\ aaf.refs = {}
         /\ \A k \in 1..(aaf.next - 1) : Channels(clips[k]) <= aaf.maxSlots
    /\ aaf.phase # "read" =>
         /\ Len(aaf.video) = aaf.next - 1
         /\ \A k \in 1..Len(clips) : Channels(clips[k]) <= aaf.maxSlots
    /\ aaf.phase = "done" => aaf.next = Len(clips) + 1

\* Every audio sequence is as long as the picture.
AafLengths ==
    /\ aaf.phase = "read" => aaf.audioLength = <<>>
    /\ aaf.phase # "read" => aaf.audioLength = [s \in 1..aaf.maxSlots |-> aaf.videoLength]

AafInv == /\ clips \in Seq(Clips) /\ AafFields(aaf)
          /\ AafCounts /\ AafLengths /\ AafResolved

LEMMA AafInvInit == RequestInit /\ AafInit => AafInv
  <1> SUFFICES ASSUME RequestInit, AafInit
               PROVE  AafInv
    OBVIOUS
  <1>1. clips \in Seq(Clips) /\ Len(clips) \in Nat
    BY RequestTyped
  <1>2. /\ AafFields(aaf) /\ aaf.phase = "read" /\ aaf.next = 1 /\ aaf.maxSlots = 0
        /\ aaf.video = <<>> /\ aaf.videoLength = 0 /\ aaf.audioLength = <<>> /\ aaf.refs = {}
    BY DEF AafInit, AafFields
  <1>3. aaf.video \in Seq({}) /\ Len(aaf.video) = 0
    BY <1>2
  <1>4. \E S : aaf.video \in Seq(S)
    BY <1>3
  <1>5. aaf.next \in 1..(Len(clips) + 1)
    BY <1>1, <1>2
  <1>6. AafCounts
    BY <1>2, <1>3, <1>4, <1>5 DEF AafCounts
  <1>7. AafLengths /\ AafResolved
    BY <1>2 DEF AafLengths, AafResolved
  <1> QED
    BY <1>1, <1>2, <1>6, <1>7 DEF AafInv

\* A step that puts nothing in the file and stays where it is.
LEMMA AafInvKept ==
    ASSUME AafInv, clips' = clips, AafFields(aaf'), AafKeeps,
           aaf'.next = aaf.next, aaf'.phase = aaf.phase, aaf'.maxSlots = aaf.maxSlots,
           aaf'.audioLength = aaf.audioLength, aaf'.slots = aaf.slots
    PROVE  AafInv'
  <1>1. AafCounts'
    BY SMT DEF AafInv, AafCounts, AafKeeps
  <1>2. AafLengths'
    BY SMT DEF AafInv, AafLengths, AafKeeps
  <1>3. AafResolved'
    BY SMT DEF AafInv, AafResolved, AafKeeps
  <1> QED
    BY <1>1, <1>2, <1>3 DEF AafInv

LEMMA AafInvRead ==
    ASSUME AafInv, AafRead
    PROVE  AafInv'
  <1> DEFINE c == clips[aaf.next]
  <1>1. /\ clips' = clips /\ AafFields(aaf) /\ aaf.phase = "read"
        /\ aaf.next \in 1..Len(clips) /\ Len(clips) \in Nat /\ c \in Clips
    BY DEF AafInv, AafCounts, AafRead, AafRunning, request
  <1>2. CASE ClipFault(c) # "none"
    <2>1. AafFail(ClipFault(c))
      BY <1>2 DEF AafRead
    <2> QED
      BY <1>1, <2>1, AafFailFields, AafInvKept
  <1>3. CASE ClipFault(c) = "none"
    <2>1. /\ AafFields(aaf') /\ AafKeeps /\ aaf'.next = aaf.next + 1 /\ aaf'.phase = "read"
          /\ aaf'.maxSlots = SlotsFor(c)
          /\ aaf'.audioLength = aaf.audioLength /\ aaf'.slots = aaf.slots
      BY <1>1, <1>3, AafReadFields
    <2>2. /\ aaf'.maxSlots \in Nat /\ aaf.maxSlots <= aaf'.maxSlots
          /\ Channels(c) <= aaf'.maxSlots
      <3>1. aaf.maxSlots \in Nat /\ Channels(c) \in Nat
        BY <1>1, ChannelsNat DEF AafInv, AafCounts
      <3>2. aaf'.maxSlots \in {aaf.maxSlots, Channels(c)}
            /\ \A y \in {aaf.maxSlots, Channels(c)} : aaf'.maxSlots >= y
        <4> DEFINE m == IF aaf.maxSlots >= Channels(c) THEN aaf.maxSlots ELSE Channels(c)
        <4>1. \E x \in {aaf.maxSlots, Channels(c)} :
                 \A y \in {aaf.maxSlots, Channels(c)} : x >= y
          <5>1. m \in {aaf.maxSlots, Channels(c)}
                /\ \A y \in {aaf.maxSlots, Channels(c)} : m >= y
            BY <3>1
          <5> QED
            BY <5>1
        <4> QED
          BY <2>1, <4>1 DEF SlotsFor, Max
      <3> QED
        BY <3>1, <3>2
    <2>3. \A k \in 1..(aaf'.next - 1) : Channels(clips[k]) <= aaf'.maxSlots
      <3> SUFFICES ASSUME NEW k \in 1..(aaf'.next - 1)
                   PROVE  Channels(clips[k]) <= aaf'.maxSlots
        OBVIOUS
      <3>1. k \in 1..(aaf.next - 1) \/ k = aaf.next
        BY <1>1, <2>1
      <3>2. CASE k \in 1..(aaf.next - 1)
        <4>1. Channels(clips[k]) <= aaf.maxSlots /\ aaf.maxSlots \in Nat
          BY <1>1, <3>2 DEF AafInv, AafCounts
        <4>2. Channels(clips[k]) \in Nat
          BY <1>1, <3>2, ChannelsNat DEF AafInv
        <4> QED
          BY <2>2, <4>1, <4>2
      <3> QED
        BY <2>2, <3>1, <3>2
    <2>4. AafCounts'
      <3>1. aaf'.next \in 1..(Len(clips') + 1)
        BY <1>1, <2>1
      <3> QED
        BY <1>1, <2>1, <2>2, <2>3, <3>1 DEF AafInv, AafCounts, AafKeeps
    <2>5. AafLengths' /\ AafResolved'
      BY <1>1, <2>1 DEF AafInv, AafLengths, AafResolved, AafKeeps
    <2> QED
      BY <1>1, <2>1, <2>4, <2>5 DEF AafInv
  <1> QED
    BY <1>2, <1>3

LEMMA AafInvCompose ==
    ASSUME AafInv, AafCompose
    PROVE  AafInv'
  <1>1. /\ clips' = clips /\ AafFields(aaf) /\ aaf.phase = "read"
        /\ aaf.next = Len(clips) + 1 /\ Len(clips) \in Nat
    BY DEF AafInv, AafCompose, AafRunning, request
  <1>2. CASE ~Supported(edlFrameRate)
    <2>1. AafFail("UNSUPPORTED_FRAME_RATE")
      BY <1>2 DEF AafCompose
    <2> QED
      BY <1>1, <2>1, AafFailFields, AafInvKept
  <1>3. CASE Supported(edlFrameRate)
    <2>1. /\ AafFields(aaf') /\ AafKeeps /\ aaf'.next = 1 /\ aaf'.phase = "write"
          /\ aaf'.maxSlots = aaf.maxSlots
          /\ aaf'.audioLength = [s \in 1..aaf.maxSlots |-> 0]
      BY <1>1, <1>3, AafComposeFields
    <2>2. /\ aaf.maxSlots \in Nat /\ Len(aaf.video) = 0 /\ aaf.videoLength = 0
          /\ \A k \in 1..Len(clips) : Channels(clips[k]) <= aaf.maxSlots
          /\ \E S : aaf.video \in Seq(S)
      BY <1>1 DEF AafInv, AafCounts
    <2>3. AafCounts'
      <3>1. aaf'.next \in 1..(Len(clips') + 1) /\ Len(aaf'.video) = aaf'.next - 1
        BY <1>1, <2>1, <2>2 DEF AafKeeps
      <3> QED
        BY <1>1, <2>1, <2>2, <3>1 DEF AafCounts, AafKeeps
    <2>4. AafLengths'
      BY <2>1, <2>2 DEF AafLengths, AafKeeps
    <2>5. AafResolved'
      <3>1. aaf.refs = {}
        BY <1>1 DEF AafInv, AafCounts
      <3> QED
        BY <2>1, <3>1 DEF AafResolved, AafKeeps
    <2> QED
      BY <1>1, <2>1, <2>3, <2>4, <2>5 DEF AafInv
  <1> QED
    BY <1>2, <1>3

\* A clip whose tracks have at most one channel has a slot for each reference.
LEMMA ClipResolved ==
    ASSUME NEW k, NEW c \in Clips, c.nrAudioChannels <= 1
    PROVE  ClipRefs(k, c) \subseteq ClipSlots(k, c)
  <1>1. c.nrAudioTracks \in Nat /\ c.nrAudioChannels \in {0, 1}
    BY ClipsAssumption
  <1>2. Channels(c) \in Nat /\ Channels(c) <= c.nrAudioTracks
    BY <1>1 DEF Channels
  <1>3. \A z \in 1..Channels(c) : z \in 1..c.nrAudioTracks
    BY <1>1, <1>2
  <1>4. \A z \in 1..Channels(c) :
          {Slot(<<"tape", k>>, z + 1, "sound"), Slot(<<"audio file", k, z>>, 1, "sound"),
           Slot(<<"master", k>>, z + 1, "sound")} \subseteq ClipSlots(k, c)
    BY <1>3, Zenon DEF ClipSlots
  <1>5. {Slot(<<m, k>>, 1, "picture") : m \in {"tape", "video file", "master"}}
        \subseteq ClipSlots(k, c)
    BY Zenon DEF ClipSlots
  <1> QED
    BY <1>4, <1>5, Zenon DEF ClipRefs

\* The references of clip k are to mobs of clip k.
LEMMA ClipRefsOfClip ==
    ASSUME NEW k, NEW c, NEW r \in ClipRefs(k, c)
    PROVE  r.mob[2] = k
  <1>0. ASSUME NEW m, NEW s, NEW kind, r = Slot(<<m, k>>, s, kind)
        PROVE  r.mob[2] = k
    <2>1. r.mob = <<m, k>>
      BY <1>0 DEF Slot
    <2> QED
      BY <2>1
  <1>5. ASSUME NEW m, NEW z, NEW s, NEW kind, r = Slot(<<m, k, z>>, s, kind)
        PROVE  r.mob[2] = k
    <2>1. r.mob = <<m, k, z>>
      BY <1>5 DEF Slot
    <2> QED
      BY <2>1
  <1>1. CASE \E m \in {"tape", "video file", "master"} : r = Slot(<<m, k>>, 1, "picture")
    BY <1>0, <1>1, Zenon
  <1>2. CASE \E z \in 1..Channels(c) : r = Slot(<<"tape", k>>, z + 1, "sound")
    BY <1>0, <1>2, Zenon
  <1>3. CASE \E z \in 1..Channels(c) : r = Slot(<<"audio file", k, z>>, 1, "sound")
    BY <1>3, <1>5, Zenon
  <1>4. CASE \E z \in 1..Channels(c) : r = Slot(<<"master", k>>, z + 1, "sound")
    BY <1>0, <1>4, Zenon
  <1> QED
    BY <1>1, <1>2, <1>3, <1>4, Zenon DEF ClipRefs

LEMMA AafInvWrite ==
    ASSUME AafInv, AafWrite
    PROVE  AafInv'
  <1> DEFINE c == clips[aaf.next]
             n == aaf.next
             e == Component(ClipDuration(c))
  <1>1. /\ clips' = clips /\ AafFields(aaf) /\ aaf.phase = "write"
        /\ n \in 1..Len(clips) /\ Len(clips) \in Nat /\ c \in Clips
    BY DEF AafInv, AafCounts, AafWrite, AafRunning, request
  <1>2. CASE ~c.fits
    <2>1. AafFail("out_of_range")
      BY <1>2 DEF AafWrite
    <2> QED
      BY <1>1, <2>1, AafFailFields, AafInvKept
  <1>3. CASE c.fits
    <2>1. /\ AafFields(aaf') /\ aaf'.next = n + 1 /\ aaf'.phase = "write"
          /\ aaf'.maxSlots = aaf.maxSlots
          /\ aaf'.slots = aaf.slots \cup ClipSlots(n, c)
          /\ aaf'.refs = aaf.refs \cup ClipRefs(n, c)
          /\ aaf'.video = Append(aaf.video, e)
          /\ aaf'.videoLength = aaf.videoLength + ClipDuration(c)
          /\ aaf'.audioLength = Lengthened(aaf.audioLength, c, ClipDuration(c))
      BY <1>1, <1>3, AafWriteFields
    <2>2. PICK S : aaf.video \in Seq(S)
      BY DEF AafInv, AafCounts
    <2>3. /\ aaf.maxSlots \in Nat /\ Len(aaf.video) = n - 1
          /\ \A k \in 1..Len(clips) : Channels(clips[k]) <= aaf.maxSlots
      BY <1>1 DEF AafInv, AafCounts
    <2> HIDE DEF c, e, n
    <2>4. AafCounts'
      <3>1. aaf'.video \in Seq(S \cup {e}) /\ Len(aaf'.video) = Len(aaf.video) + 1
        BY <2>1, <2>2, AppendAny
      <3>2. \E T : aaf'.video \in Seq(T)
        BY <3>1
      <3>3. aaf'.next \in 1..(Len(clips') + 1) /\ Len(aaf'.video) = aaf'.next - 1
        BY <1>1, <2>1, <2>3, <3>1
      <3> QED
        BY <1>1, <2>1, <2>3, <3>2, <3>3 DEF AafCounts
    <2>5. AafLengths'
      <3>1. aaf.audioLength = [s \in 1..aaf.maxSlots |-> aaf.videoLength]
        BY <1>1 DEF AafInv, AafLengths
      <3>2. aaf'.audioLength = [s \in 1..aaf.maxSlots |-> aaf'.videoLength]
        BY <2>1, <3>1 DEF Lengthened
      <3> QED
        BY <2>1, <3>2 DEF AafLengths
    <2>6. AafResolved'
      <3> SUFFICES ASSUME NEW r \in aaf.refs \cup ClipRefs(n, c),
                          clips[r.mob[2]].nrAudioChannels <= 1
                   PROVE  r \in aaf.slots \cup ClipSlots(n, c)
        BY <1>1, <2>1 DEF AafResolved
      <3>1. CASE r \in aaf.refs
        BY <3>1 DEF AafInv, AafResolved
      <3>2. CASE r \in ClipRefs(n, c)
        <4>1. r.mob[2] = n
          BY <3>2, ClipRefsOfClip
        <4>2. c.nrAudioChannels <= 1
          BY <4>1 DEF c, n
        <4> QED
          BY <3>2, <4>2, <1>1, ClipResolved
      <3> QED
        BY <3>1, <3>2
    <2> QED
      BY <1>1, <2>1, <2>4, <2>5, <2>6 DEF AafInv
  <1> QED
    BY <1>2, <1>3

LEMMA AafInvSave ==
    ASSUME AafInv, AafSave
    PROVE  AafInv'
  <1>1. /\ clips' = clips /\ AafFields(aaf) /\ aaf.phase = "write"
        /\ aaf.next = Len(clips) + 1 /\ Len(clips) \in Nat
    BY DEF AafInv, AafSave, AafRunning, request
  <1>2. /\ AafFields(aaf') /\ AafKeeps /\ aaf'.next = aaf.next /\ aaf'.phase = "done"
        /\ aaf'.maxSlots = aaf.maxSlots
        /\ aaf'.audioLength = aaf.audioLength /\ aaf'.slots = aaf.slots
    BY <1>1, AafSaveFields
  <1>3. AafCounts'
    BY <1>1, <1>2 DEF AafInv, AafCounts, AafKeeps
  <1>4. AafLengths' /\ AafResolved'
    BY <1>1, <1>2 DEF AafInv, AafLengths, AafResolved, AafKeeps
  <1> QED
    BY <1>1, <1>2, <1>3, <1>4 DEF AafInv

LEMMA AafInvStep == AafInv /\ [AafNext]_<<request, aaf>> => AafInv'
  <1> SUFFICES ASSUME AafInv, [AafNext]_<<request, aaf>>
               PROVE  AafInv'
    OBVIOUS
  <1>1. CASE UNCHANGED <<request, aaf>>
    <2>1. clips' = clips /\ AafKeeps /\ aaf' = aaf
      BY <1>1 DEF request, AafKeeps
    <2>2. AafFields(aaf')
      BY <2>1 DEF AafInv
    <2> QED
      BY <2>1, <2>2, AafInvKept
  <1>2. CASE AafCallFails
    <2>1. clips' = clips /\ AafFields(aaf) /\ AafFail("GENERIC")
      BY <1>2 DEF AafInv, AafCallFails, request
    <2> QED
      BY <2>1, AafFailFields, AafInvKept
  <1> QED
    BY <1>1, <1>2, AafInvRead, AafInvCompose, AafInvWrite, AafInvSave DEF AafNext

LEMMA AafInvAlways == AafSpec => []AafInv
  BY AafInvInit, AafInvStep, PTL DEF AafSpec

\* The sequences of the composition are of one length after every clip, and there
\* is one for each channel of every clip.
THEOREM AafStaysAligned == AafSpec => []AafAligned
  <1>1. AafInv => AafAligned
    <2> SUFFICES ASSUME AafInv
                 PROVE  AafAligned
      OBVIOUS
    <2>1. CASE aaf.phase = "read"
      BY <2>1 DEF AafInv, AafLengths, AafAligned
    <2>2. CASE aaf.phase # "read"
      <3>1. aaf.audioLength = [s \in 1..aaf.maxSlots |-> aaf.videoLength]
            /\ aaf.maxSlots \in Nat
            /\ \A k \in 1..Len(clips) : Channels(clips[k]) <= aaf.maxSlots
        BY <2>2 DEF AafInv, AafCounts, AafLengths
      <3>2. Len(aaf.audioLength) = aaf.maxSlots
        BY <3>1
      <3> QED
        BY <3>1, <3>2 DEF AafAligned
    <2> QED
      BY <2>1, <2>2
  <1> QED
    BY <1>1, AafInvAlways, PTL

\* Every reference finds its slot, of the clips whose tracks have one channel.
THEOREM AafReferencesResolved == AafSpec => []AafResolved
  <1>1. AafInv => AafResolved
    BY DEF AafInv
  <1> QED
    BY <1>1, AafInvAlways, PTL

\* Save comes last, after no fault.
AafSavedLast ==
    aaf.saved \in BOOLEAN /\ (aaf.saved => aaf.fault = "none" /\ aaf.phase = "done")

LEMMA AafSavedLastStep ==
    AafInv /\ AafSavedLast /\ [AafNext]_<<request, aaf>> => AafSavedLast'
  <1> SUFFICES ASSUME AafInv, AafSavedLast, [AafNext]_<<request, aaf>>
               PROVE  AafSavedLast'
    OBVIOUS
  <1>1. AafFields(aaf)
    BY DEF AafInv
  <1>2. ASSUME aaf.phase # "done", aaf'.saved = aaf.saved
        PROVE  AafSavedLast'
    BY <1>2 DEF AafSavedLast
  <1>3. ASSUME NEW f, aaf.phase # "done", AafFail(f)
        PROVE  AafSavedLast'
    BY <1>1, <1>2, <1>3, AafFailFields
  <1>4. CASE UNCHANGED <<request, aaf>>
    BY <1>4 DEF AafSavedLast
  <1>5. CASE AafRead
    <2>1. aaf.phase # "done"
      BY <1>5 DEF AafRead, AafRunning
    <2>2. CASE ClipFault(clips[aaf.next]) = "none"
      BY <1>1, <1>2, <1>5, <2>1, <2>2, AafReadFields
    <2>3. CASE ClipFault(clips[aaf.next]) # "none"
      BY <1>3, <1>5, <2>1, <2>3 DEF AafRead
    <2> QED
      BY <2>2, <2>3
  <1>6. CASE AafCompose
    <2>1. aaf.phase # "done"
      BY <1>6 DEF AafCompose, AafRunning
    <2>2. CASE Supported(edlFrameRate)
      BY <1>1, <1>2, <1>6, <2>1, <2>2, AafComposeFields
    <2>3. CASE ~Supported(edlFrameRate)
      <3>1. AafFail("UNSUPPORTED_FRAME_RATE")
        BY <1>6, <2>3 DEF AafCompose
      <3> QED
        BY <1>3, <2>1, <3>1
    <2> QED
      BY <2>2, <2>3
  <1>7. CASE AafWrite
    <2>1. aaf.phase # "done"
      BY <1>7 DEF AafWrite, AafRunning
    <2>2. CASE clips[aaf.next].fits
      BY <1>1, <1>2, <1>7, <2>1, <2>2, AafWriteFields
    <2>3. CASE ~clips[aaf.next].fits
      BY <1>3, <1>7, <2>1, <2>3 DEF AafWrite
    <2> QED
      BY <2>2, <2>3
  <1>8. CASE AafCallFails
    BY <1>3, <1>8 DEF AafCallFails, AafRunning
  <1>9. CASE AafSave
    <2>1. aaf.fault = "none"
      BY <1>9 DEF AafSave, AafRunning
    <2> QED
      BY <1>1, <1>9, <2>1, AafSaveFields DEF AafSavedLast
  <1> QED
    BY <1>4, <1>5, <1>6, <1>7, <1>8, <1>9 DEF AafNext

LEMMA AafSavedLastAlways == AafSpec => []AafSavedLast
  <1>1. AafInit => AafSavedLast
    BY DEF AafInit, AafSavedLast
  <1> QED
    BY <1>1, AafInvAlways, AafSavedLastStep, PTL DEF AafSpec

AafVerdict == IF aaf.fault # "none" THEN "refused"
              ELSE IF aaf.saved THEN "done" ELSE "open"

LEMMA AafPlaces == AafInv /\ AafSavedLast /\ [AafNext]_<<request, aaf>>
                     => [AafPlaylist!Next]_(AafPlaylist!playlistVars)
  <1> SUFFICES ASSUME AafInv, AafSavedLast, [AafNext]_<<request, aaf>>
               PROVE  [AafPlaylist!Next]_(AafPlaylist!playlistVars)
    OBVIOUS
  <1>1. AafFields(aaf) /\ clips' = clips
    BY DEF AafInv, AafNext, AafRead, AafCompose, AafWrite, AafCallFails, AafSave, request
  <1>2. CASE UNCHANGED <<request, aaf>>
    BY <1>2 DEF request, AafPlaylist!playlistVars
  <1>3. ASSUME NEW f, f # "none", aaf.fault = "none", aaf.phase # "done", AafFail(f)
        PROVE  AafPlaylist!Refuse
    <2>1. AafKeeps /\ aaf'.fault = f
      BY <1>1, <1>3, AafFailFields
    <2>2. ~aaf.saved
      BY <1>3 DEF AafSavedLast
    <2> QED
      BY <1>1, <1>3, <2>1, <2>2 DEF AafPlaylist!Refuse, AafKeeps
  <1>4. CASE AafRead
    <2>1. aaf.fault = "none" /\ aaf.phase = "read"
      BY <1>4 DEF AafRead, AafRunning
    <2>2. CASE ClipFault(clips[aaf.next]) = "none"
      <3>1. AafKeeps /\ aaf'.fault = "none" /\ aaf'.saved = aaf.saved
        BY <1>1, <1>4, <2>1, <2>2, AafReadFields
      <3> QED
        BY <1>1, <2>1, <3>1 DEF AafPlaylist!playlistVars, AafKeeps
    <2>3. CASE ClipFault(clips[aaf.next]) # "none"
      <3>1. AafFail(ClipFault(clips[aaf.next]))
        BY <1>4, <2>3 DEF AafRead
      <3> QED
        BY <1>3, <2>1, <2>3, <3>1 DEF AafPlaylist!Next
    <2> QED
      BY <2>2, <2>3
  <1>5. CASE AafCompose
    <2>1. aaf.fault = "none" /\ aaf.phase = "read"
      BY <1>5 DEF AafCompose, AafRunning
    <2>2. CASE Supported(edlFrameRate)
      <3>1. AafKeeps /\ aaf'.fault = "none" /\ aaf'.saved = aaf.saved
        BY <1>1, <1>5, <2>1, <2>2, AafComposeFields
      <3> QED
        BY <1>1, <2>1, <3>1 DEF AafPlaylist!playlistVars, AafKeeps
    <2>3. CASE ~Supported(edlFrameRate)
      <3>1. AafFail("UNSUPPORTED_FRAME_RATE")
        BY <1>5, <2>3 DEF AafCompose
      <3> QED
        BY <1>3, <2>1, <3>1 DEF AafPlaylist!Next
    <2> QED
      BY <2>2, <2>3
  <1>6. CASE AafWrite
    <2> DEFINE c == clips[aaf.next]
    <2>1. /\ aaf.fault = "none" /\ aaf.phase = "write" /\ aaf.next \in 1..Len(clips)
          /\ Len(aaf.video) = aaf.next - 1 /\ Len(clips) \in Nat
      BY <1>6 DEF AafWrite, AafRunning, AafInv, AafCounts
    <2>2. CASE ~c.fits
      <3>1. AafFail("out_of_range")
        BY <1>6, <2>2 DEF AafWrite
      <3> QED
        BY <1>3, <2>1, <3>1 DEF AafPlaylist!Next
    <2>3. CASE c.fits
      <3>1. /\ aaf'.fault = "none" /\ aaf'.saved = aaf.saved
            /\ aaf'.video = Append(aaf.video, Component(ClipDuration(c)))
            /\ aaf'.videoLength = aaf.videoLength + ClipDuration(c)
        BY <1>1, <1>6, <2>1, <2>3, AafWriteFields
      <3>2. Component(ClipDuration(c)) = [from |-> Position(c, aaf.videoLength),
                                          to |-> Position(c, aaf'.videoLength)]
        BY <3>1 DEF Component, Position
      <3>3. Len(aaf.video) < Len(clips) /\ c = clips[Len(aaf.video) + 1]
        BY <2>1
      <3>4. AafVerdict = "open" /\ AafVerdict' = "open"
        BY <2>1, <3>1 DEF AafVerdict, AafSavedLast
      <3> HIDE DEF c
      <3> QED
        BY <1>1, <3>1, <3>2, <3>3, <3>4
        DEF AafPlaylist!Next, AafPlaylist!Place, AafVerdict
    <2> QED
      BY <2>2, <2>3
  <1>7. CASE AafCallFails
    BY <1>3, <1>7 DEF AafCallFails, AafRunning, AafPlaylist!Next
  <1>8. CASE AafSave
    <2>1. /\ aaf.fault = "none" /\ aaf.phase = "write" /\ aaf.next = Len(clips) + 1
          /\ Len(aaf.video) = aaf.next - 1 /\ Len(clips) \in Nat
      BY <1>8 DEF AafSave, AafRunning, AafInv, AafCounts
    <2>2. AafKeeps /\ aaf'.fault = "none" /\ aaf'.saved \in BOOLEAN
      BY <1>1, <1>8, <2>1, AafSaveFields
    <2>3. ~aaf.saved
      BY <2>1 DEF AafSavedLast
    <2>4. CASE aaf'.saved
      BY <1>1, <2>1, <2>2, <2>3, <2>4 DEF AafPlaylist!Next, AafPlaylist!Finish, AafKeeps
    <2>5. CASE ~aaf'.saved
      BY <1>1, <2>1, <2>2, <2>3, <2>5 DEF AafPlaylist!playlistVars, AafKeeps
    <2> QED
      BY <2>2, <2>4, <2>5
  <1> QED
    BY <1>2, <1>4, <1>5, <1>6, <1>7, <1>8 DEF AafNext

\* The picture of the composition is a playlist of the request, whatever call of
\* the library fails while it is built; a file that Save and Close wrote has a
\* component for every clip, of one they failed to write nothing is said.
THEOREM AafImplementsPlaylist == AafSpec => AafPlays
  <1>1. RequestInit /\ AafInit => AafPlaylist!Init
    BY DEF AafInit, AafPlaylist!Init
  <1> QED
    BY <1>1, AafInvAlways, AafSavedLastAlways, AafPlaces, PTL DEF AafSpec, AafPlays, AafPlaylist!Spec

-----------------------------------------------------------------------------
(* The three plugins refuse alike                                             *)

LEMMA SameClipFault ==
    ASSUME NEW c
    PROVE  FcClipFault(c) = CmxClipFault(c)
  BY DEF FcClipFault, CmxClipFault

\* What a call has thrown that has gone through the clips before next, and was
\* not refused for one of them: the first reason there is.
Refusal(fault, next) ==
    /\ next = 0 /\ fault # "none" =>
         fault = "UNSUPPORTED_FRAME_RATE" /\ ~Supported(edlFrameRate)
    /\ next # 0 => Supported(edlFrameRate)
    /\ \A k \in 1..(next - 1) : CmxClipFault(clips[k]) = "none"
    /\ next # 0 /\ fault # "none" =>
         next \in 1..Len(clips) /\ fault = CmxClipFault(clips[next])

\* One clip more.
LEMMA RefusalOfNext ==
    ASSUME NEW next \in Nat \ {0}, Refusal("none", next), CmxClipFault(clips[next]) = "none"
    PROVE  Refusal("none", next + 1)
  <1>1. \A k \in 1..(next + 1 - 1) : k \in 1..(next - 1) \/ k = next
    OBVIOUS
  <1> QED
    BY <1>1 DEF Refusal

CmxRefusal == Refusal(cmx.fault, cmx.next)

LEMMA CmxRefusalInit == RequestInit /\ CmxInit => CmxRefusal
  BY DEF CmxInit, CmxRefusal, Refusal

LEMMA CmxRefusalStep ==
    CmxInv /\ CmxRefusal /\ [CmxNext]_<<request, cmx>> => CmxRefusal'
  <1> SUFFICES ASSUME CmxInv, CmxRefusal, [CmxNext]_<<request, cmx>>
               PROVE  CmxRefusal'
    OBVIOUS
  <1>1. CmxFields(cmx) /\ clips' = clips /\ edlFrameRate' = edlFrameRate
    BY DEF CmxInv, CmxNext, CmxHeader, CmxClip, CmxReturn, request
  <1>2. CASE UNCHANGED <<request, cmx>>
    BY <1>1, <1>2 DEF CmxRefusal, Refusal
  <1>3. CASE CmxHeader
    <2>1. cmx.next = 0 /\ cmx.fault = "none"
      BY <1>1, <1>3, CmxHeaderFields
    <2>2. CASE Supported(edlFrameRate)
      <3>1. cmx'.next = 1 /\ cmx'.fault = "none"
        BY <1>1, <1>3, <2>1, <2>2 DEF CmxHeader, CmxFields
      <3> QED
        BY <1>1, <2>2, <3>1 DEF CmxRefusal, Refusal
    <2>3. CASE ~Supported(edlFrameRate)
      <3>1. cmx'.next = 0 /\ cmx'.fault = "UNSUPPORTED_FRAME_RATE"
        BY <1>1, <1>3, <2>1, <2>3 DEF CmxHeader, CmxFields
      <3> QED
        BY <1>1, <2>3, <3>1 DEF CmxRefusal, Refusal
    <2> QED
      BY <2>2, <2>3
  <1>4. CASE CmxClip
    <2> DEFINE c == clips[cmx.next]
    <2>1. cmx.next \in 1..Len(clips) /\ cmx.fault = "none" /\ cmx.next \in Nat \ {0}
      BY <1>1, <1>4, CmxClipFields DEF CmxInv
    <2>2. Refusal("none", cmx.next)
      BY <2>1 DEF CmxRefusal
    <2>3. CASE CmxClipFault(c) = "none"
      <3>1. cmx'.next = cmx.next + 1 /\ cmx'.fault = "none"
        BY <1>1, <1>4, <2>1, <2>3 DEF CmxClip, CmxAdd, CmxFields
      <3>2. Refusal("none", cmx.next + 1)
        BY <2>1, <2>2, <2>3, RefusalOfNext
      <3> QED
        BY <1>1, <3>1, <3>2 DEF CmxRefusal, Refusal
    <2>4. CASE CmxClipFault(c) # "none"
      <3>1. cmx'.next = cmx.next /\ cmx'.fault = CmxClipFault(c)
        BY <1>1, <1>4, <2>4 DEF CmxClip, CmxFields
      <3> QED
        BY <1>1, <2>1, <2>2, <3>1 DEF CmxRefusal, Refusal
    <2> QED
      BY <2>3, <2>4
  <1>5. CASE CmxReturn
    <2>1. cmx'.next = cmx.next /\ cmx'.fault = cmx.fault
      BY <1>1, <1>5, CmxReturnFields
    <2> QED
      BY <1>1, <2>1 DEF CmxRefusal, Refusal
  <1> QED
    BY <1>2, <1>3, <1>4, <1>5 DEF CmxNext

\* Past the video section every clip was taken.
FcRefusal ==
    /\ fcp.section = "video" => Refusal(fcp.fault, fcp.next)
    /\ fcp.section # "video" => Refusal("none", Len(clips) + 1) /\ fcp.fault = "none"

LEMMA FcRefusalInit == RequestInit /\ FcInit => FcRefusal
  BY DEF FcInit, FcRefusal, Refusal

LEMMA FcRefusalStep ==
    FcInv /\ FcRefusal /\ [FcNext]_<<request, fcp>> => FcRefusal'
  <1> SUFFICES ASSUME FcInv, FcRefusal, [FcNext]_<<request, fcp>>
               PROVE  FcRefusal'
    OBVIOUS
  <1>1. FcFields(fcp) /\ clips' = clips /\ edlFrameRate' = edlFrameRate
    BY DEF FcInv, FcNext, FcHeader, FcClip, FcAudio, FcAudioClip, FcEnd, request
  <1>2. CASE UNCHANGED <<request, fcp>>
    BY <1>1, <1>2 DEF FcRefusal, Refusal
  <1>3. CASE FcHeader
    <2>1. fcp.next = 0 /\ fcp.fault = "none" /\ fcp.section = "video"
      BY <1>3 DEF FcHeader, FcRunning
    <2>2. CASE Supported(edlFrameRate)
      <3>1. fcp'.next = 1 /\ fcp'.fault = "none" /\ fcp'.section = "video"
        BY <1>1, <1>3, <2>1, <2>2, FcHeaderFields
      <3> QED
        BY <1>1, <2>2, <3>1 DEF FcRefusal, Refusal
    <2>3. CASE ~Supported(edlFrameRate)
      <3>1. FcFail("UNSUPPORTED_FRAME_RATE")
        BY <1>3, <2>3 DEF FcHeader
      <3>2. fcp'.next = 0 /\ fcp'.fault = "UNSUPPORTED_FRAME_RATE" /\ fcp'.section = "video"
        BY <1>1, <2>1, <3>1, FcFailFields
      <3> QED
        BY <1>1, <2>3, <3>2 DEF FcRefusal, Refusal
    <2> QED
      BY <2>2, <2>3
  <1>4. CASE FcClip
    <2> DEFINE c == clips[fcp.next]
    <2>1. /\ fcp.next \in 1..Len(clips) /\ fcp.fault = "none" /\ fcp.section = "video"
          /\ fcp.next \in Nat \ {0}
      BY <1>4 DEF FcClip, FcRunning, FcInv
    <2>2. Refusal("none", fcp.next)
      BY <2>1 DEF FcRefusal
    <2>3. CASE FcClipFault(c) = "none"
      <3>1. fcp'.next = fcp.next + 1 /\ fcp'.fault = "none" /\ fcp'.section = "video"
        BY <1>1, <1>4, <2>1, <2>3, FcClipFields
      <3>2. Refusal("none", fcp.next + 1)
        BY <2>1, <2>2, <2>3, SameClipFault, RefusalOfNext
      <3> QED
        BY <1>1, <3>1, <3>2 DEF FcRefusal, Refusal
    <2>4. CASE FcClipFault(c) # "none"
      <3>1. FcFail(FcClipFault(c))
        BY <1>4, <2>4 DEF FcClip
      <3>2. fcp'.next = fcp.next /\ fcp'.fault = CmxClipFault(c) /\ fcp'.section = "video"
        BY <1>1, <2>1, <3>1, FcFailFields, SameClipFault
      <3> QED
        BY <1>1, <2>1, <2>2, <3>2 DEF FcRefusal, Refusal
    <2> QED
      BY <2>3, <2>4
  <1>5. CASE FcAudio
    <2>1. /\ fcp.next = Len(clips) + 1 /\ fcp.fault = "none" /\ fcp.section = "video"
          /\ fcp'.fault = "none" /\ fcp'.section = "audio"
      BY <1>1, <1>5, FcAudioFields DEF FcAudio, FcRunning
    <2> QED
      BY <1>1, <2>1 DEF FcRefusal, Refusal
  <1>6. CASE FcAudioClip
    <2>1. fcp.section = "audio" /\ fcp'.fault = fcp.fault /\ fcp'.section = "audio"
      BY <1>1, <1>6, FcAudioClipFields DEF FcAudioClip, FcRunning
    <2> QED
      BY <1>1, <2>1 DEF FcRefusal, Refusal
  <1>7. CASE FcEnd
    <2>1. fcp.section = "audio" /\ fcp'.fault = fcp.fault /\ fcp'.section = "done"
      BY <1>1, <1>7, FcEndFields DEF FcEnd, FcRunning
    <2> QED
      BY <1>1, <2>1 DEF FcRefusal, Refusal
  <1> QED
    BY <1>2, <1>3, <1>4, <1>5, <1>6, <1>7 DEF FcNext

\* Why the AAF plugin refuses, when its library does not fail.
AafRefusal ==
    aaf.fault \in {"none", "GENERIC"} \/ ~Supported(edlFrameRate)
    \/ \E k \in 1..Len(clips) : ClipFault(clips[k]) # "none" \/ ~clips[k].fits

LEMMA AafRefusalInit == RequestInit /\ AafInit => AafRefusal
  BY DEF AafInit, AafRefusal

LEMMA AafRefusalStep ==
    AafInv /\ AafRefusal /\ [AafNext]_<<request, aaf>> => AafRefusal'
  <1> SUFFICES ASSUME AafInv, AafRefusal, [AafNext]_<<request, aaf>>
               PROVE  AafRefusal'
    OBVIOUS
  <1>1. AafFields(aaf) /\ clips' = clips /\ edlFrameRate' = edlFrameRate
    BY DEF AafInv, AafNext, AafRead, AafCompose, AafWrite, AafCallFails, AafSave, request
  <1>2. SUFFICES ASSUME aaf'.fault # aaf.fault
                 PROVE  AafRefusal'
    BY <1>1 DEF AafRefusal
  <1>3. CASE UNCHANGED <<request, aaf>>
    BY <1>2, <1>3
  <1>4. CASE AafRead
    <2>1. aaf.next \in 1..Len(clips)
      BY <1>4 DEF AafRead, AafInv, AafCounts
    <2>2. ClipFault(clips[aaf.next]) # "none"
      BY <1>1, <1>2, <1>4, AafReadFields
    <2> QED
      BY <1>1, <2>1, <2>2 DEF AafRefusal
  <1>5. CASE AafCompose
    <2>1. ~Supported(edlFrameRate)
      BY <1>1, <1>2, <1>5, AafComposeFields
    <2> QED
      BY <1>1, <2>1 DEF AafRefusal, Supported
  <1>6. CASE AafWrite
    <2>1. aaf.next \in 1..Len(clips)
      BY <1>6 DEF AafWrite, AafInv, AafCounts
    <2>2. ~clips[aaf.next].fits
      BY <1>1, <1>2, <1>6, AafWriteFields
    <2> QED
      BY <1>1, <2>1, <2>2 DEF AafRefusal
  <1>7. CASE AafCallFails
    <2>1. AafFail("GENERIC")
      BY <1>7 DEF AafCallFails
    <2>2. aaf'.fault = "GENERIC"
      BY <1>1, <2>1, AafFailFields
    <2> QED
      BY <2>2 DEF AafRefusal
  <1>8. CASE AafSave
    BY <1>1, <1>2, <1>8, AafSaveFields
  <1> QED
    BY <1>3, <1>4, <1>5, <1>6, <1>7, <1>8 DEF AafNext

\* CMX3600 and FinalCut refuse the same requests for the same reason; what they
\* take the AAF plugin takes, unless a number only it reads does not fit or its
\* library fails.
THEOREM WritersAgree == WSpec => []SameVerdict
  <1>1. ASSUME CmxInv, FcInv, CmxRefusal, FcRefusal, AafRefusal
        PROVE  SameVerdict
    <2> SUFFICES ASSUME CmxEnded, FcEnded, AafEnded
                 PROVE  /\ cmx.fault = fcp.fault
                        /\ cmx.fault = "none" /\ (\A k \in 1..Len(clips) : clips[k].fits)
                             => aaf.fault \in {"none", "GENERIC"}
      BY DEF SameVerdict
    <2>1. /\ cmx.next \in 0..(Len(clips) + 1) /\ Len(clips) \in Nat
          /\ fcp.section = "video" => fcp.next \in 0..(Len(clips) + 1)
      BY <1>1 DEF CmxInv, CmxCounts, FcInv, FcCounts
    <2>2. CASE cmx.fault = "none"
      <3>1. cmx.next = Len(clips) + 1
        BY <1>1, <2>2 DEF CmxEnded, CmxRunning, CmxInv, CmxCounts
      <3>2. Supported(edlFrameRate) /\ \A k \in 1..Len(clips) : CmxClipFault(clips[k]) = "none"
        BY <1>1, <2>1, <3>1 DEF CmxRefusal, Refusal
      <3>3. \A k \in 1..Len(clips) : ClipFault(clips[k]) = "none"
        BY <3>2 DEF CmxClipFault
      <3>4. fcp.fault = "none"
        BY <1>1, <3>2 DEF FcRefusal, Refusal
      <3> QED
        BY <1>1, <2>2, <3>2, <3>3, <3>4 DEF AafRefusal
    <2>3. CASE cmx.fault # "none" /\ cmx.next = 0
      <3>1. cmx.fault = "UNSUPPORTED_FRAME_RATE" /\ ~Supported(edlFrameRate)
        BY <1>1, <2>3 DEF CmxRefusal, Refusal
      <3>2. fcp.section = "video" /\ fcp.next = 0
        BY <1>1, <2>1, <3>1 DEF FcRefusal, Refusal
      <3>3. fcp.fault # "none"
        BY <3>2 DEF FcEnded
      <3> QED
        BY <1>1, <2>3, <3>1, <3>2, <3>3 DEF FcRefusal, Refusal
    <2>4. CASE cmx.fault # "none" /\ cmx.next # 0
      <3>1. /\ Supported(edlFrameRate) /\ cmx.next \in 1..Len(clips)
            /\ cmx.fault = CmxClipFault(clips[cmx.next])
            /\ \A k \in 1..(cmx.next - 1) : CmxClipFault(clips[k]) = "none"
        BY <1>1, <2>4 DEF CmxRefusal, Refusal
      <3>2. fcp.section = "video"
        <4>1. SUFFICES ASSUME fcp.section # "video"
                       PROVE  FALSE
          OBVIOUS
        <4>2. \A k \in 1..Len(clips) : CmxClipFault(clips[k]) = "none"
          BY <1>1, <2>1, <4>1 DEF FcRefusal, Refusal
        <4> QED
          BY <2>4, <3>1, <4>2
      <3>3. fcp.fault # "none"
        BY <3>2 DEF FcEnded
      <3>4. /\ fcp.next \in 1..Len(clips) /\ fcp.fault = CmxClipFault(clips[fcp.next])
            /\ \A k \in 1..(fcp.next - 1) : CmxClipFault(clips[k]) = "none"
        BY <1>1, <3>1, <3>2, <3>3 DEF FcRefusal, Refusal
      <3>5. cmx.next = fcp.next
        BY <2>1, <2>4, <3>1, <3>3, <3>4
      <3> QED
        BY <2>4, <3>1, <3>4, <3>5
    <2> QED
      BY <2>2, <2>3, <2>4
  <1>2. CmxSpec => []CmxInv
    BY CmxInvInit, CmxInvStep, PTL DEF CmxSpec
  <1>3. CmxSpec => []CmxRefusal
    BY <1>2, CmxRefusalInit, CmxRefusalStep, PTL DEF CmxSpec
  <1>4. FcSpec => []FcRefusal
    BY FcInvAlways, FcRefusalInit, FcRefusalStep, PTL DEF FcSpec
  <1>5. AafSpec => []AafRefusal
    BY AafInvAlways, AafRefusalInit, AafRefusalStep, PTL DEF AafSpec
  <1> QED
    BY <1>1, <1>2, <1>3, <1>4, <1>5, FcInvAlways, WritersRunEach, PTL

-----------------------------------------------------------------------------
(* The three plugins number alike                                             *)

\* The two ways to say that a rate is drop frame, of a rate both know.
LEMMA DropFrameAlike ==
    ASSUME NEW rate, Supported(rate), KnownRatio(rate), NEW before
    PROVE  DropOr(rate, before) = IsDropFrame(rate)
  <1>1. \/ rate.numerator = 1 /\ rate.denominator = 1
        \/ rate.numerator = 1000 /\ rate.denominator = 1001
    BY DEF KnownRatio
  <1>2. CASE rate.item \in {25, 50}
    BY <1>2 DEF DropOr, IsDropFrame
  <1>3. CASE rate.item \in {24, 30, 60}
    <2>1. DropOr(rate, before) = (rate.denominator = 1001)
      <3>1. rate.item \notin {25, 50}
        BY <1>3
      <3> QED
        BY <3>1, Zenon DEF DropOr
    <2>2. IsDropFrame(rate) <=> rate.denominator = 1001
      BY <1>1, <1>3 DEF IsDropFrame
    <2>3. IsDropFrame(rate) \in BOOLEAN
      BY DEF IsDropFrame
    <2> QED
      BY <2>1, <2>2, <2>3
  <1>4. rate.item \in {25, 50} \/ rate.item \in {24, 30, 60}
    BY DEF Supported
  <1> QED
    BY <1>2, <1>3, <1>4

CmxNumbering == cmx.next # 0 => cmx.dropFrame = IsDropFrame(edlFrameRate)

LEMMA CmxNumberingStep ==
    CmxInv /\ CmxNumbering /\ [CmxNext]_<<request, cmx>> => CmxNumbering'
  <1> SUFFICES ASSUME CmxInv, CmxNumbering, [CmxNext]_<<request, cmx>>
               PROVE  CmxNumbering'
    OBVIOUS
  <1>1. CmxFields(cmx) /\ edlFrameRate' = edlFrameRate
    BY DEF CmxInv, CmxNext, CmxHeader, CmxClip, CmxReturn, request
  <1>2. CASE UNCHANGED <<request, cmx>>
    BY <1>1, <1>2 DEF CmxNumbering
  <1>3. CASE CmxHeader
    <2>1. \/ cmx'.dropFrame = IsDropFrame(edlFrameRate)
          \/ cmx'.next = cmx.next /\ cmx.next = 0
      BY <1>1, <1>3 DEF CmxHeader, CmxFields
    <2> QED
      BY <1>1, <2>1 DEF CmxNumbering
  <1>4. CASE CmxClip
    <2>1. cmx.next # 0
      BY <1>1, <1>4, CmxClipFields
    <2>2. cmx'.dropFrame = cmx.dropFrame
      BY <1>1, <1>4 DEF CmxClip, CmxAdd, CmxFields
    <2> QED
      BY <1>1, <2>1, <2>2 DEF CmxNumbering
  <1>5. CASE CmxReturn
    <2>1. cmx'.dropFrame = cmx.dropFrame /\ cmx'.next = cmx.next
      BY <1>1, <1>5 DEF CmxReturn, CmxFields
    <2> QED
      BY <1>1, <2>1 DEF CmxNumbering
  <1> QED
    BY <1>2, <1>3, <1>4, <1>5 DEF CmxNext

\* The sequence's numbering once the head is written, and that of each clip, which
\* depends on the clips before it when its ratio is not known.
FcNumbering ==
    /\ fcp.section # "video" \/ fcp.next # 0 => fcp.dropFrame = DropOr(edlFrameRate, FALSE)
    /\ \A k \in 1..Len(fcp.video) :
         /\ Supported(clips[k].rate)
         /\ \E before : fcp.video[k].ntsc = DropOr(clips[k].rate, before)

LEMMA FcNumberingStep ==
    FcInv /\ FcNumbering /\ [FcNext]_<<request, fcp>> => FcNumbering'
  <1> SUFFICES ASSUME FcInv, FcNumbering, [FcNext]_<<request, fcp>>
               PROVE  FcNumbering'
    OBVIOUS
  <1>1. FcFields(fcp) /\ clips' = clips /\ edlFrameRate' = edlFrameRate
    BY DEF FcInv, FcNext, FcHeader, FcClip, FcAudio, FcAudioClip, FcEnd, request
  <1>2. ASSUME fcp'.video = fcp.video, fcp'.dropFrame = fcp.dropFrame,
               fcp'.section # "video" \/ fcp'.next # 0 => fcp.section # "video" \/ fcp.next # 0
        PROVE  FcNumbering'
    BY <1>1, <1>2 DEF FcNumbering
  <1>3. CASE UNCHANGED <<request, fcp>>
    BY <1>2, <1>3
  <1>4. ASSUME NEW f, FcFail(f)
        PROVE  FcNumbering'
    <2>1. fcp'.dropFrame = fcp.dropFrame
      BY <1>1, <1>4 DEF FcFail, FcFields
    <2>2. fcp'.video = fcp.video /\ fcp'.section = fcp.section /\ fcp'.next = fcp.next
      BY <1>1, <1>4, FcFailFields DEF FcKeeps
    <2> QED
      BY <1>2, <2>1, <2>2
  <1>5. CASE FcHeader
    <2>1. CASE Supported(edlFrameRate)
      <3>1. fcp'.dropFrame = DropOr(edlFrameRate, FALSE)
        BY <1>1, <1>5, <2>1 DEF FcHeader, ProcessFrameRate, FcFields
      <3>2. fcp'.video = fcp.video
        BY <1>1, <1>5, <2>1, FcHeaderFields DEF FcKeeps
      <3> QED
        BY <1>1, <3>1, <3>2 DEF FcNumbering
    <2>2. CASE ~Supported(edlFrameRate)
      BY <1>4, <1>5, <2>2 DEF FcHeader
    <2> QED
      BY <2>1, <2>2
  <1>6. CASE FcClip
    <2> DEFINE c == clips[fcp.next]
               n == Len(fcp.video)
    <2>1. CASE FcClipFault(c) # "none"
      BY <1>4, <1>6, <2>1 DEF FcClip
    <2>2. CASE FcClipFault(c) = "none"
      <3>1. /\ fcp'.section = fcp.section /\ fcp'.next = fcp.next + 1
            /\ fcp'.video = Append(fcp.video, FcItem(c))
        BY <1>1, <1>6, <2>2, FcClipFields
      <3>2. fcp'.dropFrame = fcp.dropFrame
        BY <1>1, <1>6, <2>2 DEF FcClip, FcFields
      <3>3. fcp.section = "video" /\ fcp.next \in 1..Len(clips)
        BY <1>6 DEF FcClip, FcRunning
      <3>4. PICK S : fcp.video \in Seq(S)
        BY DEF FcInv, FcCounts
      <3>5. n \in Nat /\ n + 1 = fcp.next
        BY <3>3, <3>4 DEF FcInv, FcCounts
      <3>6. /\ Len(fcp'.video) = n + 1
            /\ \A k \in 1..n : fcp'.video[k] = fcp.video[k]
            /\ fcp'.video[n + 1] = FcItem(c)
        BY <3>1, <3>4, AppendAny
      <3>7. Supported(c.rate)
        BY <2>2 DEF FcClipFault
      <3>8. FcItem(c).ntsc = DropOr(c.rate, fcp.isDropFrame)
        BY DEF FcItem, ProcessFrameRate
      <3>9. \A k \in 1..(n + 1) :
               /\ Supported(clips[k].rate)
               /\ \E before : fcp'.video[k].ntsc = DropOr(clips[k].rate, before)
        <4> SUFFICES ASSUME NEW k \in 1..(n + 1)
                     PROVE  /\ Supported(clips[k].rate)
                            /\ \E before : fcp'.video[k].ntsc = DropOr(clips[k].rate, before)
          OBVIOUS
        <4>1. CASE k = n + 1
          BY <4>1, <3>5, <3>6, <3>7, <3>8
        <4>2. CASE k \in 1..n
          BY <4>2, <3>6 DEF FcNumbering
        <4> QED
          BY <3>5, <4>1, <4>2
      <3>10. fcp.next # 0
        BY <3>3
      <3> QED
        BY <1>1, <3>2, <3>6, <3>9, <3>10 DEF FcNumbering
    <2> QED
      BY <2>1, <2>2
  <1>7. CASE FcAudio
    <2>1. fcp.next # 0 /\ fcp'.video = fcp.video
      BY <1>1, <1>7, FcAudioFields DEF FcAudio, FcKeeps, FcInv
    <2>2. fcp'.dropFrame = fcp.dropFrame
      BY <1>1, <1>7 DEF FcAudio, FcFields
    <2> QED
      BY <1>2, <2>1, <2>2
  <1>8. CASE FcAudioClip
    <2>1. fcp.section # "video" /\ fcp'.video = fcp.video
      BY <1>1, <1>8, FcAudioClipFields DEF FcAudioClip, FcRunning
    <2>2. fcp'.dropFrame = fcp.dropFrame
      BY <1>1, <1>8 DEF FcAudioClip, FcFields
    <2> QED
      BY <1>2, <2>1, <2>2
  <1>9. CASE FcEnd
    <2>1. fcp.section # "video" /\ fcp'.video = fcp.video
      BY <1>1, <1>9, FcEndFields DEF FcEnd, FcRunning, FcKeeps
    <2>2. fcp'.dropFrame = fcp.dropFrame
      BY <1>1, <1>9 DEF FcEnd, FcFields
    <2> QED
      BY <1>2, <2>1, <2>2
  <1> QED
    BY <1>3, <1>5, <1>6, <1>7, <1>8, <1>9 DEF FcNext

\* Once the composition is begun its rate is supported; what isDrop was read as
\* only matters when the ratio is not known.
AafNumbering ==
    aaf.phase # "read" =>
        /\ Supported(edlFrameRate)
        /\ \E before : /\ KnownRatio(edlFrameRate) => before = FALSE
                       /\ aaf.isDrop = DropOr(edlFrameRate, before)

LEMMA AafNumberingStep ==
    AafInv /\ AafNumbering /\ [AafNext]_<<request, aaf>> => AafNumbering'
  <1> SUFFICES ASSUME AafInv, AafNumbering, [AafNext]_<<request, aaf>>
               PROVE  AafNumbering'
    OBVIOUS
  <1>1. AafFields(aaf) /\ edlFrameRate' = edlFrameRate
    BY DEF AafInv, AafNext, AafRead, AafCompose, AafWrite, AafCallFails, AafSave, request
  <1>2. ASSUME aaf'.isDrop = aaf.isDrop, aaf.phase = "read" => aaf'.phase = "read"
        PROVE  AafNumbering'
    BY <1>1, <1>2 DEF AafNumbering
  <1>3. CASE UNCHANGED <<request, aaf>>
    BY <1>2, <1>3
  <1>4. ASSUME NEW f, AafFail(f)
        PROVE  AafNumbering'
    BY <1>1, <1>2, <1>4, AafFailFields
  <1>5. CASE AafRead
    <2>1. CASE ClipFault(clips[aaf.next]) = "none"
      BY <1>1, <1>2, <1>5, <2>1, AafReadFields
    <2>2. CASE ClipFault(clips[aaf.next]) # "none"
      BY <1>4, <1>5, <2>2 DEF AafRead
    <2> QED
      BY <2>1, <2>2
  <1>6. CASE AafCompose
    <2>1. CASE Supported(edlFrameRate)
      <3>1. \E b : /\ KnownRatio(edlFrameRate) => b = FALSE
                  /\ aaf'.isDrop = DropOr(edlFrameRate, b)
        BY <1>1, <1>6, <2>1, AafComposeFields
      <3> QED
        BY <1>1, <2>1, <3>1, Zenon DEF AafNumbering
    <2>2. CASE ~Supported(edlFrameRate)
      BY <1>4, <1>6, <2>2 DEF AafCompose
    <2> QED
      BY <2>1, <2>2
  <1>7. CASE AafWrite
    <2>1. CASE clips[aaf.next].fits
      BY <1>1, <1>2, <1>7, <2>1, AafWriteFields
    <2>2. CASE ~clips[aaf.next].fits
      BY <1>4, <1>7, <2>2 DEF AafWrite
    <2> QED
      BY <2>1, <2>2
  <1>8. CASE AafCallFails
    BY <1>4, <1>8 DEF AafCallFails
  <1>9. CASE AafSave
    <2>1. aaf.phase = "write"
      BY <1>9 DEF AafSave, AafRunning
    <2> QED
      BY <1>1, <1>2, <1>9, <2>1, AafSaveFields
  <1> QED
    BY <1>3, <1>5, <1>6, <1>7, <1>8, <1>9 DEF AafNext

\* Of a rate whose ratio is known the three EDLs are drop frame alike, and a clip's
\* picture whatever came before it.
THEOREM WritersNumberAlike == WSpec => []SameNumbering
  <1>1. ASSUME CmxInv, CmxNumbering, FcInv, FcNumbering, AafNumbering
        PROVE  SameNumbering
    <2>1. ASSUME KnownRatio(edlFrameRate), cmx.next > 0, fcp.next > 0, aaf.phase # "read"
          PROVE  cmx.dropFrame = fcp.dropFrame /\ fcp.dropFrame = aaf.isDrop
      <3>1. Supported(edlFrameRate)
        BY <1>1, <2>1 DEF AafNumbering
      <3>2. cmx.dropFrame = IsDropFrame(edlFrameRate)
        BY <1>1, <2>1 DEF CmxNumbering, CmxInv, CmxCounts
      <3>3. fcp.dropFrame = DropOr(edlFrameRate, FALSE)
        <4>1. fcp.section # "video" \/ fcp.next # 0
          BY <1>1, <2>1 DEF FcInv, FcCounts
        <4> QED
          BY <1>1, <4>1 DEF FcNumbering
      <3>4. \E before : aaf.isDrop = DropOr(edlFrameRate, before)
        BY <1>1, <2>1 DEF AafNumbering
      <3> QED
        BY <2>1, <3>1, <3>2, <3>3, <3>4, DropFrameAlike
    <2>2. \A k \in 1..Len(fcp.video) :
             KnownRatio(clips[k].rate) => fcp.video[k].ntsc = IsDropFrame(clips[k].rate)
      BY <1>1, DropFrameAlike DEF FcNumbering
    <2> QED
      BY <2>1, <2>2, Zenon DEF SameNumbering
  <1>2. CmxSpec => []CmxInv
    BY CmxInvInit, CmxInvStep, PTL DEF CmxSpec
  <1>3. RequestInit /\ CmxInit => CmxNumbering
    BY DEF CmxInit, CmxNumbering
  <1>4. RequestInit /\ FcInit => FcNumbering
    BY DEF FcInit, FcNumbering
  <1>5. RequestInit /\ AafInit => AafNumbering
    BY DEF AafInit, AafNumbering
  <1>6. CmxSpec => []CmxNumbering
    BY <1>2, <1>3, CmxNumberingStep, PTL DEF CmxSpec
  <1>7. FcSpec => []FcNumbering
    BY <1>4, FcInvAlways, FcNumberingStep, PTL DEF FcSpec
  <1>8. AafSpec => []AafNumbering
    BY <1>5, AafInvAlways, AafNumberingStep, PTL DEF AafSpec
  <1> QED
    BY <1>1, <1>2, <1>6, <1>7, <1>8, FcInvAlways, WritersRunEach, PTL

-----------------------------------------------------------------------------
(* Times in frames, and their labels                                          *)

LEMMA RateIsSeed ==
    ASSUME NEW rate \in Rational, NEW drop \in BOOLEAN
    PROVE  LET t == InitRate(RoundedBase(FrameRateNum(rate), rate.denominator), drop)
           IN  /\ Seeded(t)
               /\ t = Invalid \/ Rated(t)
  <1> DEFINE n == FrameRateNum(rate)
             d == rate.denominator
             b == RoundedBase(n, d)
  <1>1. n \in Nat /\ d \in Nat \ {0}
    BY DEF Rational, FrameRateNum
  <1>2. b \in Nat
    <2>1. 2 \in Nat \ {0} /\ d \in Int /\ d \div 2 \in Nat
      BY <1>1
    <2>2. n + (d \div 2) \in Nat
      BY <1>1, <2>1
    <2> HIDE DEF n, d
    <2> QED
      BY <1>1, <2>2, QuotientIsNat DEF RoundedBase
  <1> HIDE DEF n, d, b
  <1>3. CASE b = 0
    <2>1. InitRate(b, drop) = Invalid
      BY <1>3, NoRateIsInvalid
    <2> QED
      BY <2>1 DEF Seeded, b, n, d
  <1>4. CASE b # 0
    <2>1. Seeded(InitRate(b, drop)) /\ Rated(InitRate(b, drop))
      BY <1>2, <1>4, InitRateIsSound
    <2> QED
      BY <2>1 DEF b, n, d
  <1> QED
    BY <1>3, <1>4

\* A sound object has a whole number of frames.
LEMMA SoundCount ==
    ASSUME NEW t, Sound(t)
    PROVE  TotalFrames(t) \in Nat
  <1>1. CASE t = Invalid
    BY <1>1 DEF TotalFrames, Invalid, FramesPerHour, FramesPer10Min, FramesPerMin, DropCount
  <1>2. CASE Rated(t) /\ Proper(t)
    <2>1. TotalFrames(t) \in 0..(MaxOffset(t) - 1) /\ MaxOffset(t) \in Nat
      BY <1>2, ProperCountsInDay, UnitsOfRate
    <2> QED
      BY <2>1
  <1> QED
    BY <1>1, <1>2 DEF Sound

LEMMA MillisecondsAreFrames ==
    ASSUME NEW ms \in Nat, NEW rate \in Rational
    PROVE  TotalFrames(FromMilliseconds(ms, FrameRateNum(rate), rate.denominator, TRUE)) \in Nat
  <1> DEFINE n == FrameRateNum(rate)
             d == rate.denominator
             t == InitRate(RoundedBase(n, d), TRUE)
  <1>1. n \in Nat /\ d * 1000 \in Nat \ {0}
    BY DEF Rational, FrameRateNum
  <1>2. Seeded(t)
    BY RateIsSeed
  <1> HIDE DEF n, d, t
  <1>3. \E h \in Nat, m \in Nat, s \in Nat, f \in Nat :
           FromMilliseconds(ms, n, d, TRUE)
           = SetLabel(t, [hour |-> h, min |-> m, sec |-> s, frame |-> f])
    <2>1. /\ ms \div 3600000 \in Nat /\ (ms % 3600000) \div 60000 \in Nat
          /\ (ms % 60000) \div 1000 \in Nat /\ ms % 1000 \in Nat
      BY SMT
    <2>2. (ms % 1000) * n \in Nat
      BY <1>1, <2>1
    <2>3. ((ms % 1000) * n) \div (d * 1000) \in Nat
      BY <1>1, <2>2, QuotientIsNat
    <2> DEFINE h == ms \div 3600000
               m == (ms % 3600000) \div 60000
               s == (ms % 60000) \div 1000
               f == ((ms % 1000) * n) \div (d * 1000)
    <2>4. FromMilliseconds(ms, n, d, TRUE)
          = SetLabel(t, [hour |-> h, min |-> m, sec |-> s, frame |-> f])
      BY DEF FromMilliseconds, t
    <2>5. h \in Nat /\ m \in Nat /\ s \in Nat /\ f \in Nat
      BY <2>1, <2>3
    <2> HIDE DEF h, m, s, f
    <2> QED
      BY <2>4, <2>5
  <1>4. PICK h \in Nat, m \in Nat, s \in Nat, f \in Nat :
           FromMilliseconds(ms, n, d, TRUE)
           = SetLabel(t, [hour |-> h, min |-> m, sec |-> s, frame |-> f])
    BY <1>3
  <1>5. [hour |-> h, min |-> m, sec |-> s, frame |-> f]
        \in [hour : Nat, min : Nat, sec : Nat, frame : Nat]
    OBVIOUS
  <1>6. Sound(FromMilliseconds(ms, n, d, TRUE))
    BY <1>2, <1>4, <1>5, SetLabelIsSound
  <1>7. TotalFrames(FromMilliseconds(ms, n, d, TRUE)) \in Nat
    BY <1>6, SoundCount
  <1> QED
    BY <1>7 DEF n, d

LEMMA TimeInFrames ==
    ASSUME NEW time, IsTime(time), NEW rate \in Rational
    PROVE  /\ NrFramesOfTime(time, rate) \in Nat
           /\ NrFramesOfDuration(time, rate) \in Nat
  <1>1. NrFramesOfTime(time, rate) \in Nat
    <2>1. CASE time.kind = "editUnitNumber"
      BY <2>1 DEF IsTime, NrFramesOfTime
    <2>2. CASE time.kind = "normalPlayTime"
      <3> DEFINE ms == time.ms % 1000
      <3>1. ms \in Nat
        BY <2>2 DEF IsTime
      <3>2. NrFramesOfTime(time, rate)
            = TotalFrames(FromMilliseconds(ms, FrameRateNum(rate), rate.denominator, TRUE))
        BY <2>2 DEF NrFramesOfTime
      <3> HIDE DEF ms
      <3>3. TotalFrames(FromMilliseconds(ms, FrameRateNum(rate), rate.denominator, TRUE)) \in Nat
        BY <3>1, MillisecondsAreFrames
      <3> QED
        BY <3>2, <3>3
    <2>3. CASE time.kind = "timecode"
      <3> DEFINE o == FromTimecodeString(time.text, FrameRateNum(rate), rate.denominator)
      <3>1. Sound(o)
        <4>1. CASE ~time.text.matches
          BY <4>1 DEF FromTimecodeString, Sound
        <4>2. CASE time.text.matches
          <5>1. /\ time.text.semicolon \in BOOLEAN
                /\ time.text.label \in [hour : Nat, min : Nat, sec : Nat, frame : Nat]
            BY <2>3, <4>2 DEF IsTime
          <5> QED
            BY <4>2, <5>1, RateIsSeed, SetLabelIsSound DEF FromTimecodeString
        <4> QED
          BY <4>1, <4>2
      <3> HIDE DEF o
      <3>2. TotalFrames(o) \in Nat
        BY <3>1, SoundCount
      <3> QED
        BY <2>3, <3>2 DEF NrFramesOfTime, o
    <2> QED
      BY <2>1, <2>2, <2>3 DEF IsTime
  <1>2. CASE time.kind = "normalPlayTime"
    <2>1. time.ms \in Nat
      BY <1>2 DEF IsTime
    <2> QED
      BY <1>1, <1>2, <2>1, MillisecondsAreFrames DEF NrFramesOfDuration
  <1>3. CASE time.kind # "normalPlayTime"
    BY <1>1, <1>3 DEF NrFramesOfDuration
  <1> QED
    BY <1>2, <1>3

\* The lengths of a clip are numbers of frames, and of one that is not refused
\* the marks are in order.
LEMMA ClipInFrames ==
    ASSUME NEW c \in Clips
    PROVE  /\ ClipFrames(c).markIn \in Nat /\ ClipFrames(c).markOut \in Nat
           /\ ClipFrames(c).duration = ClipFrames(c).markOut - ClipFrames(c).markIn
           /\ ClipDuration(c) = ClipFrames(c).duration /\ ClipDuration(c) \in Int
           /\ ClipFault(c) = "none" => ClipDuration(c) \in Nat
  <1>1. /\ NrFramesOfTime(c.markIn, c.rate) \in Nat
        /\ NrFramesOfTime(c.markOut, c.rate) \in Nat
    BY TimesAssumption, ClipsAssumption, TimeInFrames
  <1>2. /\ ClipFrames(c).markIn = NrFramesOfTime(c.markIn, c.rate)
        /\ ClipFrames(c).markOut = NrFramesOfTime(c.markOut, c.rate)
        /\ ClipFrames(c).duration = ClipFrames(c).markOut - ClipFrames(c).markIn
        /\ ClipDuration(c) = ClipFrames(c).duration
    BY DEF ClipFrames, ClipDuration
  <1>3. ClipFault(c) = "none" =>
           ~(NrFramesOfTime(c.markIn, c.rate) > NrFramesOfTime(c.markOut, c.rate))
    BY DEF ClipFault
  <1> QED
    BY <1>1, <1>2, <1>3

\* A timecode the CMX plugin prints is the one of its frames, around the day; at
\* a rate of no frame a second it is the invalid one.
LEMMA CmxTimecodeShows ==
    ASSUME NEW rate \in Rational, NEW o \in Int
    PROVE  LET i == InitRate(RoundedBase(FrameRateNum(rate), rate.denominator),
                             IsDropFrame(rate))
               t == CmxTimecode(rate, o)
           IN  /\ Sound(t) /\ MaxOffset(t) = MaxOffset(i)
               /\ \/ i = Invalid /\ t = Invalid
                  \/ MaxOffset(i) \in Nat \ {0} /\ TotalFrames(t) = o % MaxOffset(i)
  <1> DEFINE i == InitRate(RoundedBase(FrameRateNum(rate), rate.denominator),
                           IsDropFrame(rate))
             t == SetOffset(i, o)
  <1>1. Seeded(i) /\ (i = Invalid \/ Rated(i))
    <2>1. IsDropFrame(rate) \in BOOLEAN
      BY DEF IsDropFrame
    <2> QED
      BY <2>1, RateIsSeed
  <1>2. CmxTimecode(rate, o) = t
    BY DEF CmxTimecode
  <1> HIDE DEF i
  <1>3. /\ Sound(t) /\ t.base = i.base /\ t.drop = i.drop
        /\ i.base # 0 => t.offset = o % MaxOffset(i)
    BY <1>1, SetOffsetIsSound
  <1>4. CASE i = Invalid
    <2>1. t = Invalid
      BY <1>4 DEF SetOffset, Invalid
    <2> QED
      BY <1>2, <1>3, <1>4, <2>1 DEF i
  <1>5. CASE Rated(i)
    <2>1. i.base # 0 /\ MaxOffset(i) \in Nat \ {0}
      BY <1>5, UnitsOfRate DEF Rated
    <2> HIDE DEF t
    <2>2. MaxOffset(t) = MaxOffset(i)
      BY <1>3, SameRateSameUnits
    <2>3. t # Invalid
      BY <1>3, <2>1 DEF Invalid
    <2>4. TotalFrames(t) = o % MaxOffset(i)
      BY <1>3, <2>1, <2>3 DEF Sound
    <2> QED
      BY <1>2, <1>3, <2>1, <2>2, <2>4 DEF i
  <1> QED
    BY <1>1, <1>4, <1>5

-----------------------------------------------------------------------------
(* CMX3600: what the events say                                               *)

CmxStated ==
    /\ cmx.totalFrameCount \in Int
    /\ \A k \in 1..Len(cmx.events) : \E s \in Int : cmx.events[k] = Statement(clips[k], s)

LEMMA CmxStatedInit == RequestInit /\ CmxInit => CmxStated
  <1> SUFFICES ASSUME CmxInit PROVE CmxStated
    OBVIOUS
  <1>1. cmx.totalFrameCount = 0 /\ cmx.events = <<>>
    BY DEF CmxInit
  <1>2. Len(cmx.events) = 0
    BY <1>1
  <1> QED
    BY <1>1, <1>2 DEF CmxStated

LEMMA CmxStatedStep ==
    CmxInv /\ CmxStated /\ [CmxNext]_<<request, cmx>> => CmxStated'
  <1> SUFFICES ASSUME CmxInv, CmxStated, [CmxNext]_<<request, cmx>>
               PROVE  CmxStated'
    OBVIOUS
  <1>1. CmxFields(cmx) /\ clips' = clips /\ Len(clips) \in Nat
    BY DEF CmxInv, CmxNext, CmxHeader, CmxClip, CmxReturn, request
  <1>2. CASE cmx'.totalFrameCount = cmx.totalFrameCount /\ cmx'.events = cmx.events
    BY <1>1, <1>2 DEF CmxStated
  <1>3. CASE CmxClip
    <2> DEFINE n == cmx.next
               c == clips[n]
               e == Statement(c, cmx.totalFrameCount)
    <2>1. n \in 1..Len(clips)
      BY <1>1, <1>3, CmxClipFields
    <2>2. PICK S : cmx.events \in Seq(S)
      BY DEF CmxInv, CmxCounts
    <2>3. Len(cmx.events) = n - 1
      BY <2>1 DEF CmxInv, CmxCounts
    <2>4. CASE /\ cmx'.events = Append(cmx.events, e)
               /\ cmx'.totalFrameCount = cmx.totalFrameCount + ClipDuration(c)
      <3>1. c \in Clips
        BY <2>1 DEF CmxInv
      <3>2. ClipDuration(c) \in Int
        BY <3>1, ClipInFrames
      <3>3. cmx'.totalFrameCount \in Int
        BY <2>4, <3>2 DEF CmxStated
      <3> HIDE DEF e
      <3>4. /\ Len(cmx'.events) = n /\ cmx'.events[n] = e
            /\ \A k \in 1..(n - 1) : cmx'.events[k] = cmx.events[k]
        BY <2>1, <2>2, <2>3, <2>4, AppendAny
      <3>5. ASSUME NEW k \in 1..n
            PROVE  \E s \in Int : cmx'.events[k] = Statement(clips'[k], s)
        <4>1. CASE k = n
          <5>1. cmx'.events[k] = Statement(clips'[k], cmx.totalFrameCount)
            BY <1>1, <3>4, <4>1 DEF e
          <5> QED
            BY <5>1 DEF CmxStated
        <4>2. CASE k # n
          <5>1. k \in 1..(n - 1)
            BY <2>1, <4>2
          <5>2. \E s \in Int : cmx.events[k] = Statement(clips[k], s)
            BY <2>3, <5>1 DEF CmxStated
          <5> QED
            BY <1>1, <3>4, <5>1, <5>2
        <4> QED
          BY <4>1, <4>2
      <3> QED
        BY <3>3, <3>4, <3>5 DEF CmxStated
    <2> QED
      BY <1>1, <1>2, <1>3, <2>4, CmxClipFields
  <1> QED
    BY <1>1, <1>2, <1>3, CmxHeaderFields, CmxReturnFields DEF CmxNext

LEMMA CmxStatedAlways == CmxSpec => [](CmxInv /\ CmxStated)
  BY CmxInvInit, CmxInvStep, CmxStatedInit, CmxStatedStep, PTL DEF CmxSpec

\* A difference, around the day.
LEMMA ModOfDifference ==
    ASSUME NEW m \in Nat \ {0}, NEW a \in Int, NEW b \in Int
    PROVE  ((b % m) - (a % m)) % m = (b - a) % m
  <1> DEFINE p == a \div m
             q == b \div m
             r == (b - a) \div m
             x == (b - a) % m
  <1>1. p \in Int /\ a = m * p + (a % m) /\ a % m \in Int
    BY DivMod
  <1>2. q \in Int /\ b = m * q + (b % m) /\ b % m \in Int
    BY DivMod
  <1>3. r \in Int /\ x \in 0..(m - 1) /\ b - a = m * r + x
    BY DivMod
  <1> HIDE DEF p, q, r, x
  <1>4. (b % m) - (a % m) = m * (r + p - q) + x
    BY <1>1, <1>2, <1>3
  <1>5. r + p - q \in Int
    BY <1>1, <1>2, <1>3
  <1>6. (m * (r + p - q) + x) % m = x
    BY <1>3, <1>5, DivModUnique
  <1> QED
    BY <1>4, <1>6 DEF x

LEMMA StatementKeepsLength ==
    ASSUME NEW c \in Clips, NEW s \in Int, NEW e, e = Statement(c, s)
    PROVE  (TotalFrames(e.recordOut) - TotalFrames(e.recordIn)) % MaxOffset(e.recordIn)
           = (TotalFrames(e.markOut) - TotalFrames(e.markIn)) % MaxOffset(e.markIn)
  <1> DEFINE i == InitRate(RoundedBase(FrameRateNum(c.rate), c.rate.denominator),
                           IsDropFrame(c.rate))
             m == MaxOffset(i)
             a == ClipFrames(c).markIn
             b == ClipFrames(c).markOut
             d == ClipFrames(c).duration
  <1>1. a \in Int /\ b \in Int /\ d = b - a /\ d \in Int /\ s + d \in Int
    BY ClipInFrames
  <1>2. /\ e.markIn = CmxTimecode(c.rate, a) /\ e.markOut = CmxTimecode(c.rate, b)
        /\ e.recordIn = CmxTimecode(c.rate, s) /\ e.recordOut = CmxTimecode(c.rate, s + d)
    BY DEF Statement, RecordTimecode
  <1>3. c.rate \in Rational
    BY ClipsAssumption
  <1>4. ASSUME NEW o \in Int
        PROVE  /\ MaxOffset(CmxTimecode(c.rate, o)) = m
               /\ \/ i = Invalid /\ CmxTimecode(c.rate, o) = Invalid
                  \/ m \in Nat \ {0} /\ TotalFrames(CmxTimecode(c.rate, o)) = o % m
    BY <1>3, CmxTimecodeShows
  <1> HIDE DEF i, m, a, b, d
  <1>5. CASE m \in Nat \ {0} /\ i # Invalid
    <2>1. ASSUME NEW o \in Int PROVE TotalFrames(CmxTimecode(c.rate, o)) = o % m
      BY <1>4, <1>5
    <2>2. /\ TotalFrames(e.markIn) = a % m /\ TotalFrames(e.markOut) = b % m
          /\ TotalFrames(e.recordIn) = s % m /\ TotalFrames(e.recordOut) = (s + d) % m
      BY <1>1, <1>2, <2>1
    <2>3. MaxOffset(e.recordIn) = m /\ MaxOffset(e.markIn) = m
      BY <1>1, <1>2, <1>4
    <2>4. (((s + d) % m) - (s % m)) % m = ((s + d) - s) % m
      BY <1>1, <1>5, ModOfDifference
    <2>5. ((b % m) - (a % m)) % m = (b - a) % m
      BY <1>1, <1>5, ModOfDifference
    <2>6. (s + d) - s = b - a
      BY <1>1
    <2> QED
      BY <2>2, <2>3, <2>4, <2>5, <2>6
  <1>6. CASE i = Invalid
    <2>1. ASSUME NEW o \in Int PROVE CmxTimecode(c.rate, o) = Invalid
      <3>1. CmxTimecode(c.rate, o) = SetOffset(i, o)
        BY DEF CmxTimecode, i
      <3> QED
        BY <1>6, <3>1 DEF SetOffset, Invalid
    <2>2. e.markIn = Invalid /\ e.markOut = Invalid /\ e.recordIn = Invalid
          /\ e.recordOut = Invalid
      BY <1>1, <1>2, <2>1
    <2> QED
      BY <2>2
  <1> QED
    BY <1>4, <1>5, <1>6

\* Of every request an event is as long on the record side as on the source side,
\* around the day.
THEOREM CmxLengthsKept == CmxSpec => []CmxKeepsLength
  <1>1. ASSUME CmxInv, CmxStated
        PROVE  CmxKeepsLength
    <2> SUFFICES ASSUME NEW k \in 1..Len(cmx.events)
                 PROVE  LET e == cmx.events[k]
                        IN  (TotalFrames(e.recordOut) - TotalFrames(e.recordIn))
                                % MaxOffset(e.recordIn)
                            = (TotalFrames(e.markOut) - TotalFrames(e.markIn))
                                % MaxOffset(e.markIn)
      BY DEF CmxKeepsLength
    <2>1. k \in 1..Len(clips) /\ clips \in Seq(Clips)
      BY <1>1 DEF CmxInv, CmxCounts
    <2>2. clips[k] \in Clips
      BY <2>1
    <2>3. PICK s \in Int : cmx.events[k] = Statement(clips[k], s)
      BY <1>1 DEF CmxStated
    <2> QED
      BY <2>2, <2>3, StatementKeepsLength
  <1> QED
    BY <1>1, CmxStatedAlways, PTL

-----------------------------------------------------------------------------
(* CMX3600: the marks an event shows                                          *)

\* A label that exists is not cleaned.
LEMMA LabelIsKept ==
    ASSUME NEW t, Rated(t), NEW l \in [hour : Nat, min : Nat, sec : Nat, frame : Nat],
           l.hour < 24, l.min < 60, l.sec < 60, l.frame < t.base,
           ~(t.drop /\ l.sec = 0 /\ l.min % 10 # 0 /\ l.frame < DropCount(t))
    PROVE  LabelOf(SetLabel(t, l)) = LabelOf(l)
  <1> DEFINE c == CleanTimecode(t, l)
  <1>1. /\ l.hour \in 0..(24 - 1) /\ l.min \in 0..(60 - 1) /\ l.sec \in 0..(60 - 1)
        /\ l.frame \in 0..(t.base - 1) /\ t.base \in Nat \ {0}
    BY DEF Rated
  <1>2. /\ l.hour % 24 = l.hour /\ l.min % 60 = l.min /\ l.sec % 60 = l.sec
        /\ l.frame % t.base = l.frame
    <2>1. l.frame % t.base = l.frame
      BY <1>1, ModSmall
    <2> QED
      BY <1>1, <2>1
  <1>3. c = [t EXCEPT !.hour = l.hour, !.min = l.min, !.sec = l.sec, !.frame = l.frame]
    BY <1>1, <1>2 DEF CleanTimecode
  <1> HIDE DEF c
  <1>4. /\ c.hour = l.hour /\ c.min = l.min /\ c.sec = l.sec /\ c.frame = l.frame
        /\ c = [base |-> c.base, drop |-> c.drop, hour |-> c.hour, min |-> c.min,
                sec |-> c.sec, frame |-> c.frame, offset |-> c.offset]
    BY <1>3 DEF Rated
  <1>5. SetLabel(t, l) = [c EXCEPT !.offset = TotalFrames(c)]
    BY DEF SetLabel, c
  <1> QED
    BY <1>4, <1>5 DEF LabelOf

\* A timecode that is printed at the rate it was read at shows what was read.
LEMMA MarkIsShown ==
    ASSUME NEW rate \in Rational, NEW mark, IsTime(mark),
           mark.kind = "timecode", mark.text.matches,
           NEW t, t = CmxTimecode(rate, NrFramesOfTime(mark, rate)),
           t.drop = (mark.text.semicolon /\ t.base \in {30, 60}),
           NEW l, l = mark.text.label,
           l.hour < 24, l.min < 60, l.sec < 60, l.frame < t.base,
           ~(t.drop /\ l.sec = 0 /\ l.min % 10 # 0 /\ l.frame < DropCount(t))
    PROVE  LabelOf(t) = LabelOf(l)
  <1> DEFINE b == RoundedBase(FrameRateNum(rate), rate.denominator)
             i == InitRate(b, IsDropFrame(rate))
             j == InitRate(b, mark.text.semicolon)
             u == SetLabel(j, l)
             o == TotalFrames(u)
  <1>1. /\ mark.text.semicolon \in BOOLEAN
        /\ l \in [hour : Nat, min : Nat, sec : Nat, frame : Nat]
    BY DEF IsTime
  <1>2. Seeded(i) /\ Seeded(j)
    <2>1. IsDropFrame(rate) \in BOOLEAN
      BY DEF IsDropFrame
    <2> QED
      BY <1>1, <2>1, RateIsSeed
  <1>3. i.base = b /\ j.base = b /\ j.drop = (mark.text.semicolon /\ b \in {30, 60})
    BY DEF InitRate, Invalid
  <1>4. t = SetOffset(i, o)
    BY DEF NrFramesOfTime, FromTimecodeString, CmxTimecode
  <1> HIDE DEF b, i, j
  <1>5. Sound(u) /\ u.base = j.base /\ u.drop = j.drop
    BY <1>1, <1>2, SetLabelIsSound
  <1> HIDE DEF u
  <1>6. o \in Nat
    BY <1>5, SoundCount
  <1> HIDE DEF o
  <1>7. /\ Sound(t) /\ t.base = i.base /\ t.drop = i.drop
        /\ i.base # 0 => t.offset = o % MaxOffset(i)
    BY <1>2, <1>4, <1>6, SetOffsetIsSound
  <1>8. t.base # 0
    <2>1. l.frame \in Nat
      BY <1>1
    <2> QED
      BY <2>1
  <1>9. t.base = j.base /\ t.drop = j.drop
    BY <1>3, <1>7
  <1>10. Rated(t) /\ Proper(t) /\ t.offset = TotalFrames(t)
    BY <1>7, <1>8 DEF Sound, Invalid
  <1>11. Rated(u) /\ Proper(u)
    BY <1>5, <1>8, <1>9 DEF Sound, Invalid
  <1>12. Rated(j)
    BY <1>2, <1>8, <1>9 DEF Seeded, Invalid
  <1>13. TotalFrames(t) = o
    <2>1. MaxOffset(i) = MaxOffset(u) /\ MaxOffset(u) \in Nat \ {0}
      <3>1. i.base = u.base /\ i.drop = u.drop
        BY <1>5, <1>7, <1>9, Zenon
      <3>2. MaxOffset(i) = MaxOffset(u)
        BY <3>1, SameRateSameUnits
      <3>3. MaxOffset(u) \in Nat \ {0}
        BY <1>11, UnitsOfRate
      <3> QED
        BY <3>2, <3>3
    <2>2. o \in 0..(MaxOffset(i) - 1)
      BY <1>11, <2>1, ProperCountsInDay DEF o
    <2>3. o % MaxOffset(i) = o
      BY <2>1, <2>2, ModSmall
    <2> QED
      BY <1>7, <1>8, <1>10, <2>3
  <1>14. t.hour = u.hour /\ t.min = u.min /\ t.sec = u.sec /\ t.frame = u.frame
    BY <1>5, <1>9, <1>10, <1>11, <1>13, LabelIsUnique DEF o
  <1>15. LabelOf(u) = LabelOf(l)
    <2>1. DropCount(t) = DropCount(j)
      BY <1>9, SameRateSameUnits
    <2> QED
      BY <1>1, <1>9, <1>12, <2>1, LabelIsKept DEF u
  <1> QED
    BY <1>14, <1>15 DEF LabelOf

\* Of every request an event shows the marks that were given as timecodes.
THEOREM CmxMarksAreShown == CmxSpec => []CmxShowsMarks
  <1>1. ASSUME CmxInv, CmxStated
        PROVE  CmxShowsMarks
    <2>1. ASSUME NEW k \in 1..Len(cmx.events)
          PROVE  /\ clips[k] \in Clips
                 /\ cmx.events[k].markIn
                    = CmxTimecode(clips[k].rate, NrFramesOfTime(clips[k].markIn, clips[k].rate))
                 /\ cmx.events[k].markOut
                    = CmxTimecode(clips[k].rate, NrFramesOfTime(clips[k].markOut, clips[k].rate))
      <3>1. k \in 1..Len(clips) /\ clips \in Seq(Clips)
        BY <1>1 DEF CmxInv, CmxCounts
      <3>2. PICK s \in Int : cmx.events[k] = Statement(clips[k], s)
        BY <1>1 DEF CmxStated
      <3> QED
        BY <3>1, <3>2 DEF Statement, ClipFrames
    <2>2. ASSUME NEW k \in 1..Len(cmx.events)
          PROVE  /\ clips[k].rate \in Rational
                 /\ IsTime(clips[k].markIn) /\ IsTime(clips[k].markOut)
      BY <2>1, ClipsAssumption, TimesAssumption
    <2>3. ASSUME NEW rate \in Rational, NEW mark, IsTime(mark),
                 NEW t, t = CmxTimecode(rate, NrFramesOfTime(mark, rate)),
                 mark.kind = "timecode", mark.text.matches,
                 t.drop = (mark.text.semicolon /\ t.base \in {30, 60}),
                 mark.text.label.hour < 24, mark.text.label.min < 60,
                 mark.text.label.sec < 60, mark.text.label.frame < t.base,
                 ~(/\ t.drop /\ mark.text.label.sec = 0 /\ mark.text.label.min % 10 # 0
                   /\ mark.text.label.frame < DropCount(t))
          PROVE  LabelOf(t) = LabelOf(mark.text.label)
      BY <2>3, MarkIsShown
    <2> QED
      BY <2>1, <2>2, <2>3 DEF CmxShowsMarks
  <1> QED
    BY <1>1, CmxStatedAlways, PTL

-----------------------------------------------------------------------------
(* AAF: the length of the timecode                                            *)

\* An int adds up as the integers do, around its range.
LEMMA IntAdds ==
    ASSUME NEW a \in Int, NEW d \in Int
    PROVE  ToInt(a) \in Int /\ ToInt(ToInt(a) + d) = ToInt(a + d)
  <1> DEFINE h == IntMax + 1
             m == 2 * h
             q == (a + h) \div m
             x == (a + h) % m
             r == (x + d) \div m
             y == (x + d) % m
  <1>1. h \in Nat \ {0} /\ m \in Nat \ {0} /\ a + h \in Int
    BY IntMaxAssumption
  <1>2. ToInt(a) = x - h
    BY IntMaxAssumption DEF ToInt
  <1> HIDE DEF h, m
  <1>3. q \in Int /\ x \in 0..(m - 1) /\ a + h = m * q + x
    BY <1>1, DivMod
  <1> HIDE DEF q, x
  <1>4. r \in Int /\ y \in 0..(m - 1) /\ x + d = m * r + y
    <2>1. x + d \in Int
      BY <1>1, <1>3
    <2> QED
      BY <1>1, <2>1, DivMod
  <1> HIDE DEF r, y
  <1>5. (a + d) + h = m * (q + r) + y /\ q + r \in Int
    BY <1>1, <1>3, <1>4
  <1>6. ((a + d) + h) % m = y
    <2>1. (m * (q + r) + y) % m = y
      BY <1>1, <1>4, <1>5, DivModUnique
    <2> QED
      BY <1>5, <2>1
  <1>7. ToInt(a + d) = y - h
    BY <1>1, <1>6, IntMaxAssumption DEF ToInt, h, m
  <1>8. (ToInt(a) + d) + h = x + d
    BY <1>1, <1>2, <1>3
  <1>9. ToInt(ToInt(a) + d) = y - h
    <2>1. ToInt(ToInt(a) + d) = (((ToInt(a) + d) + h) % m) - h
      BY <1>1, <1>2, <1>3, IntMaxAssumption DEF ToInt, h, m
    <2> QED
      BY <1>8, <2>1 DEF y
  <1> QED
    BY <1>1, <1>2, <1>3, <1>7, <1>9

\* An int holds what it can.
LEMMA IntHolds ==
    ASSUME NEW a \in 0..IntMax
    PROVE  ToInt(a) = a
  <1> DEFINE h == IntMax + 1
  <1>1. 2 * h \in Nat \ {0} /\ a + h \in 0..(2 * h - 1) /\ h \in Nat /\ a \in Nat
    BY IntMaxAssumption
  <1>2. (a + h) % (2 * h) = a + h
    BY <1>1, ModSmall
  <1>3. ToInt(a) = ((a + h) % (2 * h)) - h
    BY <1>1, IntMaxAssumption DEF ToInt
  <1> QED
    BY <1>1, <1>2, <1>3

\* p[k] is the length of the first k clips, for each k up to n, a number of S.
Sums(p, n, S) ==
    /\ p[0] = 0 /\ \A k \in 0..n : p[k] \in S
    /\ \A k \in 1..n : p[k] = p[k - 1] + ClipDuration(clips[k])

LEMMA SumsGo ==
    ASSUME NEW S \in {Nat, Int}, NEW n \in Nat, NEW p, Sums(p, n, S),
           ClipDuration(clips[n + 1]) \in S
    PROVE  \E q : /\ Sums(q, n + 1, S) /\ \A k \in 0..n : q[k] = p[k]
                  /\ q[n + 1] = p[n] + ClipDuration(clips[n + 1])
  <1> DEFINE d == ClipDuration(clips[n + 1])
             q == [k \in 0..(n + 1) |-> IF k <= n THEN p[k] ELSE p[n] + d]
  <1>1. /\ \A k \in 0..n : q[k] = p[k]
        /\ q[n + 1] = p[n] + d
    OBVIOUS
  <1>2. p[n] \in S /\ d \in S /\ q[0] = 0
    BY <1>1 DEF Sums
  <1> HIDE DEF d, q
  <1>3. p[n] + d \in S
    BY <1>2
  <1>4. \A k \in 0..(n + 1) : q[k] \in S
    <2> SUFFICES ASSUME NEW k \in 0..(n + 1) PROVE q[k] \in S
      OBVIOUS
    <2>1. k \in 0..n \/ k = n + 1
      OBVIOUS
    <2> QED
      BY <1>1, <1>3, <2>1 DEF Sums
  <1>5. \A k \in 1..(n + 1) : q[k] = q[k - 1] + ClipDuration(clips[k])
    <2> SUFFICES ASSUME NEW k \in 1..(n + 1)
                 PROVE  q[k] = q[k - 1] + ClipDuration(clips[k])
      OBVIOUS
    <2>1. q[k - 1] = p[k - 1]
      <3>1. k - 1 \in 0..n
        OBVIOUS
      <3> QED
        BY <1>1, <3>1
    <2>2. CASE k = n + 1
      <3>1. k - 1 = n
        BY <2>2
      <3> QED
        BY <1>1, <2>1, <2>2, <3>1 DEF d
    <2>3. CASE k # n + 1
      <3>1. k \in 1..n /\ k \in 0..n
        BY <2>3
      <3> QED
        BY <1>1, <2>1, <3>1 DEF Sums
    <2> QED
      BY <2>2, <2>3
  <1>6. Sums(q, n + 1, S)
    BY <1>1, <1>2, <1>4, <1>5 DEF Sums
  <1> QED
    BY <1>1, <1>6 DEF d

\* The timecode is as long as the clips read, the picture as the clips written.
AafTimed ==
    \E p : /\ Sums(p, IF aaf.phase = "read" THEN aaf.next - 1 ELSE Len(clips), Nat)
           /\ aaf.totalLength = ToInt(p[IF aaf.phase = "read" THEN aaf.next - 1
                                                              ELSE Len(clips)])
           /\ aaf.phase # "read" => aaf.videoLength = p[aaf.next - 1]

LEMMA AafTimedInit == RequestInit /\ AafInit => AafTimed
  <1> SUFFICES ASSUME AafInit PROVE AafTimed
    OBVIOUS
  <1>1. aaf.phase = "read" /\ aaf.next = 1 /\ aaf.totalLength = 0
    BY DEF AafInit
  <1> DEFINE p == [k \in {0} |-> 0]
  <1>2. p[0] = 0
    OBVIOUS
  <1>3. ToInt(0) = 0
    BY IntMaxAssumption, IntHolds
  <1> HIDE DEF p
  <1>4. Sums(p, 0, Nat)
    BY <1>2 DEF Sums
  <1>5. aaf.next - 1 = 0
    BY <1>1
  <1> QED
    BY <1>1, <1>2, <1>3, <1>4, <1>5 DEF AafTimed

LEMMA AafTimedStep ==
    AafInv /\ AafTimed /\ [AafNext]_<<request, aaf>> => AafTimed'
  <1> SUFFICES ASSUME AafInv, AafTimed, [AafNext]_<<request, aaf>>
               PROVE  AafTimed'
    OBVIOUS
  <1>1. AafFields(aaf) /\ clips' = clips /\ Len(clips) \in Nat
    <2>1. AafFields(aaf) /\ clips' = clips
      BY DEF AafInv, AafNext, AafRead, AafCompose, AafWrite, AafCallFails, AafSave, request
    <2>2. Len(clips) \in Nat
      BY DEF AafInv
    <2> QED
      BY <2>1, <2>2
  <1>2. PICK p : /\ Sums(p, IF aaf.phase = "read" THEN aaf.next - 1 ELSE Len(clips), Nat)
                 /\ aaf.totalLength = ToInt(p[IF aaf.phase = "read" THEN aaf.next - 1
                                                                    ELSE Len(clips)])
                 /\ aaf.phase # "read" => aaf.videoLength = p[aaf.next - 1]
    BY DEF AafTimed
  <1>3. CASE /\ aaf'.phase = aaf.phase /\ aaf'.next = aaf.next
             /\ aaf'.totalLength = aaf.totalLength /\ aaf'.videoLength = aaf.videoLength
    <2>1. PICK n : n = IF aaf.phase = "read" THEN aaf.next - 1 ELSE Len(clips)
      OBVIOUS
    <2>2. n = IF aaf'.phase = "read" THEN aaf'.next - 1 ELSE Len(clips')
      BY <1>1, <1>3, <2>1
    <2>3. Sums(p, n, Nat) /\ aaf.totalLength = ToInt(p[n])
      BY <1>2, <2>1
    <2>4. Sums(p, n, Nat)'
      BY <1>1, <2>3 DEF Sums
    <2>5. ToInt(p[n])' = ToInt(p[n])
      BY DEF ToInt
    <2>6. /\ aaf'.totalLength = ToInt(p[n])
          /\ aaf'.phase # "read" => aaf'.videoLength = p[aaf'.next - 1]
      BY <1>2, <1>3, <2>3
    <2> QED
      BY <2>2, <2>4, <2>6 DEF AafTimed
  <1>4. ASSUME NEW f, AafFail(f)
        PROVE  AafTimed'
    BY <1>1, <1>3, <1>4, AafFailFields DEF AafKeeps
  <1>5. CASE AafRead
    <2> DEFINE c == clips[aaf.next]
    <2>0. aaf.phase = "read" /\ aaf.next \in 1..Len(clips) /\ c \in Clips
      BY <1>1, <1>5 DEF AafRead, AafRunning, AafInv, AafCounts
    <2>1. PICK n \in Nat : aaf.next = n + 1
      <3>1. aaf.next - 1 \in Nat /\ aaf.next = (aaf.next - 1) + 1
        BY <2>0
      <3> QED
        BY <3>1
    <2>2. CASE ClipFault(c) # "none"
      BY <1>4, <1>5, <2>2 DEF AafRead
    <2>3. CASE ClipFault(c) = "none"
      <3>1. /\ aaf'.next = aaf.next + 1 /\ aaf'.phase = "read"
            /\ aaf'.totalLength = AddLength(aaf.totalLength, c)
        BY <1>1, <1>5, <2>0, <2>3, AafReadFields
      <3>2. ClipDuration(c) \in Nat
        BY <2>0, <2>3, ClipInFrames
      <3>3. Sums(p, n, Nat) /\ aaf.totalLength = ToInt(p[n])
        <4>1. aaf.next - 1 = n
          BY <2>1
        <4> QED
          BY <1>2, <2>0, <4>1
      <3>4. ClipDuration(clips[n + 1]) \in Nat /\ c = clips[n + 1]
        BY <2>1, <3>2
      <3>5. PICK q : Sums(q, n + 1, Nat) /\ q[n + 1] = p[n] + ClipDuration(clips[n + 1])
        BY <2>1, <3>3, <3>4, SumsGo
      <3>6. p[n] \in Int
        BY <2>1, <3>3 DEF Sums
      <3>7. aaf'.totalLength = ToInt(q[n + 1])
        <4>1. aaf'.totalLength = ToInt(ToInt(p[n]) + ClipDuration(clips[n + 1]))
          BY <3>1, <3>3, <3>4 DEF AddLength
        <4>2. ToInt(ToInt(p[n]) + ClipDuration(clips[n + 1]))
              = ToInt(p[n] + ClipDuration(clips[n + 1]))
          <5> DEFINE x == p[n]
                     d == ClipDuration(clips[n + 1])
          <5>1. x \in Int /\ d \in Int
            BY <3>4, <3>6
          <5> HIDE DEF x, d
          <5>2. ToInt(ToInt(x) + d) = ToInt(x + d)
            BY <5>1, IntAdds
          <5> QED
            BY <5>2 DEF x, d
        <4> QED
          BY <3>5, <4>1, <4>2
      <3>8. aaf'.next - 1 = n + 1
        BY <2>1, <3>1
      <3>9. Sums(q, n + 1, Nat)'
        BY <1>1, <3>5 DEF Sums
      <3> QED
        BY <3>1, <3>7, <3>8, <3>9 DEF AafTimed
    <2> QED
      BY <2>2, <2>3
  <1>6. CASE AafCompose
    <2>1. CASE ~Supported(edlFrameRate)
      BY <1>4, <1>6, <2>1 DEF AafCompose
    <2>2. CASE Supported(edlFrameRate)
      <3>1. /\ aaf.phase = "read" /\ aaf.next - 1 = Len(clips) /\ aaf.videoLength = 0
        BY <1>1, <1>6 DEF AafCompose, AafRunning, AafInv, AafCounts
      <3>2. /\ aaf'.phase = "write" /\ aaf'.next = 1 /\ aaf'.totalLength = aaf.totalLength
            /\ aaf'.videoLength = 0
        BY <1>1, <1>6, <2>2, <3>1, AafComposeFields DEF AafKeeps
      <3>3. Sums(p, Len(clips), Nat) /\ aaf.totalLength = ToInt(p[Len(clips)])
        BY <1>2, <3>1
      <3>4. Sums(p, Len(clips), Nat)' /\ p[0] = 0 /\ aaf'.next - 1 = 0
        BY <1>1, <3>2, <3>3 DEF Sums
      <3> QED
        BY <1>1, <3>2, <3>3, <3>4 DEF AafTimed
    <2> QED
      BY <2>1, <2>2
  <1>7. CASE AafWrite
    <2> DEFINE c == clips[aaf.next]
               n == aaf.next - 1
    <2>1. CASE ~c.fits
      BY <1>4, <1>7, <2>1 DEF AafWrite
    <2>2. CASE c.fits
      <3>1. aaf.phase = "write" /\ n \in Nat /\ aaf.next = n + 1 /\ aaf.next \in 1..Len(clips)
        BY <1>7 DEF AafWrite, AafRunning, AafInv, AafCounts
      <3>2. /\ aaf'.phase = "write" /\ aaf'.next = aaf.next + 1
            /\ aaf'.totalLength = aaf.totalLength
            /\ aaf'.videoLength = aaf.videoLength + ClipDuration(c)
        BY <1>1, <1>7, <2>2, <3>1, AafWriteFields
      <3>3. /\ Sums(p, Len(clips), Nat) /\ aaf.totalLength = ToInt(p[Len(clips)])
            /\ aaf.videoLength = p[n]
        BY <1>2, <3>1
      <3>4. p[aaf.next] = p[n] + ClipDuration(c)
        BY <3>1, <3>3 DEF Sums
      <3>5. aaf'.next - 1 = aaf.next /\ aaf'.videoLength = p[aaf.next]
        BY <3>1, <3>2, <3>3, <3>4
      <3>6. Sums(p, Len(clips), Nat)'
        BY <1>1, <3>3 DEF Sums
      <3> QED
        BY <1>1, <3>2, <3>3, <3>5, <3>6 DEF AafTimed
    <2> QED
      BY <2>1, <2>2
  <1>8. CASE AafCallFails
    BY <1>4, <1>8 DEF AafCallFails
  <1>9. CASE AafSave
    <2>1. aaf.phase = "write"
      BY <1>9 DEF AafSave, AafRunning
    <2>2. /\ aaf'.phase = "done" /\ aaf'.next = aaf.next
          /\ aaf'.totalLength = aaf.totalLength /\ aaf'.videoLength = aaf.videoLength
      BY <1>1, <1>9, AafSaveFields DEF AafKeeps
    <2>3. /\ Sums(p, Len(clips), Nat) /\ aaf.totalLength = ToInt(p[Len(clips)])
          /\ aaf.videoLength = p[aaf.next - 1]
      BY <1>2, <2>1
    <2>4. Sums(p, Len(clips), Nat)'
      BY <1>1, <2>3 DEF Sums
    <2> QED
      BY <1>1, <2>2, <2>3, <2>4 DEF AafTimed
  <1>10. CASE UNCHANGED <<request, aaf>>
    BY <1>3, <1>10
  <1> QED
    BY <1>5, <1>6, <1>7, <1>8, <1>9, <1>10 DEF AafNext

\* A composition whose length an int holds has a timecode as long as its picture.
THEOREM AafTimecodeFits == AafSpec => []AafTimecodeLength
  <1>1. ASSUME AafInv, AafTimed
        PROVE  AafTimecodeLength
    <2> SUFFICES ASSUME aaf.phase = "done", aaf.videoLength <= IntMax
                 PROVE  aaf.totalLength = aaf.videoLength
      BY DEF AafTimecodeLength
    <2>1. aaf.next - 1 = Len(clips) /\ Len(clips) \in Nat
      BY <1>1 DEF AafInv, AafCounts
    <2>2. PICK p : /\ Sums(p, Len(clips), Nat) /\ aaf.totalLength = ToInt(p[Len(clips)])
                   /\ aaf.videoLength = p[aaf.next - 1]
      BY <1>1 DEF AafTimed
    <2>3. aaf.videoLength = p[Len(clips)] /\ p[Len(clips)] \in Nat
      BY <2>1, <2>2 DEF Sums
    <2>4. aaf.videoLength \in 0..IntMax
      BY <2>3, IntMaxAssumption
    <2> QED
      BY <2>2, <2>3, <2>4, IntHolds
  <1> QED
    BY <1>1, AafInvAlways, AafTimedInit, AafTimedStep, PTL DEF AafSpec

-----------------------------------------------------------------------------
(* One edit: every plugin places the clips by the same sums                   *)

\* q has the sums p has up to n, and goes on to m.
GoesOn(q, m, p, n) ==
    m \in Nat /\ n <= m /\ Sums(q, m, Int) /\ \A k \in 0..n : q[k] = p[k]

LEMMA SumsReach ==
    ASSUME clips \in Seq(Clips), NEW n \in Nat, NEW p, Sums(p, n, Int),
           NEW j \in 0..n, j < Len(clips)
    PROVE  \E q, m : j < m /\ GoesOn(q, m, p, n)
  <1>1. CASE j < n
    BY <1>1 DEF GoesOn
  <1>2. CASE j = n
    <2>1. clips[n + 1] \in Clips
      BY <1>2
    <2>2. ClipDuration(clips[n + 1]) \in Int
      BY <2>1, ClipInFrames
    <2>3. PICK q : Sums(q, n + 1, Int) /\ \A k \in 0..n : q[k] = p[k]
      BY <2>2, SumsGo
    <2>4. j < n + 1 /\ GoesOn(q, n + 1, p, n)
      BY <1>2, <2>3 DEF GoesOn
    <2> QED
      BY <2>4
  <1> QED
    BY <1>1, <1>2

\* The events are the statements of the clips, at these sums.
CmxAt(p, n) ==
    /\ Len(cmx.events) \in 0..n
    /\ cmx.totalFrameCount = p[Len(cmx.events)]
    /\ \A k \in 1..Len(cmx.events) : cmx.events[k] = Statement(clips[k], p[k - 1])

\* The picture items are from one sum to the next.
FcAt(p, n) ==
    /\ Len(fcp.video) \in 0..n
    /\ fcp.section = "video" => fcp.total = p[Len(fcp.video)]
    /\ \A k \in 1..Len(fcp.video) : fcp.video[k].start = p[k - 1] /\ fcp.video[k].end = p[k]

\* So are the components.
AafAt(p, n) ==
    /\ Len(aaf.video) \in 0..n
    /\ aaf.videoLength = p[Len(aaf.video)]
    /\ \A k \in 1..Len(aaf.video) : aaf.video[k].from = p[k - 1] /\ aaf.video[k].to = p[k]

\* Nothing changes for them when the sums go on.
LEMMA PlacesStay ==
    ASSUME NEW n \in Nat, NEW p, NEW m, NEW q, GoesOn(q, m, p, n)
    PROVE  /\ CmxAt(p, n) => CmxAt(q, m)
           /\ FcAt(p, n) => FcAt(q, m)
           /\ AafAt(p, n) => AafAt(q, m)
  <1>1. m \in Nat /\ \A j \in 0..n : j \in 0..m /\ q[j] = p[j]
    BY DEF GoesOn
  <1>2. ASSUME NEW j \in 0..n, NEW k \in 1..j
        PROVE  q[k - 1] = p[k - 1] /\ q[k] = p[k]
    <2>1. k - 1 \in 0..n /\ k \in 0..n
      OBVIOUS
    <2> QED
      BY <1>1, <2>1
  <1>3. CmxAt(p, n) => CmxAt(q, m)
    BY <1>1, <1>2 DEF CmxAt
  <1>4. FcAt(p, n) => FcAt(q, m)
    BY <1>1, <1>2 DEF FcAt
  <1>5. AafAt(p, n) => AafAt(q, m)
    BY <1>1, <1>2 DEF AafAt
  <1> QED
    BY <1>3, <1>4, <1>5

\* Each step of a plugin puts the next clip from one sum to the next.
LEMMA CmxAtStep ==
    ASSUME CmxInv, [CmxNext]_<<request, cmx>>, NEW n \in Nat, NEW p, Sums(p, n, Int), CmxAt(p, n)
    PROVE  \E q, m : GoesOn(q, m, p, n) /\ CmxAt(q, m)'
  <1>1. CmxFields(cmx) /\ clips' = clips /\ clips \in Seq(Clips) /\ Len(clips) \in Nat
    BY DEF CmxInv, CmxNext, CmxHeader, CmxClip, CmxReturn, request
  <1>2. ASSUME cmx'.totalFrameCount = cmx.totalFrameCount, cmx'.events = cmx.events
        PROVE  \E q, m : GoesOn(q, m, p, n) /\ CmxAt(q, m)'
    <2>1. GoesOn(p, n, p, n)
      BY DEF GoesOn
    <2>2. CmxAt(p, n)'
      BY <1>1, <1>2 DEF CmxAt
    <2> QED
      BY <2>1, <2>2
  <1>3. CASE CmxClip
    <2> DEFINE c == clips[cmx.next]
               j == Len(cmx.events)
               e == Statement(c, cmx.totalFrameCount)
    <2>1. cmx.next \in 1..Len(clips)
      BY <1>1, <1>3, CmxClipFields
    <2>2. PICK S : cmx.events \in Seq(S)
      BY DEF CmxInv, CmxCounts
    <2>3. j \in 0..n /\ j < Len(clips) /\ cmx.next = j + 1
      BY <1>1, <2>1 DEF CmxInv, CmxCounts, CmxAt
    <2>4. CASE /\ cmx'.events = Append(cmx.events, e)
               /\ cmx'.totalFrameCount = cmx.totalFrameCount + ClipDuration(c)
      <3>1. PICK q, m : j < m /\ GoesOn(q, m, p, n)
        BY <1>1, <2>3, SumsReach
      <3>2. CmxAt(q, m) /\ m \in Nat /\ Sums(q, m, Int)
        BY <3>1, PlacesStay DEF GoesOn
      <3>3. /\ Len(cmx'.events) = j + 1 /\ cmx'.events[j + 1] = e
            /\ \A k \in 1..j : cmx'.events[k] = cmx.events[k]
        BY <2>2, <2>4, AppendAny
      <3>4. cmx.totalFrameCount = q[j]
        BY <3>2 DEF CmxAt
      <3>5. cmx'.totalFrameCount = q[j + 1]
        <4>1. j + 1 \in 1..m /\ (j + 1) - 1 = j
          BY <2>3, <3>1, <3>2
        <4> QED
          BY <2>3, <2>4, <3>2, <3>4, <4>1 DEF Sums
      <3>6. ASSUME NEW k \in 1..(j + 1)
            PROVE  cmx'.events[k] = Statement(clips[k], q[k - 1])
        <4>1. CASE k = j + 1
          <5>1. k - 1 = j /\ cmx'.events[k] = Statement(clips[j + 1], q[j])
            BY <2>3, <3>3, <3>4, <4>1
          <5> QED
            BY <4>1, <5>1
        <4>2. CASE k \in 1..j
          BY <3>2, <3>3, <4>2 DEF CmxAt
        <4> QED
          BY <2>3, <4>1, <4>2
      <3>7. j + 1 \in 0..m
        BY <2>3, <3>1, <3>2
      <3> HIDE DEF j, e, c
      <3>8. CmxAt(q, m)'
        BY <1>1, <3>3, <3>5, <3>6, <3>7 DEF CmxAt
      <3> QED
        BY <3>1, <3>8
    <2> QED
      BY <1>1, <1>2, <1>3, <2>4, CmxClipFields
  <1> QED
    BY <1>1, <1>2, <1>3, CmxHeaderFields, CmxReturnFields DEF CmxNext

LEMMA FcAtStep ==
    ASSUME FcInv, [FcNext]_<<request, fcp>>, NEW n \in Nat, NEW p, Sums(p, n, Int), FcAt(p, n)
    PROVE  \E q, m : GoesOn(q, m, p, n) /\ FcAt(q, m)'
  <1>1. FcFields(fcp) /\ clips' = clips /\ clips \in Seq(Clips) /\ Len(clips) \in Nat
    BY DEF FcInv, FcNext, FcHeader, FcClip, FcAudio, FcAudioClip, FcEnd, request
  <1>2. ASSUME fcp'.video = fcp.video,
               fcp'.section = "video" => fcp.section = "video" /\ fcp'.total = fcp.total
        PROVE  \E q, m : GoesOn(q, m, p, n) /\ FcAt(q, m)'
    <2>1. GoesOn(p, n, p, n)
      BY DEF GoesOn
    <2>2. FcAt(p, n)'
      BY <1>1, <1>2 DEF FcAt
    <2> QED
      BY <2>1, <2>2
  <1>3. ASSUME NEW f, FcFail(f)
        PROVE  \E q, m : GoesOn(q, m, p, n) /\ FcAt(q, m)'
    BY <1>1, <1>2, <1>3, FcFailFields DEF FcKeeps
  <1>4. CASE FcHeader
    <2>1. CASE Supported(edlFrameRate)
      BY <1>1, <1>2, <1>4, <2>1, FcHeaderFields DEF FcKeeps
    <2>2. CASE ~Supported(edlFrameRate)
      BY <1>3, <1>4, <2>2 DEF FcHeader
    <2> QED
      BY <2>1, <2>2
  <1>5. CASE FcClip
    <2> DEFINE c == clips[fcp.next]
               j == Len(fcp.video)
    <2>1. CASE FcClipFault(c) # "none"
      BY <1>3, <1>5, <2>1 DEF FcClip
    <2>2. CASE FcClipFault(c) = "none"
      <3>1. fcp.section = "video" /\ fcp.next \in 1..Len(clips)
        BY <1>5 DEF FcClip, FcRunning
      <3>2. /\ fcp'.section = "video" /\ fcp'.total = fcp.total + ClipDuration(c)
            /\ fcp'.video = Append(fcp.video, FcItem(c))
        BY <1>1, <1>5, <2>2, <3>1, FcClipFields
      <3>3. PICK S : fcp.video \in Seq(S)
        BY DEF FcInv, FcCounts
      <3>4. j \in 0..n /\ j < Len(clips) /\ fcp.next = j + 1
        BY <1>1, <3>1 DEF FcInv, FcCounts, FcAt
      <3>5. PICK q, m : j < m /\ GoesOn(q, m, p, n)
        BY <1>1, <3>4, SumsReach
      <3>6. FcAt(q, m) /\ m \in Nat /\ Sums(q, m, Int)
        BY <3>5, PlacesStay DEF GoesOn
      <3>7. /\ Len(fcp'.video) = j + 1 /\ fcp'.video[j + 1] = FcItem(c)
            /\ \A k \in 1..j : fcp'.video[k] = fcp.video[k]
        BY <3>2, <3>3, AppendAny
      <3>8. fcp.total = q[j] /\ fcp.total + ClipDuration(c) = q[j + 1]
        <4>1. j + 1 \in 1..m /\ (j + 1) - 1 = j
          BY <3>4, <3>5, <3>6
        <4>2. fcp.total = q[j]
          BY <3>1, <3>6 DEF FcAt
        <4> QED
          BY <3>4, <3>6, <4>1, <4>2 DEF Sums
      <3>9. ASSUME NEW k \in 1..(j + 1)
            PROVE  fcp'.video[k].start = q[k - 1] /\ fcp'.video[k].end = q[k]
        <4>1. CASE k = j + 1
          <5>1. k - 1 = j
            BY <3>4, <4>1
          <5>2. FcItem(c).start = fcp.total /\ FcItem(c).end = fcp.total + ClipDuration(c)
            BY DEF FcItem
          <5> QED
            BY <3>7, <3>8, <4>1, <5>1, <5>2
        <4>2. CASE k \in 1..j
          BY <3>6, <3>7, <4>2 DEF FcAt
        <4> QED
          BY <3>4, <4>1, <4>2
      <3>10. j + 1 \in 0..m
        BY <3>4, <3>5, <3>6
      <3> HIDE DEF j, c
      <3>11. FcAt(q, m)'
        BY <3>2, <3>7, <3>8, <3>9, <3>10 DEF FcAt
      <3> QED
        BY <3>5, <3>11
    <2> QED
      BY <2>1, <2>2
  <1>6. CASE FcAudio
    BY <1>1, <1>2, <1>6, FcAudioFields DEF FcKeeps
  <1>7. CASE FcAudioClip
    <2>1. fcp.section = "audio"
      BY <1>7 DEF FcAudioClip, FcRunning
    <2> QED
      BY <1>1, <1>2, <1>7, <2>1, FcAudioClipFields
  <1>8. CASE FcEnd
    BY <1>1, <1>2, <1>8, FcEndFields DEF FcKeeps
  <1>9. CASE UNCHANGED <<request, fcp>>
    BY <1>2, <1>9
  <1> QED
    BY <1>4, <1>5, <1>6, <1>7, <1>8, <1>9 DEF FcNext

LEMMA AafAtStep ==
    ASSUME AafInv, [AafNext]_<<request, aaf>>, NEW n \in Nat, NEW p, Sums(p, n, Int), AafAt(p, n)
    PROVE  \E q, m : GoesOn(q, m, p, n) /\ AafAt(q, m)'
  <1>1. AafFields(aaf) /\ clips' = clips /\ clips \in Seq(Clips) /\ Len(clips) \in Nat
    <2>1. AafFields(aaf) /\ clips \in Seq(Clips) /\ Len(clips) \in Nat
      BY DEF AafInv
    <2>2. clips' = clips
      BY DEF AafNext, AafRead, AafCompose, AafWrite, AafCallFails, AafSave, request
    <2> QED
      BY <2>1, <2>2
  <1>2. ASSUME aaf'.video = aaf.video, aaf'.videoLength = aaf.videoLength
        PROVE  \E q, m : GoesOn(q, m, p, n) /\ AafAt(q, m)'
    <2>1. GoesOn(p, n, p, n)
      BY DEF GoesOn
    <2>2. AafAt(p, n)'
      BY <1>1, <1>2 DEF AafAt
    <2> QED
      BY <2>1, <2>2
  <1>3. ASSUME NEW f, AafFail(f)
        PROVE  \E q, m : GoesOn(q, m, p, n) /\ AafAt(q, m)'
    BY <1>1, <1>2, <1>3, AafFailFields DEF AafKeeps
  <1>4. CASE AafRead
    <2>1. CASE ClipFault(clips[aaf.next]) # "none"
      BY <1>3, <1>4, <2>1 DEF AafRead
    <2>2. CASE ClipFault(clips[aaf.next]) = "none"
      BY <1>1, <1>2, <1>4, <2>2, AafReadFields DEF AafKeeps
    <2> QED
      BY <2>1, <2>2
  <1>5. CASE AafCompose
    <2>1. CASE ~Supported(edlFrameRate)
      BY <1>3, <1>5, <2>1 DEF AafCompose
    <2>2. CASE Supported(edlFrameRate)
      BY <1>1, <1>2, <1>5, <2>2, AafComposeFields DEF AafKeeps
    <2> QED
      BY <2>1, <2>2
  <1>6. CASE AafWrite
    <2> DEFINE c == clips[aaf.next]
               j == Len(aaf.video)
               e == Component(ClipDuration(c))
    <2>1. CASE ~c.fits
      BY <1>3, <1>6, <2>1 DEF AafWrite
    <2>2. CASE c.fits
      <3>1. aaf.phase = "write" /\ aaf.next \in 1..Len(clips)
        BY <1>6 DEF AafWrite, AafRunning, AafInv, AafCounts
      <3>2. /\ aaf'.video = Append(aaf.video, e)
            /\ aaf'.videoLength = aaf.videoLength + ClipDuration(c)
        BY <1>1, <1>6, <2>2, <3>1, AafWriteFields
      <3>3. PICK S : aaf.video \in Seq(S)
        BY DEF AafInv, AafCounts
      <3>4. j \in 0..n /\ j < Len(clips) /\ aaf.next = j + 1
        BY <1>1, <3>1 DEF AafInv, AafCounts, AafAt
      <3>5. PICK q, m : j < m /\ GoesOn(q, m, p, n)
        BY <1>1, <3>4, SumsReach
      <3>6. AafAt(q, m) /\ m \in Nat /\ Sums(q, m, Int)
        BY <3>5, PlacesStay DEF GoesOn
      <3>7. /\ Len(aaf'.video) = j + 1 /\ aaf'.video[j + 1] = e
            /\ \A k \in 1..j : aaf'.video[k] = aaf.video[k]
        BY <3>2, <3>3, AppendAny
      <3>8. aaf.videoLength = q[j] /\ aaf.videoLength + ClipDuration(c) = q[j + 1]
        <4>1. j + 1 \in 1..m /\ (j + 1) - 1 = j
          BY <3>4, <3>5, <3>6
        <4>2. aaf.videoLength = q[j]
          BY <3>6 DEF AafAt
        <4> QED
          BY <3>4, <3>6, <4>1, <4>2 DEF Sums
      <3>9. ASSUME NEW k \in 1..(j + 1)
            PROVE  aaf'.video[k].from = q[k - 1] /\ aaf'.video[k].to = q[k]
        <4>1. CASE k = j + 1
          <5>1. k - 1 = j
            BY <3>4, <4>1
          <5>2. e.from = aaf.videoLength /\ e.to = aaf.videoLength + ClipDuration(c)
            BY DEF Component
          <5> QED
            BY <3>7, <3>8, <4>1, <5>1, <5>2
        <4>2. CASE k \in 1..j
          BY <3>6, <3>7, <4>2 DEF AafAt
        <4> QED
          BY <3>4, <4>1, <4>2
      <3>10. j + 1 \in 0..m
        BY <3>4, <3>5, <3>6
      <3> HIDE DEF j, c, e
      <3>11. AafAt(q, m)'
        BY <3>2, <3>7, <3>8, <3>9, <3>10 DEF AafAt
      <3> QED
        BY <3>5, <3>11
    <2> QED
      BY <2>1, <2>2
  <1>7. CASE AafCallFails
    BY <1>3, <1>7 DEF AafCallFails
  <1>8. CASE AafSave
    BY <1>1, <1>2, <1>8, AafSaveFields DEF AafKeeps
  <1>9. CASE UNCHANGED <<request, aaf>>
    BY <1>2, <1>9
  <1> QED
    BY <1>4, <1>5, <1>6, <1>7, <1>8, <1>9 DEF AafNext

\* One list of sums serves the three, however far each has come.
Placed ==
    \E p, n : /\ n \in Nat /\ Sums(p, n, Int)
              /\ CmxAt(p, n) /\ FcAt(p, n) /\ AafAt(p, n)

LEMMA PlacedInit == WInit => Placed
  <1> SUFFICES ASSUME WInit PROVE Placed
    OBVIOUS
  <1> DEFINE p == [k \in {0} |-> 0]
  <1>1. p[0] = 0
    OBVIOUS
  <1> HIDE DEF p
  <1>2. Sums(p, 0, Int)
    BY <1>1 DEF Sums
  <1>3. /\ cmx.events = <<>> /\ cmx.totalFrameCount = 0
        /\ fcp.video = <<>> /\ fcp.total = 0
        /\ aaf.video = <<>> /\ aaf.videoLength = 0
    BY DEF WInit, CmxInit, FcInit, AafInit
  <1>4. Len(cmx.events) = 0 /\ Len(fcp.video) = 0 /\ Len(aaf.video) = 0
    BY <1>3
  <1>5. CmxAt(p, 0) /\ FcAt(p, 0) /\ AafAt(p, 0)
    BY <1>1, <1>3, <1>4 DEF CmxAt, FcAt, AafAt
  <1> QED
    BY <1>2, <1>5 DEF Placed

LEMMA PlacedStep ==
    CmxInv /\ FcInv /\ AafInv /\ Placed /\ [WNext]_wVars => Placed'
  <1> SUFFICES ASSUME CmxInv, FcInv, AafInv, Placed, [WNext]_wVars
               PROVE  Placed'
    OBVIOUS
  <1>1. PICK p, n : /\ n \in Nat /\ Sums(p, n, Int)
                    /\ CmxAt(p, n) /\ FcAt(p, n) /\ AafAt(p, n)
    BY DEF Placed
  <1>2. /\ [CmxNext]_<<request, cmx>> /\ [FcNext]_<<request, fcp>> /\ [AafNext]_<<request, aaf>>
    BY WritersSeparate
  <1>3. clips' = clips
    BY <1>2 DEF CmxNext, CmxHeader, CmxClip, CmxReturn, request
  <1>4. /\ cmx' = cmx => \A q, m : CmxAt(q, m) => CmxAt(q, m)'
        /\ fcp' = fcp => \A q, m : FcAt(q, m) => FcAt(q, m)'
        /\ aaf' = aaf => \A q, m : AafAt(q, m) => AafAt(q, m)'
    BY <1>3 DEF CmxAt, FcAt, AafAt
  <1>5. ASSUME NEW q, NEW m, GoesOn(q, m, p, n)
        PROVE  /\ m \in Nat /\ Sums(q, m, Int)'
               /\ CmxAt(q, m) /\ FcAt(q, m) /\ AafAt(q, m)
    <2>1. Sums(q, m, Int)'
      BY <1>3, <1>5 DEF GoesOn, Sums
    <2> QED
      BY <1>1, <1>5, <2>1, PlacesStay DEF GoesOn
  <1>6. CASE fcp' = fcp /\ aaf' = aaf
    <2>1. PICK q, m : GoesOn(q, m, p, n) /\ CmxAt(q, m)'
      BY <1>1, <1>2, CmxAtStep
    <2> QED
      BY <1>4, <1>5, <1>6, <2>1 DEF Placed
  <1>7. CASE cmx' = cmx /\ aaf' = aaf
    <2>1. PICK q, m : GoesOn(q, m, p, n) /\ FcAt(q, m)'
      BY <1>1, <1>2, FcAtStep
    <2> QED
      BY <1>4, <1>5, <1>7, <2>1 DEF Placed
  <1>8. CASE cmx' = cmx /\ fcp' = fcp
    <2>1. PICK q, m : GoesOn(q, m, p, n) /\ AafAt(q, m)'
      BY <1>1, <1>2, AafAtStep
    <2> QED
      BY <1>4, <1>5, <1>8, <2>1 DEF Placed
  <1> QED
    BY <1>6, <1>7, <1>8 DEF WNext, wVars

\* A clip is at the same frames in the three EDLs, of every request.
THEOREM WritersDescribeOneEdit == WSpec => []SameEdit
  <1>1. ASSUME CmxInv, Placed
        PROVE  SameEdit
    <2>1. PICK p, n : /\ n \in Nat /\ Sums(p, n, Int)
                      /\ CmxAt(p, n) /\ FcAt(p, n) /\ AafAt(p, n)
      BY <1>1 DEF Placed
    <2>2. ASSUME NEW k \in 1..Len(cmx.events)
          PROVE  /\ cmx.events[k].recordIn = RecordTimecode(clips[k], p[k - 1])
                 /\ cmx.events[k].recordOut = RecordTimecode(clips[k], p[k])
      <3>1. cmx.events[k] = Statement(clips[k], p[k - 1]) /\ k \in 1..n
        BY <2>1 DEF CmxAt
      <3>2. p[k] = p[k - 1] + ClipFrames(clips[k]).duration
        BY <2>1, <3>1 DEF Sums, ClipDuration
      <3> QED
        BY <3>1, <3>2 DEF Statement
    <2>3. ASSUME NEW k \in 1..Len(fcp.video)
          PROVE  fcp.video[k].start = p[k - 1] /\ fcp.video[k].end = p[k]
      BY <2>1 DEF FcAt
    <2>4. ASSUME NEW k \in 1..Len(aaf.video)
          PROVE  aaf.video[k].from = p[k - 1] /\ aaf.video[k].to = p[k]
      BY <2>1 DEF AafAt
    <2> QED
      BY <2>2, <2>3, <2>4 DEF SameEdit
  <1>2. WSpec => [](CmxInv /\ FcInv /\ AafInv)
    BY WritersRunEach, CmxStatedAlways, FcInvAlways, AafInvAlways, PTL
  <1> QED
    BY <1>1, <1>2, PlacedInit, PlacedStep, PTL DEF WSpec

-----------------------------------------------------------------------------
(* The types of the three calls                                               *)

LEMMA ClipFaultTyped ==
    ASSUME NEW c
    PROVE  ClipFault(c) \in Faults /\ CmxClipFault(c) \in Faults
  BY DEF ClipFault, CmxClipFault, Faults

LEMMA RefusalTyped ==
    ASSUME NEW fault, NEW next, Refusal(fault, next)
    PROVE  fault \in Faults
  <1>1. CASE fault = "none"
    BY <1>1 DEF Faults
  <1>2. CASE next = 0 /\ fault # "none"
    BY <1>2 DEF Refusal, Faults
  <1>3. CASE next # 0 /\ fault # "none"
    <2>1. fault = CmxClipFault(clips[next])
      BY <1>3 DEF Refusal
    <2> QED
      BY <2>1, ClipFaultTyped
  <1> QED
    BY <1>1, <1>2, <1>3

\* The audio loop ends past the last clip.
FcClosed == fcp.section = "done" => fcp.next \in 0..(Len(clips) + 1)

LEMMA FcClosedStep ==
    FcInv /\ FcClosed /\ [FcNext]_<<request, fcp>> => FcClosed'
  <1> SUFFICES ASSUME FcInv, FcClosed, [FcNext]_<<request, fcp>>
               PROVE  FcClosed'
    OBVIOUS
  <1>1. FcFields(fcp)
    BY DEF FcInv
  <1>2. clips' = clips
    BY DEF FcNext, FcHeader, FcClip, FcAudio, FcAudioClip, FcEnd, request
  <1>3. CASE UNCHANGED <<request, fcp>>
    BY <1>2, <1>3 DEF FcClosed
  <1>4. CASE FcHeader
    <2>1. fcp.section = "video"
      BY <1>4 DEF FcHeader, FcRunning
    <2>2. fcp'.section = "video"
      BY <1>1, <1>4, <2>1, FcHeaderFields, FcFailFields DEF FcHeader
    <2> QED
      BY <2>2 DEF FcClosed
  <1>5. CASE FcClip
    <2>1. fcp.section = "video"
      BY <1>5 DEF FcClip, FcRunning
    <2>2. fcp'.section = "video"
      BY <1>1, <1>5, <2>1, FcClipFields, FcFailFields DEF FcClip
    <2> QED
      BY <2>2 DEF FcClosed
  <1>6. CASE FcAudio
    <2>1. fcp'.section = "audio"
      BY <1>1, <1>6, FcAudioFields
    <2> QED
      BY <2>1 DEF FcClosed
  <1>7. CASE FcAudioClip
    <2>1. fcp.section = "audio"
      BY <1>7 DEF FcAudioClip, FcRunning
    <2>2. fcp'.section = "audio"
      BY <1>1, <1>7, <2>1, FcAudioClipFields
    <2> QED
      BY <2>2 DEF FcClosed
  <1>8. CASE FcEnd
    <2>1. fcp.section = "audio"
      BY <1>8 DEF FcEnd, FcRunning
    <2>2. fcp'.next = fcp.next /\ fcp.next \in 1..(Len(clips) + 1)
      BY <1>1, <1>8, <2>1, FcEndFields DEF FcInv, FcCounts
    <2> QED
      BY <1>2, <2>2 DEF FcClosed
  <1> QED
    BY <1>3, <1>4, <1>5, <1>6, <1>7, <1>8 DEF FcNext

AafFaults == aaf.fault \in Faults

LEMMA AafFaultsStep ==
    AafInv /\ AafFaults /\ [AafNext]_<<request, aaf>> => AafFaults'
  <1> SUFFICES ASSUME AafInv, AafFaults, [AafNext]_<<request, aaf>>
               PROVE  AafFaults'
    OBVIOUS
  <1>1. AafFields(aaf)
    BY DEF AafInv
  <1>2. CASE aaf'.fault = aaf.fault
    BY <1>2 DEF AafFaults, Faults
  <1>3. ASSUME NEW f \in Faults, AafFail(f)
        PROVE  AafFaults'
    BY <1>1, <1>3, AafFailFields DEF AafFaults, Faults
  <1>4. CASE UNCHANGED <<request, aaf>>
    BY <1>2, <1>4
  <1>5. CASE AafRead
    BY <1>1, <1>2, <1>3, <1>5, AafReadFields, ClipFaultTyped DEF AafRead
  <1>6. CASE AafCompose
    <2>1. CASE Supported(edlFrameRate)
      BY <1>1, <1>2, <1>6, <2>1, AafComposeFields
    <2>2. CASE ~Supported(edlFrameRate)
      <3>1. AafFail("UNSUPPORTED_FRAME_RATE") /\ "UNSUPPORTED_FRAME_RATE" \in Faults
        BY <1>6, <2>2 DEF AafCompose, Faults
      <3> QED
        BY <1>3, <3>1
    <2> QED
      BY <2>1, <2>2
  <1>7. CASE AafWrite
    <2>1. CASE clips[aaf.next].fits
      BY <1>1, <1>2, <1>7, <2>1, AafWriteFields
    <2>2. CASE ~clips[aaf.next].fits
      <3>1. AafFail("out_of_range") /\ "out_of_range" \in Faults
        BY <1>7, <2>2 DEF AafWrite, Faults
      <3> QED
        BY <1>3, <3>1
    <2> QED
      BY <2>1, <2>2
  <1>8. CASE AafCallFails
    <2>1. AafFail("GENERIC") /\ "GENERIC" \in Faults
      BY <1>8 DEF AafCallFails, Faults
    <2> QED
      BY <1>3, <2>1
  <1>9. CASE AafSave
    BY <1>1, <1>2, <1>9, AafSaveFields
  <1> QED
    BY <1>4, <1>5, <1>6, <1>7, <1>8, <1>9 DEF AafNext

\* A sound object is one a plugin may print.
LEMMA SoundIsPrintable ==
    ASSUME NEW t, Sound(t)
    PROVE  Printable(t)
  BY DEF Sound, Proper, Printable

\* Whatever the request, the calls stay within it and print timecodes of a day.
THEOREM WritersTyped == WSpec => []WTypeOK
  <1>1. ASSUME CmxInv, CmxRefusal, CmxStated, FcInv, FcRefusal, FcClosed, AafInv, AafFaults,
               AafSavedLast
        PROVE  WTypeOK
    <2>1. {cmx.fault, fcp.fault, aaf.fault} \subseteq Faults
      <3>1. cmx.fault \in Faults
        BY <1>1, RefusalTyped DEF CmxRefusal
      <3>2. fcp.fault \in Faults
        <4>1. CASE fcp.section = "video"
          BY <1>1, <4>1, RefusalTyped DEF FcRefusal
        <4>2. CASE fcp.section # "video"
          BY <1>1, <4>2 DEF FcRefusal, Faults
        <4> QED
          BY <4>1, <4>2
      <3> QED
        BY <1>1, <3>1, <3>2, Zenon DEF AafFaults
    <2>2. /\ cmx.next \in 0..(Len(clips) + 1) /\ fcp.next \in 0..(Len(clips) + 1)
          /\ aaf.next \in 1..(Len(clips) + 1)
          /\ fcp.section \in {"video", "audio", "done"}
          /\ aaf.phase \in {"read", "write", "done"} /\ aaf.saved \in BOOLEAN
          /\ aaf.saved => aaf.fault = "none" /\ aaf.phase = "done"
      BY <1>1 DEF CmxInv, CmxCounts, FcInv, FcCounts, FcClosed, AafInv, AafCounts, AafSavedLast
    <2>3. ASSUME NEW k \in 1..Len(cmx.events),
                 NEW t \in {cmx.events[k].markIn, cmx.events[k].markOut,
                            cmx.events[k].recordIn, cmx.events[k].recordOut}
          PROVE  Printable(t)
      <3> DEFINE c == clips[k]
      <3>1. c \in Clips
        <4>1. k \in 1..Len(clips) /\ clips \in Seq(Clips)
          BY <1>1 DEF CmxInv, CmxCounts
        <4> QED
          BY <4>1
      <3>2. PICK s \in Int : cmx.events[k] = Statement(c, s)
        BY <1>1 DEF CmxStated
      <3> HIDE DEF c
      <3>3. /\ ClipFrames(c).markIn \in Int /\ ClipFrames(c).markOut \in Int
            /\ s + ClipFrames(c).duration \in Int
        BY <3>1, ClipInFrames
      <3>4. \E o \in Int : t = CmxTimecode(c.rate, o)
        BY <3>2, <3>3 DEF Statement, RecordTimecode
      <3>5. c.rate \in Rational
        BY <3>1, ClipsAssumption
      <3>6. PICK o \in Int : t = CmxTimecode(c.rate, o)
        BY <3>4
      <3>7. Sound(CmxTimecode(c.rate, o))
        BY <3>5, CmxTimecodeShows
      <3> QED
        BY <3>6, <3>7, SoundIsPrintable
    <2> QED
      BY <2>1, <2>2, <2>3, Zenon DEF WTypeOK
  <1>2. CmxSpec => []CmxRefusal
    BY CmxStatedAlways, CmxRefusalInit, CmxRefusalStep, PTL DEF CmxSpec
  <1>3. FcSpec => []FcRefusal
    BY FcInvAlways, FcRefusalInit, FcRefusalStep, PTL DEF FcSpec
  <1>4. FcInit => FcClosed
    BY DEF FcInit, FcClosed
  <1>5. FcSpec => []FcClosed
    BY <1>4, FcInvAlways, FcClosedStep, PTL DEF FcSpec
  <1>6. AafInit => AafFaults
    BY DEF AafInit, AafFaults, Faults
  <1>7. AafSpec => []AafFaults
    BY <1>6, AafInvAlways, AafFaultsStep, PTL DEF AafSpec
  <1> QED
    BY <1>1, <1>2, <1>3, <1>5, <1>7, CmxStatedAlways, FcInvAlways, AafInvAlways,
       AafSavedLastAlways, WritersRunEach, PTL

-----------------------------------------------------------------------------
(* The three calls at once                                                    *)

\* Interleaved as the pool's threads run them, the three calls still write a
\* playlist each.
THEOREM WritersImplementPlaylists == WSpec => CmxPlays /\ FcPlays /\ AafPlays
  BY WritersRunEach, CmxImplementsPlaylist, FcImplementsPlaylist, AafImplementsPlaylist, PTL

\* And what holds of each call alone holds of each of them.
THEOREM WritersKeepTheirOwn ==
    WSpec => []/\ CmxKeepsLength /\ CmxShowsMarks
               /\ FcInSync /\ FcNested /\ FcIdentified
               /\ AafAligned /\ AafTimecodeLength /\ AafResolved
  BY WritersRunEach, CmxLengthsKept, CmxMarksAreShown, FcSoundInSync, FcWellNested,
     FcItemsIdentified, AafStaysAligned, AafTimecodeFits, AafReferencesResolved, PTL

=============================================================================
