------------------------- MODULE PluginReloadProofs -------------------------
(* With AutoReload: once the slot has handled every signal, the process runs  *)
(* and offers what the directory has.  The argument follows each mapping to   *)
(* the PluginLoader whose QPluginLoader remembers it, because only that one's *)
(* unload() undoes it; it needs every library to implement both interfaces    *)
(* (one that does not is mapped by a QPluginLoader that is then destroyed).   *)
EXTENDS PluginManagerProofs

USE DEF dirVars, libVars, ReplacedGone

-----------------------------------------------------------------------------
(* The invariant                                                              *)

\* The mappings the rest of the slot is still to undo.
Doomed == CASE mgr = "dropLogger" -> loader["oldLogger"].own \cup loader["edl"].own
            [] mgr = "buildEdl"   -> loader["edl"].own
            [] mgr = "dropEdl"    -> loader["oldEdl"].own
            [] OTHER              -> {}

\* The directory is left alone until it is watched, and a PluginLoader that was
\* replaced is there only until the next step of the slot.
Phased ==
    /\ partial \subseteq PlainlyCopied
    /\ mgr \in CtorStates => partial = {} /\ ~notified
    /\ ReplacedGone

\* Every mapping is remembered by the QPluginLoader of some PluginLoader.
Owned == \A l \in Libs : image[l] # 0 => \E p \in LoaderIds : l \in loader[p].own

\* What is mapped is what the directory has, or a signal is on its way, or this
\* run of the slot will undo it.
Fresh == \A l \in Libs : image[l] # 0 => image[l] = disk[l] \/ notified \/ l \in Doomed

\* A library that is in the directory, complete.
Whole(l) == disk[l] # 0 /\ l \notin PlainlyCopied

\* A loader built since the last signal lists what the directory has.
LoggersListed ==
    mgr # "ctorLogger" =>
        \A l \in Libs : Whole(l) => l \in loader["logger"].files \/ notified
EdlsListed ==
    mgr \in {"ctorStorage", "ctorWatch", "dropEdl", "setStorage", "idle"} =>
        \A l \in Libs :
            /\ Whole(l) => l \in loader["edl"].files \/ notified
            /\ l \in loader["edl"].files => disk[l] # 0 \/ notified

\* The loggers were all asked for their instance at the end of the slot.
LoggersMapped ==
    mgr \in {"ctorWatch", "idle"} => \A l \in loader["logger"].files : image[l] # 0

Tracked == Alive => /\ Phased /\ Owned /\ Fresh
                    /\ LoggersListed /\ EdlsListed /\ LoggersMapped

AllImplementBoth == \A l \in Libs : Kind[l] = {"logger", "edl"}

-----------------------------------------------------------------------------
(* What the three operations on a PluginLoader do to the mappings             *)

LEMMA MappedAt ==
    ASSUME PMTypeOK, NEW S, NEW l \in Libs
    PROVE  /\ image[l] # 0 => Mapped(S)[l] = image[l]
           /\ image[l] = 0 /\ Mapped(S)[l] # 0 => l \in S /\ Mapped(S)[l] = disk[l]
BY DEF Mapped

\* A PluginLoader that is built remembers exactly the mappings it caused.
LEMMA BuildTracks ==
    ASSUME PMTypeOK, AllImplementBoth, partial \subseteq PlainlyCopied,
           NEW k \in {"logger", "edl"}, NEW old \in {"oldLogger", "oldEdl"},
           Build(k, old)
    PROVE  /\ loader'[old] = loader[k]
           /\ \A q \in LoaderIds \ {k, old} : loader'[q] = loader[q]
           /\ \A l \in Libs :
                 /\ image[l] # 0 => image'[l] = image[l]
                 /\ image[l] = 0 /\ image'[l] # 0 =>
                       image'[l] = disk[l] /\ l \in loader'[k].own
                 /\ Whole(l) => l \in loader'[k].files
                 /\ l \in loader'[k].files => disk[l] # 0
<1> DEFINE S == {l \in Libs : disk[l] # 0}
<1>1. k \in LoaderIds /\ old \in LoaderIds /\ k # old
  BY DEF LoaderIds
<1>2. /\ loader'[k] = NewLoader(k) /\ loader'[old] = loader[k]
      /\ \A q \in LoaderIds \ {k, old} : loader'[q] = loader[q]
  BY <1>1 DEF Build, PMTypeOK
<1>3. image' = Mapped(S)
  BY DEF Build
<1>4. \A l \in Libs : l \in NewLoader(k).files <=> disk[l] # 0 /\ Mapped(S)[l] # 0
  BY DEF NewLoader, AllImplementBoth
<1>5. \A l \in Libs : l \in NewLoader(k).own <=> l \in NewLoader(k).files /\ image[l] = 0
  BY DEF NewLoader
<1>6. \A l \in Libs : Whole(l) => Mapped(S)[l] # 0
  BY DEF Whole, Mapped, Loadable
<1>7. \A l \in Libs : /\ image[l] # 0 => image'[l] = image[l]
                      /\ image[l] = 0 /\ image'[l] # 0 => l \in S /\ image'[l] = disk[l]
  BY <1>3, MappedAt
<1>8. \A l \in Libs : image[l] = 0 /\ image'[l] # 0 => l \in loader'[k].own
  BY <1>2, <1>3, <1>4, <1>5, <1>7
<1>9. \A l \in Libs : /\ Whole(l) => l \in loader'[k].files
                      /\ l \in loader'[k].files => disk[l] # 0
  BY <1>2, <1>4, <1>6 DEF Whole
<1> QED
  BY <1>2, <1>7, <1>8, <1>9

\* A PluginLoader asked for its instances remembers the mappings that causes.
LEMMA TouchTracks ==
    ASSUME PMTypeOK, NEW p \in LoaderIds, image' = Mapped(ToMap(p)),
           loader' = [loader EXCEPT ![p] = Touched(p)]
    PROVE  /\ \A l \in Libs :
                 /\ image[l] # 0 => image'[l] = image[l]
                 /\ image[l] = 0 /\ image'[l] # 0 =>
                       image'[l] = disk[l] /\ l \in loader'[p].own
           /\ \A q \in LoaderIds :
                 /\ loader'[q].files = loader[q].files
                 /\ loader[q].own \subseteq loader'[q].own
                 /\ loader[q] = NoLoader => loader'[q] = NoLoader
<1>1. /\ loader'[p].files = loader[p].files
      /\ loader'[p].own = loader[p].own \cup ToMap(p)
      /\ loader'[p] \in [files : SUBSET Libs, own : SUBSET Libs]
      /\ \A q \in LoaderIds \ {p} : loader'[q] = loader[q]
  BY TouchedType DEF Touched, PMTypeOK
<1>2. \A l \in Libs : /\ image[l] # 0 => image'[l] = image[l]
                      /\ image[l] = 0 /\ image'[l] # 0 => l \in ToMap(p) /\ image'[l] = disk[l]
  BY MappedAt
<1>3. loader[p] = NoLoader => loader'[p] = NoLoader
  <2> SUFFICES ASSUME loader[p] = NoLoader PROVE loader'[p] = NoLoader
    OBVIOUS
  <2>1. ToMap(p) = {}
    BY DEF ToMap, NoLoader
  <2>2. loader'[p].files = {} /\ loader'[p].own = {}
    BY <1>1, <2>1 DEF NoLoader
  <2> QED
    BY <1>1, <2>2 DEF NoLoader
<1> QED
  BY <1>1, <1>2, <1>3

\* A PluginLoader that is destroyed undoes the mappings it remembers.
LEMMA DestroyTracks ==
    ASSUME PMTypeOK, NEW p \in LoaderIds, Destroy(p)
    PROVE  /\ \A l \in Libs : image'[l] = IF l \in loader[p].own THEN 0 ELSE image[l]
           /\ loader'[p] = NoLoader
           /\ \A q \in LoaderIds \ {p} : loader'[q] = loader[q]
BY DEF Destroy, PMTypeOK

-----------------------------------------------------------------------------
(* The main thread keeps the invariant                                        *)

LEMMA LoaderNames ==
    /\ LoaderIds = {"logger", "edl", "oldLogger", "oldEdl"}
    /\ "logger" \in LoaderIds /\ "edl" \in LoaderIds
    /\ "oldLogger" \in LoaderIds /\ "oldEdl" \in LoaderIds
BY DEF LoaderIds

LEMMA CtorTracked ==
    ASSUME PMTypeOK, AllImplementBoth, Tracked,
           CtorLogger \/ CtorEdl \/ CtorStorage \/ CtorWatch
    PROVE  Tracked'
<1> USE LoaderNames
<1>0. /\ Phased /\ Owned /\ Fresh /\ LoggersListed /\ EdlsListed /\ LoggersMapped
      /\ partial = {} /\ ~notified /\ UNCHANGED <<disk, partial, notified>>
      /\ Doomed = {}
  BY DEF Tracked, Alive, CtorLogger, CtorEdl, CtorStorage, CtorWatch, Phased,
         CtorStates, Doomed
<1>1. CASE CtorLogger
  <2>1. mgr = "ctorLogger" /\ mgr' = "ctorEdl" /\ Build("logger", "oldLogger")
    BY <1>1 DEF CtorLogger
  <2>2. loader["logger"] = NoLoader /\ loader["edl"] = NoLoader /\ loader["oldEdl"] = NoLoader
    BY <1>0, <2>1 DEF Phased
  <2>3. loader'["oldLogger"] = NoLoader /\ loader'["edl"] = NoLoader /\ loader'["oldEdl"] = NoLoader
    BY <1>0, <2>1, <2>2, BuildTracks DEF Phased
  <2>4. Phased'
    BY <1>0, <2>1, <2>3 DEF Phased, CtorStates
  <2>5. \A l \in Libs : image[l] = 0
    BY <1>0, <2>1, <2>2 DEF Owned, Phased, NoLoader
  <2>6. Owned'
    BY <1>0, <2>1, <2>5, BuildTracks DEF Owned, Phased
  <2>7. Fresh'
    BY <1>0, <2>1, <2>5, BuildTracks DEF Fresh, Phased
  <2>8. LoggersListed'
    BY <1>0, <2>1, BuildTracks DEF LoggersListed, Phased, Whole
  <2> QED
    BY <2>1, <2>4, <2>6, <2>7, <2>8 DEF Tracked, EdlsListed, LoggersMapped
<1>2. CASE CtorEdl
  <2>1. mgr = "ctorEdl" /\ mgr' = "ctorStorage" /\ Build("edl", "oldEdl")
    BY <1>2 DEF CtorEdl
  <2>2. loader["edl"] = NoLoader /\ loader["oldLogger"] = NoLoader
    BY <1>0, <2>1 DEF Phased
  <2>3. loader'["oldEdl"] = NoLoader /\ loader'["oldLogger"] = NoLoader
        /\ loader'["logger"] = loader["logger"]
    BY <1>0, <2>1, <2>2, BuildTracks DEF Phased
  <2>4. Phased'
    BY <1>0, <2>1, <2>3 DEF Phased, CtorStates
  <2>5. Owned'
    <3> SUFFICES ASSUME NEW l \in Libs, image'[l] # 0
                 PROVE  \E p \in LoaderIds : l \in loader'[p].own
      BY DEF Owned
    <3>1. CASE image[l] = 0
      BY <1>0, <2>1, <3>1, BuildTracks DEF Phased
    <3>2. CASE image[l] # 0
      BY <1>0, <2>1, <2>2, <2>3, <3>2 DEF Owned, Phased, NoLoader
    <3> QED
      BY <3>1, <3>2
  <2>6. Fresh'
    BY <1>0, <2>1, BuildTracks DEF Fresh, Phased
  <2>7. LoggersListed'
    BY <1>0, <2>1, <2>3 DEF LoggersListed, Whole
  <2>8. EdlsListed'
    BY <1>0, <2>1, BuildTracks DEF EdlsListed, Phased, Whole
  <2> QED
    BY <2>1, <2>4, <2>5, <2>6, <2>7, <2>8 DEF Tracked, LoggersMapped
<1>3. CASE CtorStorage
  <2> SUFFICES ASSUME Alive' PROVE Tracked'
    BY DEF Tracked
  <2>1. /\ mgr = "ctorStorage" /\ mgr' = "ctorWatch" /\ Absent("logger") = {}
        /\ image' = Mapped(ToMap("logger"))
        /\ loader' = [loader EXCEPT !["logger"] = Touched("logger")]
    BY <1>3 DEF CtorStorage, SetStorage, Alive
  <2>2. Phased'
    BY <1>0, <2>1, TouchTracks DEF Phased, CtorStates
  <2>3. Owned'
    BY <2>1, <1>0, TouchTracks DEF Owned
  <2>4. Fresh'
    BY <2>1, <1>0, TouchTracks DEF Fresh
  <2>5. LoggersListed' /\ EdlsListed'
    BY <2>1, <1>0, TouchTracks DEF LoggersListed, EdlsListed, Whole
  <2>6. LoggersMapped'
    BY <2>1, TouchTracks DEF LoggersMapped, Absent, PMTypeOK
  <2> QED
    BY <2>2, <2>3, <2>4, <2>5, <2>6 DEF Tracked
<1>4. CASE CtorWatch
  <2>1. mgr = "ctorWatch" /\ mgr' = "idle" /\ UNCHANGED <<image, loader>>
    BY <1>4 DEF CtorWatch
  <2>2. Phased'
    BY <1>0, <2>1 DEF Phased, CtorStates
  <2>3. Owned' /\ Fresh'
    BY <1>0, <2>1 DEF Owned, Fresh
  <2>4. LoggersListed' /\ EdlsListed' /\ LoggersMapped'
    BY <1>0, <2>1 DEF LoggersListed, EdlsListed, LoggersMapped, Whole
  <2> QED
    BY <2>2, <2>3, <2>4 DEF Tracked
<1> QED
  BY <1>1, <1>2, <1>3, <1>4

LEMMA SlotTracked ==
    ASSUME PMTypeOK, AllImplementBoth, Tracked,
           HandleChange \/ DropLogger \/ BuildEdl \/ DropEdl \/ ShareStorage
    PROVE  Tracked'
<1> USE LoaderNames
<1>0. /\ Phased /\ Owned /\ Fresh /\ LoggersListed /\ EdlsListed /\ LoggersMapped
      /\ UNCHANGED <<disk, partial>>
  BY DEF Tracked, Alive, HandleChange, DropLogger, BuildEdl, DropEdl, ShareStorage
<1>1. CASE HandleChange
  <2>1. /\ mgr = "idle" /\ mgr' = "dropLogger" /\ ~notified'
        /\ Build("logger", "oldLogger")
    BY <1>1 DEF HandleChange
  <2>2. loader["oldLogger"] = NoLoader /\ loader["oldEdl"] = NoLoader
    BY <1>0, <2>1 DEF Phased
  <2>3. /\ loader'["oldLogger"] = loader["logger"] /\ loader'["edl"] = loader["edl"]
        /\ loader'["oldEdl"] = NoLoader
    BY <1>0, <2>1, <2>2, BuildTracks DEF Phased
  <2>4. Phased'
    BY <1>0, <2>1, <2>3 DEF Phased, CtorStates
  <2>5. \A l \in Libs : image[l] # 0 => l \in loader["logger"].own \cup loader["edl"].own
    BY <1>0, <2>2 DEF Owned, NoLoader
  <2>6. Owned'
    <3> SUFFICES ASSUME NEW l \in Libs, image'[l] # 0
                 PROVE  \E p \in LoaderIds : l \in loader'[p].own
      BY DEF Owned
    <3>1. CASE image[l] = 0
      BY <1>0, <2>1, <3>1, BuildTracks DEF Phased
    <3>2. CASE image[l] # 0
      BY <2>3, <2>5, <3>2
    <3> QED
      BY <3>1, <3>2
  <2>7. Fresh'
    <3> SUFFICES ASSUME NEW l \in Libs, image'[l] # 0
                 PROVE  image'[l] = disk'[l] \/ l \in Doomed'
      BY DEF Fresh
    <3>1. CASE image[l] = 0
      BY <1>0, <2>1, <3>1, BuildTracks DEF Phased
    <3>2. CASE image[l] # 0
      BY <2>1, <2>3, <2>5, <3>2 DEF Doomed
    <3> QED
      BY <3>1, <3>2
  <2>8. LoggersListed'
    BY <1>0, <2>1, BuildTracks DEF LoggersListed, Phased, Whole
  <2> QED
    BY <2>1, <2>4, <2>6, <2>7, <2>8 DEF Tracked, EdlsListed, LoggersMapped
<1>2. CASE DropLogger
  <2>1. mgr = "dropLogger" /\ mgr' = "buildEdl" /\ Destroy("oldLogger") /\ notified' = notified
    BY <1>2 DEF DropLogger
  <2>2. /\ \A l \in Libs : image'[l] = IF l \in loader["oldLogger"].own THEN 0 ELSE image[l]
        /\ loader'["oldLogger"] = NoLoader /\ loader'["edl"] = loader["edl"]
        /\ loader'["logger"] = loader["logger"] /\ loader'["oldEdl"] = loader["oldEdl"]
    BY <2>1, DestroyTracks
  <2>3. Phased'
    BY <1>0, <2>1, <2>2 DEF Phased, CtorStates
  <2>4. Owned'
    BY <1>0, <2>2 DEF Owned
  <2>5. Fresh'
    BY <1>0, <2>1, <2>2 DEF Fresh, Doomed
  <2>6. LoggersListed'
    BY <1>0, <2>1, <2>2 DEF LoggersListed, Whole
  <2> QED
    BY <2>1, <2>3, <2>4, <2>5, <2>6 DEF Tracked, EdlsListed, LoggersMapped
<1>3. CASE BuildEdl
  <2>1. mgr = "buildEdl" /\ mgr' = "dropEdl" /\ Build("edl", "oldEdl") /\ notified' = notified
    BY <1>3 DEF BuildEdl
  <2>2. loader["oldLogger"] = NoLoader /\ loader["oldEdl"] = NoLoader
    BY <1>0, <2>1 DEF Phased
  <2>3. /\ loader'["oldEdl"] = loader["edl"] /\ loader'["logger"] = loader["logger"]
        /\ loader'["oldLogger"] = NoLoader
    BY <1>0, <2>1, <2>2, BuildTracks DEF Phased
  <2>4. Phased'
    BY <1>0, <2>1, <2>3 DEF Phased, CtorStates
  <2>5. Owned'
    <3> SUFFICES ASSUME NEW l \in Libs, image'[l] # 0
                 PROVE  \E p \in LoaderIds : l \in loader'[p].own
      BY DEF Owned
    <3>1. CASE image[l] = 0
      BY <1>0, <2>1, <3>1, BuildTracks DEF Phased
    <3>2. CASE image[l] # 0
      BY <1>0, <2>2, <2>3, <3>2 DEF Owned, NoLoader
    <3> QED
      BY <3>1, <3>2
  <2>6. Fresh'
    <3> SUFFICES ASSUME NEW l \in Libs, image'[l] # 0
                 PROVE  image'[l] = disk'[l] \/ notified' \/ l \in Doomed'
      BY DEF Fresh
    <3>1. CASE image[l] = 0
      BY <1>0, <2>1, <3>1, BuildTracks DEF Phased
    <3>2. CASE image[l] # 0
      <4>1. image'[l] = image[l]
        BY <1>0, <2>1, <3>2, BuildTracks DEF Phased
      <4> QED
        BY <1>0, <2>1, <2>3, <3>2, <4>1 DEF Fresh, Doomed
    <3> QED
      BY <3>1, <3>2
  <2>7. LoggersListed'
    BY <1>0, <2>1, <2>3 DEF LoggersListed, Whole
  <2>8. EdlsListed'
    BY <1>0, <2>1, BuildTracks DEF EdlsListed, Phased, Whole
  <2> QED
    BY <2>1, <2>4, <2>5, <2>6, <2>7, <2>8 DEF Tracked, LoggersMapped
<1>4. CASE DropEdl
  <2>1. mgr = "dropEdl" /\ mgr' = "setStorage" /\ Destroy("oldEdl") /\ notified' = notified
    BY <1>4 DEF DropEdl
  <2>2. /\ \A l \in Libs : image'[l] = IF l \in loader["oldEdl"].own THEN 0 ELSE image[l]
        /\ loader'["oldEdl"] = NoLoader /\ loader'["edl"] = loader["edl"]
        /\ loader'["logger"] = loader["logger"] /\ loader'["oldLogger"] = loader["oldLogger"]
    BY <2>1, DestroyTracks
  <2>3. Phased'
    BY <1>0, <2>1, <2>2 DEF Phased, CtorStates
  <2>4. Owned'
    BY <1>0, <2>2 DEF Owned
  <2>5. Fresh'
    BY <1>0, <2>1, <2>2 DEF Fresh, Doomed
  <2>6. LoggersListed' /\ EdlsListed'
    BY <1>0, <2>1, <2>2 DEF LoggersListed, EdlsListed, Whole
  <2> QED
    BY <2>1, <2>3, <2>4, <2>5, <2>6 DEF Tracked, LoggersMapped
<1>5. CASE ShareStorage
  <2> SUFFICES ASSUME Alive' PROVE Tracked'
    BY DEF Tracked
  <2>1. /\ mgr = "setStorage" /\ mgr' = "idle" /\ Absent("logger") = {}
        /\ image' = Mapped(ToMap("logger")) /\ notified' = notified
        /\ loader' = [loader EXCEPT !["logger"] = Touched("logger")]
    BY <1>5 DEF ShareStorage, SetStorage, Alive
  <2>2. Phased'
    BY <1>0, <2>1, TouchTracks DEF Phased, CtorStates
  <2>3. Owned'
    BY <2>1, <1>0, TouchTracks DEF Owned
  <2>4. Fresh'
    BY <2>1, <1>0, TouchTracks DEF Fresh, Doomed
  <2>5. LoggersListed' /\ EdlsListed'
    BY <2>1, <1>0, TouchTracks DEF LoggersListed, EdlsListed, Whole
  <2>6. LoggersMapped'
    BY <2>1, TouchTracks DEF LoggersMapped, Absent, PMTypeOK
  <2> QED
    BY <2>2, <2>3, <2>4, <2>5, <2>6 DEF Tracked
<1> QED
  BY <1>1, <1>2, <1>3, <1>4, <1>5

-----------------------------------------------------------------------------
(* So do the pool threads and the directory                                   *)

LEMMA LookupTracked ==
    ASSUME PMTypeOK, Tracked, NEW w \in Workers, Lookup(w)
    PROVE  Tracked'
<1> SUFFICES ASSUME Alive' PROVE Tracked'
  BY DEF Tracked
<1>0. /\ Built /\ mgr' = mgr /\ UNCHANGED <<disk, partial, notified>>
  BY DEF Lookup, ReadLoader, GetInstances, Leave, EnumerateNull, PluginFails, Fault,
         FindHit, FindMiss, FindNull, Alive
<1>1. Phased /\ Owned /\ Fresh /\ LoggersListed /\ EdlsListed /\ LoggersMapped
  BY <1>0 DEF Tracked, Built
<1>2. CASE GetInstances(w)
  <2> DEFINE p == use[w].from
  <2>1. /\ p \in LoaderIds /\ image' = Mapped(ToMap(p))
        /\ loader' = [loader EXCEPT ![p] = Touched(p)]
    BY <1>2 DEF GetInstances, PMTypeOK, Uses, LoaderIds
  <2> HIDE DEF p
  <2>2. /\ \A l \in Libs :
              /\ image[l] # 0 => image'[l] = image[l]
              /\ image[l] = 0 /\ image'[l] # 0 => image'[l] = disk[l] /\ l \in loader'[p].own
        /\ \A q \in LoaderIds :
              /\ loader'[q].files = loader[q].files
              /\ loader[q].own \subseteq loader'[q].own
              /\ loader[q] = NoLoader => loader'[q] = NoLoader
    BY <2>1, TouchTracks
  <2>3. Phased'
    BY <1>0, <1>1, <2>2, LoaderNames DEF Phased, Built
  <2>4. Owned'
    BY <1>1, <2>1, <2>2 DEF Owned
  <2>5. Doomed \subseteq Doomed'
    BY <1>0, <2>2, LoaderNames DEF Doomed
  <2>6. Fresh'
    BY <1>0, <1>1, <2>2, <2>5 DEF Fresh
  <2>7. LoggersListed' /\ EdlsListed'
    BY <1>0, <1>1, <2>2, LoaderNames DEF LoggersListed, EdlsListed, Whole
  <2>8. LoggersMapped'
    BY <1>0, <1>1, <2>2, LoaderNames DEF LoggersMapped, PMTypeOK
  <2> QED
    BY <2>3, <2>4, <2>6, <2>7, <2>8 DEF Tracked
<1>3. CASE ~GetInstances(w)
  <2>1. UNCHANGED <<image, loader>>
    BY <1>3 DEF Lookup, ReadLoader, Leave, EnumerateNull, PluginFails, Fault,
                FindHit, FindMiss, FindNull
  <2>2. Phased' /\ Owned' /\ Fresh'
    BY <1>0, <1>1, <2>1 DEF Phased, Owned, Fresh, Doomed
  <2>3. LoggersListed' /\ EdlsListed' /\ LoggersMapped'
    BY <1>0, <1>1, <2>1 DEF LoggersListed, EdlsListed, LoggersMapped, Whole
  <2> QED
    BY <2>2, <2>3 DEF Tracked
<1> QED
  BY <1>2, <1>3

LEMMA DirectoryTracked ==
    ASSUME AutoReload, ~StartupChanges, PMTypeOK, Tracked, Directory
    PROVE  Tracked'
<1> SUFFICES ASSUME Alive' PROVE Tracked'
  BY DEF Tracked
<1> PICK f \in Libs : Place(f) \/ Delete(f) \/ StartCopy(f) \/ FinishCopy(f)
  BY DEF Directory
<1>0. mgr' = mgr /\ UNCHANGED <<image, loader>> /\ Doomed' = Doomed
  BY DEF Place, Delete, StartCopy, FinishCopy, Change, Doomed
<1>1. Phased /\ Owned /\ Fresh /\ LoggersListed /\ EdlsListed /\ LoggersMapped
  BY <1>0 DEF Tracked, Alive
<1>2. Owned' /\ LoggersMapped'
  BY <1>0, <1>1 DEF Owned, LoggersMapped
<1>3. CASE Place(f) \/ Delete(f) \/ StartCopy(f)
  <2>1. mgr \notin CtorStates
    BY <1>3 DEF Place, Delete, StartCopy, Change
  <2>2. notified'
    BY <1>0, <1>3, <2>1 DEF Place, Delete, StartCopy, Watching, Built, Alive
  <2>3. partial' \subseteq PlainlyCopied
    BY <1>1, <1>3 DEF Place, Delete, StartCopy, Phased
  <2>4. Phased'
    BY <1>0, <1>1, <2>1, <2>3 DEF Phased, CtorStates
  <2>5. Fresh' /\ LoggersListed' /\ EdlsListed'
    BY <2>2 DEF Fresh, LoggersListed, EdlsListed
  <2> QED
    BY <1>2, <2>4, <2>5 DEF Tracked
<1>4. CASE FinishCopy(f)
  <2>1. f \in partial /\ partial' = partial \ {f} /\ UNCHANGED <<disk, notified>>
    BY <1>4 DEF FinishCopy
  <2>2. Phased' /\ Fresh'
    BY <1>0, <1>1, <2>1 DEF Phased, Fresh
  <2>3. LoggersListed' /\ EdlsListed'
    BY <1>0, <1>1, <2>1 DEF LoggersListed, EdlsListed, Whole
  <2> QED
    BY <1>2, <2>2, <2>3 DEF Tracked
<1> QED
  BY <1>3, <1>4

-----------------------------------------------------------------------------

\* With AutoReload, if every library implements both interfaces and nothing is
\* installed or removed while the manager is built, then whenever the slot has
\* handled every signal the process runs and offers what the directory has.
THEOREM ReloadIsUpToDate ==
    ASSUME AutoReload, ~StartupChanges, AllImplementBoth
    PROVE  PMSpec => []UpToDate
<1>1. PMInit => Tracked
  <2> SUFFICES ASSUME PMInit PROVE Tracked
    OBVIOUS
  <2>1. mgr = "ctorLogger" /\ \A p \in LoaderIds : loader[p] = NoLoader
    BY DEF PMInit
  <2>2. Phased
    BY <2>1, LoaderNames DEF PMInit, Phased
  <2>3. Owned /\ Fresh
    BY DEF PMInit, Owned, Fresh
  <2> QED
    BY <2>1, <2>2, <2>3 DEF Tracked, LoggersListed, EdlsListed, LoggersMapped
<1>2. PMTypeOK /\ Tracked /\ [PMNext]_pmVars => Tracked'
  <2> SUFFICES ASSUME PMTypeOK, Tracked, [PMNext]_pmVars PROVE Tracked'
    OBVIOUS
  <2>1. CASE Main
    BY <2>1, CtorTracked, SlotTracked DEF Main
  <2>2. CASE Directory
    BY <2>2, DirectoryTracked
  <2>3. CASE \E w \in Workers : Lookup(w)
    BY <2>3, LookupTracked
  <2>4. CASE UNCHANGED pmVars
    <3>1. Phased' <=> Phased
      BY <2>4 DEF pmVars, Phased
    <3>2. (Owned' <=> Owned) /\ (Fresh' <=> Fresh)
      BY <2>4 DEF pmVars, Owned, Fresh, Doomed
    <3>3. /\ LoggersListed' <=> LoggersListed
          /\ EdlsListed' <=> EdlsListed
          /\ LoggersMapped' <=> LoggersMapped
      BY <2>4 DEF pmVars, LoggersListed, EdlsListed, LoggersMapped, Whole
    <3> QED
      BY <2>4, <3>1, <3>2, <3>3 DEF Tracked, Alive, pmVars
  <2> QED
    BY <2>1, <2>2, <2>3, <2>4 DEF PMNext
<1>3. PMTypeOK /\ Tracked => UpToDate
  <2> SUFFICES ASSUME PMTypeOK, Tracked, mgr = "idle", ~notified
               PROVE  /\ \A l \in Libs : Followed(l)
                      /\ \A l \in Libs \ PlainlyCopied :
                            l \in loader["edl"].files <=> disk[l] # 0 /\ "edl" \in Kind[l]
    BY DEF UpToDate
  <2>1. Fresh /\ LoggersListed /\ EdlsListed /\ LoggersMapped
    BY DEF Tracked, Alive
  <2>2. ASSUME NEW l \in Libs PROVE Followed(l)
    <3>1. CASE image[l] # 0
      BY <2>1, <3>1 DEF Fresh, Doomed, Followed
    <3>2. CASE image[l] = 0
      BY <2>1, <3>2 DEF LoggersListed, LoggersMapped, Whole, Followed
    <3> QED
      BY <3>1, <3>2
  <2>3. ASSUME NEW l \in Libs \ PlainlyCopied
        PROVE  l \in loader["edl"].files <=> disk[l] # 0 /\ "edl" \in Kind[l]
    BY <2>1 DEF EdlsListed, Whole, AllImplementBoth
  <2> QED
    BY <2>2, <2>3
<1> QED
  BY <1>1, <1>2, <1>3, PMTyping, PTL DEF PMSpec

-----------------------------------------------------------------------------
(* The slot comes to rest                                                     *)

\* A step of the main thread leaves the signals and goes one step on, is the
\* start of the slot, which takes one off, or brings the process down.
LEMMA MainGoesOn ==
    ASSUME PMTypeOK, Main
    PROVE  /\ Alive /\ changes' = changes
           /\ \/ ~Alive'
              \/ StepsLeft' = StepsLeft - 1 /\ notified' = notified
              \/ StepsLeft = 0 /\ StepsLeft' = 4 /\ notified /\ ~notified'
<1> USE DEF Alive, StepsLeft
<1>1. CASE CtorLogger \/ CtorEdl \/ CtorWatch
  BY <1>1 DEF CtorLogger, CtorEdl, CtorWatch
<1>2. CASE CtorStorage
  BY <1>2 DEF CtorStorage
<1>3. CASE HandleChange
  BY <1>3 DEF HandleChange
<1>4. CASE DropLogger \/ BuildEdl \/ DropEdl
  BY <1>4 DEF DropLogger, BuildEdl, DropEdl
<1>5. CASE ShareStorage
  BY <1>5 DEF ShareStorage
<1> QED
  BY <1>1, <1>2, <1>3, <1>4, <1>5 DEF Main

LEMMA DirectorySignals ==
    ASSUME Directory
    PROVE  /\ mgr' = mgr
           /\ \/ changes' = changes /\ notified' = notified
              \/ changes' = changes + 1 /\ notified' = (notified \/ Watching)
<1> PICK l \in Libs : Place(l) \/ Delete(l) \/ StartCopy(l) \/ FinishCopy(l)
  BY DEF Directory
<1>1. CASE Place(l) \/ Delete(l) \/ StartCopy(l)
  BY <1>1 DEF Place, Delete, StartCopy, Change
<1>2. CASE FinishCopy(l)
  BY <1>2 DEF FinishCopy
<1> QED
  BY <1>1, <1>2

\* A thread leaves the main thread where it is, or brings the process down.
LEMMA LookupSignals ==
    ASSUME NEW w \in Workers, Lookup(w)
    PROVE  /\ UNCHANGED dirVars
           /\ mgr' = mgr \/ (Alive /\ mgr' = "crashed")
<1>1. CASE ReadLoader(w) \/ GetInstances(w) \/ Leave(w)
  BY <1>1 DEF ReadLoader, GetInstances, Leave
<1>2. CASE EnumerateNull(w) \/ PluginFails(w) \/ Fault(w)
  BY <1>2 DEF EnumerateNull, PluginFails, Fault, Built
<1>3. ASSUME NEW t \in Types, FindHit(w, t) \/ FindMiss(w, t) \/ FindNull(w, t)
      PROVE  /\ UNCHANGED dirVars
             /\ mgr' = mgr \/ (Alive /\ mgr' = "crashed")
  BY <1>3 DEF FindHit, FindMiss, FindNull, Built
<1> QED
  BY <1>1, <1>2, <1>3 DEF Lookup

\* Whatever the threads do, and however often the slot was run before, it is
\* done after at most ten more steps of the main thread: only another change
\* of the directory makes it run again, and only once.
THEOREM SlotComesToRest == PMSpec => ReloadsSettle
<1> DEFINE Settles == /\ mgr' # mgr => WorkLeft' < WorkLeft
                      /\ WorkLeft' > WorkLeft => changes' = changes + 1
                                                 /\ WorkLeft' = WorkLeft + 5
<1>1. ASSUME PMTypeOK, PMTypeOK', [PMNext]_pmVars
      PROVE  Settles
  <2>1. StepsLeft \in 0..4 /\ StepsLeft' \in 0..4
    BY DEF StepsLeft
  <2>2. notified \in BOOLEAN /\ notified' \in BOOLEAN
    BY <1>1 DEF PMTypeOK
  <2>3. CASE Main
    <3>1. /\ Alive
          /\ \/ ~Alive'
             \/ StepsLeft' = StepsLeft - 1 /\ notified' = notified
             \/ StepsLeft = 0 /\ StepsLeft' = 4 /\ notified /\ ~notified'
      BY <1>1, <2>3, MainGoesOn
    <3> DEFINE n == IF notified THEN 5 ELSE 0
    <3>2. n \in {0, 5} /\ n' \in {0, 5} /\ (notified' = notified => n' = n)
          /\ (notified => n = 5) /\ (~notified' => n' = 0)
      OBVIOUS
    <3>3. WorkLeft = 1 + StepsLeft + n /\ (Alive' => WorkLeft' = 1 + StepsLeft' + n')
          /\ (~Alive' => WorkLeft' = 0)
      BY <3>1 DEF WorkLeft
    <3> HIDE DEF n
    <3>4. WorkLeft \in Nat /\ WorkLeft' \in Nat
      BY <2>1, <3>2, <3>3
    <3>5. WorkLeft' < WorkLeft
      BY <2>1, <3>1, <3>2, <3>3
    <3> QED
      BY <3>4, <3>5
  <2>4. CASE Directory
    <3>1. StepsLeft' = StepsLeft /\ Alive' = Alive
      BY <2>4, DirectorySignals DEF StepsLeft, Alive
    <3> QED
      BY <2>1, <2>2, <2>4, <3>1, DirectorySignals DEF WorkLeft, Alive
  <2>5. CASE \E w \in Workers : Lookup(w)
    <3>1. /\ changes' = changes /\ notified' = notified
          /\ mgr' = mgr \/ (Alive /\ mgr' = "crashed")
      BY <2>5, LookupSignals
    <3>2. CASE mgr' = mgr
      BY <2>1, <3>1, <3>2 DEF WorkLeft, Alive, StepsLeft
    <3>3. CASE Alive /\ mgr' = "crashed"
      BY <2>1, <2>2, <3>1, <3>3 DEF WorkLeft, Alive
    <3> QED
      BY <3>1, <3>2, <3>3
  <2>6. CASE UNCHANGED pmVars
    BY <2>1, <2>6 DEF pmVars, WorkLeft, Alive, StepsLeft
  <2> HIDE DEF Settles
  <2> QED
    BY <1>1, <2>3, <2>4, <2>5, <2>6 DEF PMNext
<1>2. PMTypeOK /\ PMTypeOK' /\ [PMNext]_pmVars => [Settles]_pmVars
  BY <1>1
<1> QED
  BY <1>2, PMTyping, PTL DEF PMSpec, ReloadsSettle

=============================================================================
