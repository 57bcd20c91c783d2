------------------------ MODULE PluginManagerProofs ------------------------
(* Theorems about PluginManager, for any libraries, threads and bounds.       *)
EXTENDS PluginManager, TLAPS

USE DEF dirVars, libVars

-----------------------------------------------------------------------------
(* Types                                                                      *)

LEMMA MappedType ==
    ASSUME image \in [Libs -> 0..MaxVersion], disk \in [Libs -> 0..MaxVersion],
           NEW S
    PROVE  Mapped(S) \in [Libs -> 0..MaxVersion]
BY DEF Mapped

LEMMA NewLoaderType ==
    ASSUME NEW k
    PROVE  NewLoader(k) \in [files : SUBSET Libs, own : SUBSET Libs]
BY DEF NewLoader

LEMMA BuildType ==
    ASSUME PMTypeOK, NEW k \in LoaderIds, NEW old \in LoaderIds, Build(k, old)
    PROVE  /\ image' \in [Libs -> 0..MaxVersion]
           /\ loader' \in [LoaderIds -> [files : SUBSET Libs, own : SUBSET Libs]]
           /\ storage' \subseteq Libs /\ stale' \subseteq Workers
BY MappedType, NewLoaderType DEF PMTypeOK, Build

LEMMA TouchedType ==
    ASSUME PMTypeOK, NEW p \in LoaderIds
    PROVE  /\ Touched(p) \in [files : SUBSET Libs, own : SUBSET Libs]
           /\ Absent(p) \subseteq Libs
BY DEF PMTypeOK, Touched, Absent, ToMap

LEMMA SetStorageType ==
    ASSUME PMTypeOK, SetStorage
    PROVE  /\ image' \in [Libs -> 0..MaxVersion]
           /\ loader' \in [LoaderIds -> [files : SUBSET Libs, own : SUBSET Libs]]
           /\ storage' \subseteq Libs /\ stale' \subseteq Workers
BY MappedType, TouchedType DEF PMTypeOK, SetStorage, LoaderIds

LEMMA DestroyType ==
    ASSUME PMTypeOK, NEW p \in LoaderIds, Destroy(p)
    PROVE  /\ image' \in [Libs -> 0..MaxVersion]
           /\ loader' \in [LoaderIds -> [files : SUBSET Libs, own : SUBSET Libs]]
           /\ storage' \subseteq Libs /\ stale' \subseteq Workers
BY BoundAssumption DEF PMTypeOK, Destroy, NoLoader

\* No step of anybody leaves a PluginLoader where there should be none.
LEMMA ReplacedStep ==
    ASSUME PMTypeOK, [PMNext]_pmVars
    PROVE  (Alive => ReplacedGone)'
<1> SUFFICES ASSUME Alive' PROVE ReplacedGone'
  OBVIOUS
<1> USE DEF Alive, ReplacedGone, LoaderIds
<1>0. Alive => ReplacedGone
  BY DEF PMTypeOK
<1>1. CASE Main
  <2>0. ASSUME NEW k \in LoaderIds, NEW old \in LoaderIds, k # old, Build(k, old)
        PROVE  /\ loader'[old] = loader[k]
               /\ \A q \in LoaderIds \ {k, old} : loader'[q] = loader[q]
    BY <2>0 DEF Build, PMTypeOK
  <2>1. CASE CtorLogger \/ CtorEdl \/ HandleChange \/ BuildEdl
    BY <1>0, <2>0, <2>1 DEF CtorLogger, CtorEdl, HandleChange, BuildEdl
  <2>2. CASE CtorStorage \/ ShareStorage
    BY <1>0, <2>2 DEF CtorStorage, ShareStorage, SetStorage, PMTypeOK
  <2>3. CASE DropLogger \/ DropEdl
    BY <1>0, <2>3 DEF DropLogger, DropEdl, Destroy, PMTypeOK
  <2>4. CASE CtorWatch
    BY <1>0, <2>4 DEF CtorWatch
  <2> QED
    BY <1>1, <2>1, <2>2, <2>3, <2>4 DEF Main
<1>2. CASE Directory
  BY <1>0, <1>2 DEF Directory, Place, Delete, StartCopy, FinishCopy, Change
<1>3. ASSUME NEW w \in Workers, Lookup(w) PROVE ReplacedGone'
  <2>1. CASE GetInstances(w)
    <3>1. \A q \in LoaderIds : loader[q] = NoLoader => loader'[q] = NoLoader
      <4> SUFFICES ASSUME NEW q \in LoaderIds, loader[q] = NoLoader
                   PROVE  loader'[q] = NoLoader
        OBVIOUS
      <4>1. ToMap(q) = {}
        BY DEF ToMap, NoLoader
      <4>2. Touched(q) = NoLoader
        BY <4>1 DEF Touched, NoLoader
      <4> QED
        BY <2>1, <4>2 DEF GetInstances, PMTypeOK
    <3>2. mgr' = mgr
      BY <2>1 DEF GetInstances
    <3> QED
      BY <1>0, <3>1, <3>2
  <2>2. CASE ~GetInstances(w)
    BY <1>0, <1>3, <2>2 DEF Lookup, ReadLoader, Leave, EnumerateNull, PluginFails, Fault,
                            FindHit, FindMiss, FindNull
  <2> QED
    BY <2>1, <2>2
<1>4. CASE UNCHANGED pmVars
  BY <1>0, <1>4 DEF pmVars
<1> QED
  BY <1>1, <1>2, <1>3, <1>4 DEF PMNext

\* Every reachable state has the types PMTypeOK gives its variables.
THEOREM PMTyping == PMSpec => []PMTypeOK
<1>1. PMInit => PMTypeOK
  <2> SUFFICES ASSUME PMInit PROVE PMTypeOK
    OBVIOUS
  <2>1. loader \in [LoaderIds -> [files : SUBSET Libs, own : SUBSET Libs]]
    BY DEF PMInit, NoLoader
  <2>2. use \in [Workers -> Uses]
    BY DEF PMInit, NoUse, Uses
  <2>3. mgr \in MgrStates
    BY DEF PMInit, MgrStates, CtorStates
  <2>4. image \in [Libs -> 0..MaxVersion] /\ changes \in 0..MaxChanges
    BY BoundAssumption DEF PMInit
  <2>5. /\ disk \in [Libs -> 0..MaxVersion] /\ partial \subseteq Libs
        /\ notified \in BOOLEAN /\ storage \subseteq Libs /\ stale \subseteq Workers
    BY DEF PMInit
  <2>6. ReplacedGone
    BY DEF PMInit, ReplacedGone, LoaderIds
  <2> QED
    BY <2>1, <2>2, <2>3, <2>4, <2>5, <2>6 DEF PMTypeOK
<1>2. PMTypeOK /\ [PMNext]_pmVars => PMTypeOK'
  <2> SUFFICES ASSUME PMTypeOK, [PMNext]_pmVars PROVE PMTypeOK'
    OBVIOUS
  <2> USE ReplacedStep
  <2>1. ASSUME Main PROVE PMTypeOK'
    <3>1. CASE CtorLogger
      BY <3>1, BuildType DEF CtorLogger, PMTypeOK, MgrStates, CtorStates, LoaderIds
    <3>2. CASE CtorEdl
      BY <3>2, BuildType DEF CtorEdl, PMTypeOK, MgrStates, CtorStates, LoaderIds
    <3>3. CASE CtorStorage
      BY <3>3, SetStorageType DEF CtorStorage, PMTypeOK, MgrStates, CtorStates
    <3>4. CASE CtorWatch
      BY <3>4 DEF CtorWatch, PMTypeOK, MgrStates
    <3>5. CASE HandleChange
      BY <3>5, BuildType DEF HandleChange, PMTypeOK, MgrStates, LoaderIds
    <3>6. CASE DropLogger
      BY <3>6, DestroyType DEF DropLogger, PMTypeOK, MgrStates, LoaderIds
    <3>7. CASE BuildEdl
      <4>1. use' \in [Workers -> Uses]
        BY <3>7 DEF BuildEdl, PMTypeOK, Uses
      <4> QED
        BY <3>7, <4>1, BuildType DEF BuildEdl, PMTypeOK, MgrStates, LoaderIds
    <3>8. CASE DropEdl
      BY <3>8, DestroyType DEF DropEdl, PMTypeOK, MgrStates, LoaderIds
    <3>9. CASE ShareStorage
      BY <3>9, SetStorageType DEF ShareStorage, PMTypeOK, MgrStates
    <3> QED
      BY <2>1, <3>1, <3>2, <3>3, <3>4, <3>5, <3>6, <3>7, <3>8, <3>9 DEF Main
  <2>2. ASSUME NEW l \in Libs, Place(l) \/ Delete(l) \/ StartCopy(l) \/ FinishCopy(l)
        PROVE  PMTypeOK'
    <3> USE BoundAssumption DEF PMTypeOK, Change, Versions, Watching, Built, Alive
    <3>1. CASE Place(l)
      BY <3>1, ReloadAssumption DEF Place
    <3>2. CASE Delete(l)
      BY <3>2, ReloadAssumption DEF Delete
    <3>3. CASE StartCopy(l)
      BY <3>3, ReloadAssumption DEF StartCopy
    <3>4. CASE FinishCopy(l)
      BY <3>4 DEF FinishCopy
    <3> QED
      BY <2>2, <3>1, <3>2, <3>3, <3>4
  <2>3. ASSUME NEW w \in Workers, Lookup(w) PROVE PMTypeOK'
    <3>1. CASE ReadLoader(w)
      BY <3>1 DEF ReadLoader, PMTypeOK, NoUse, Uses
    <3>2. CASE GetInstances(w)
      <4> DEFINE p == use[w].from
      <4>1. p \in LoaderIds
        BY DEF PMTypeOK, Uses, LoaderIds
      <4>2. loader[p].files \subseteq Libs /\ Absent(p) \subseteq Libs
            /\ Touched(p) \in [files : SUBSET Libs, own : SUBSET Libs]
        BY <4>1, TouchedType DEF PMTypeOK
      <4>3. use' \in [Workers -> Uses]
        <5>1. use[w] \in Uses /\ use \in [Workers -> Uses]
          BY DEF PMTypeOK
        <5>2. loader[p].files \ Absent(p) \in SUBSET Libs
          BY <4>2
        <5>3. [use[w] EXCEPT !.st = "listed", !.libs = loader[p].files \ Absent(p),
                             !.absent = Absent(p)] \in Uses
          BY <5>1, <5>2, <4>2 DEF Uses
        <5>4. use' = [use EXCEPT ![w] = [@ EXCEPT !.st = "listed",
                                                  !.libs = loader[p].files \ Absent(p),
                                                  !.absent = Absent(p)]]
          BY <3>2 DEF GetInstances
        <5> QED
          BY <5>1, <5>3, <5>4
      <4>4. image' \in [Libs -> 0..MaxVersion]
        BY <3>2, MappedType DEF GetInstances, PMTypeOK
      <4>5. loader' \in [LoaderIds -> [files : SUBSET Libs, own : SUBSET Libs]]
        BY <3>2, <4>1, <4>2 DEF GetInstances, PMTypeOK
      <4> QED
        BY <3>2, <4>3, <4>4, <4>5 DEF GetInstances, PMTypeOK
    <3>3. CASE Leave(w)
      BY <3>3 DEF Leave, PMTypeOK, NoUse, Uses
    <3>4. CASE EnumerateNull(w) \/ PluginFails(w) \/ Fault(w)
      BY <3>4 DEF EnumerateNull, PluginFails, Fault, PMTypeOK, MgrStates
    <3>5. ASSUME NEW t \in Types, FindHit(w, t) PROVE PMTypeOK'
      <4> PICK l \in Matches(w, t) :
              use' = [use EXCEPT ![w] = [@ EXCEPT !.st = "inside", !.libs = {l},
                                                 !.absent = {}]]
        BY <3>5 DEF FindHit
      <4>1. l \in Libs
        BY DEF Matches, PMTypeOK, Uses
      <4>2. use' \in [Workers -> Uses]
        BY <4>1 DEF PMTypeOK, Uses
      <4> QED
        BY <3>5, <4>2 DEF FindHit, PMTypeOK
    <3>6. ASSUME NEW t \in Types, FindMiss(w, t) \/ FindNull(w, t) PROVE PMTypeOK'
      BY <3>6 DEF FindMiss, FindNull, PMTypeOK, NoUse, Uses, MgrStates
    <3> QED
      BY <2>3, <3>1, <3>2, <3>3, <3>4, <3>5, <3>6 DEF Lookup
  <2>4. CASE UNCHANGED pmVars
    BY <2>4 DEF pmVars, PMTypeOK
  <2> QED
    BY <2>1, <2>2, <2>3, <2>4 DEF PMNext, Directory
<1> QED
  BY <1>1, <1>2, PTL DEF PMSpec

-----------------------------------------------------------------------------
(* Without AutoReload                                                         *)

\* The slot never runs, so no PluginLoader is ever destroyed, and what the EDL
\* loader kept stays mapped.
Settled == CtorStates \cup {"idle", "crashed"}
Quiet ==
    /\ mgr \in Settled
    /\ ~notified
    /\ stale = {}
    /\ \A w \in Workers : use[w].from = "edl"
    /\ mgr \in {"ctorStorage", "ctorWatch", "idle"} =>
          \A l \in loader["edl"].files : image[l] # 0

\* Asking for instances maps libraries, and unmaps none.
LEMMA TouchKeeps ==
    ASSUME PMTypeOK, NEW p \in LoaderIds, NEW q \in LoaderIds,
           image' = Mapped(ToMap(p)),
           loader' = [loader EXCEPT ![p] = Touched(p)]
    PROVE  /\ loader'[q].files = loader[q].files
           /\ \A l \in Libs : image[l] # 0 => image'[l] = image[l]
<1>1. \A l \in Libs : image[l] # 0 => image'[l] = image[l]
  BY DEF Mapped, PMTypeOK
<1>2. loader'[q].files = loader[q].files
  BY DEF Touched, PMTypeOK
<1> QED
  BY <1>1, <1>2

LEMMA QuietInvariant ==
    ASSUME ~AutoReload
    PROVE  PMSpec => [](PMTypeOK /\ Quiet)
<1> USE DEF Settled, CtorStates
<1>1. PMInit => Quiet
  BY DEF PMInit, Quiet, NoUse
<1>2. PMTypeOK /\ Quiet /\ [PMNext]_pmVars => Quiet'
  <2> SUFFICES ASSUME PMTypeOK, Quiet, [PMNext]_pmVars PROVE Quiet'
    OBVIOUS
  <2>1. ASSUME Main PROVE Quiet'
    <3>1. CASE CtorLogger
      BY <3>1 DEF CtorLogger, Quiet, Build
    <3>2. CASE CtorEdl
      <4>1. loader'["edl"] = NewLoader("edl")
        BY <3>2 DEF CtorEdl, Build, PMTypeOK, LoaderIds
      <4>2. image' = Mapped({l \in Libs : disk[l] # 0})
        BY <3>2 DEF CtorEdl, Build
      <4>3. \A l \in loader'["edl"].files : image'[l] # 0
        BY <4>1, <4>2 DEF NewLoader
      <4> QED
        BY <3>2, <4>3 DEF CtorEdl, Quiet, Build
    <3>3. CASE CtorStorage
      <4>1. "logger" \in LoaderIds /\ "edl" \in LoaderIds
        BY DEF LoaderIds
      <4>2. /\ loader'["edl"].files = loader["edl"].files
            /\ \A l \in Libs : image[l] # 0 => image'[l] = image[l]
        BY <3>3, <4>1, TouchKeeps DEF CtorStorage, SetStorage
      <4>3. loader["edl"].files \subseteq Libs
        BY <4>1 DEF PMTypeOK
      <4> QED
        BY <3>3, <4>2, <4>3 DEF CtorStorage, SetStorage, Quiet
    <3>4. CASE CtorWatch
      BY <3>4 DEF CtorWatch, Quiet
    <3>5. CASE HandleChange \/ DropLogger \/ BuildEdl \/ DropEdl \/ ShareStorage
      BY <3>5 DEF HandleChange, DropLogger, BuildEdl, DropEdl, ShareStorage, Quiet
    <3> QED
      BY <2>1, <3>1, <3>2, <3>3, <3>4, <3>5 DEF Main
  <2>2. ASSUME NEW l \in Libs, Place(l) \/ Delete(l) \/ StartCopy(l) \/ FinishCopy(l)
        PROVE  Quiet'
    <3>1. ~Watching /\ ~notified
      BY DEF Watching, Quiet
    <3>2. ~notified'
      BY <2>2, <3>1 DEF Place, Delete, StartCopy, FinishCopy
    <3>3. UNCHANGED <<libVars, mgr, use>>
      BY <2>2 DEF Place, Delete, StartCopy, FinishCopy, Change
    <3> QED
      BY <3>2, <3>3 DEF Quiet
  <2>3. ASSUME NEW w \in Workers, Lookup(w) PROVE Quiet'
    <3>1. CASE ReadLoader(w)
      BY <3>1 DEF ReadLoader, Quiet, NoUse, PMTypeOK
    <3>2. CASE GetInstances(w)
      <4>1. use[w].from = "edl" /\ "edl" \in LoaderIds
        BY DEF Quiet, LoaderIds
      <4>2. /\ loader'["edl"].files = loader["edl"].files
            /\ \A l \in Libs : image[l] # 0 => image'[l] = image[l]
        BY <3>2, <4>1, TouchKeeps DEF GetInstances
      <4>3. loader["edl"].files \subseteq Libs
        BY <4>1 DEF PMTypeOK
      <4>4. \A v \in Workers : use'[v].from = "edl"
        BY <3>2 DEF GetInstances, Quiet, PMTypeOK, Uses
      <4> QED
        BY <3>2, <4>2, <4>3, <4>4 DEF GetInstances, Quiet
    <3>3. CASE Leave(w)
      BY <3>3 DEF Leave, Quiet, NoUse, PMTypeOK
    <3>4. CASE EnumerateNull(w) \/ PluginFails(w) \/ Fault(w)
      BY <3>4 DEF EnumerateNull, PluginFails, Fault, Quiet
    <3>5. ASSUME NEW t \in Types, FindHit(w, t) PROVE Quiet'
      <4>1. \A v \in Workers : use'[v].from = "edl"
        BY <3>5 DEF FindHit, Quiet, PMTypeOK, Uses
      <4> QED
        BY <3>5, <4>1 DEF FindHit, Quiet
    <3>6. ASSUME NEW t \in Types, FindMiss(w, t) \/ FindNull(w, t) PROVE Quiet'
      BY <3>6 DEF FindMiss, FindNull, Quiet, NoUse, PMTypeOK
    <3> QED
      BY <2>3, <3>1, <3>2, <3>3, <3>4, <3>5, <3>6 DEF Lookup
  <2>4. CASE UNCHANGED pmVars
    BY <2>4 DEF pmVars, Quiet
  <2> QED
    BY <2>1, <2>2, <2>3, <2>4 DEF PMNext, Directory
<1> QED
  BY <1>1, <1>2, PMTyping, PTL DEF PMSpec

\* Without AutoReload no thread ever holds an interface of an unloaded library
\* or iterates a destroyed PluginLoader.
THEOREM NoDanglingWithoutReload ==
    ASSUME ~AutoReload
    PROVE  PMSpec => []NoDangling
<1>1. Quiet => NoDangling
  BY DEF Quiet, NoDangling
<1> QED
  BY <1>1, QuietInvariant, PTL

\* Once the manager is built its catalogue stays, and what it keeps mapped too.
LEMMA CatalogueKept ==
    ASSUME PMTypeOK, Quiet, [PMNext]_pmVars, mgr \notin CtorStates
    PROVE  /\ mgr' \notin CtorStates
           /\ loader'["edl"].files = loader["edl"].files
           /\ Built => \A l \in loader["edl"].files : image'[l] = image[l]
<1>1. ~Main
  BY DEF Main, CtorLogger, CtorEdl, CtorStorage, CtorWatch, HandleChange,
         DropLogger, BuildEdl, DropEdl, ShareStorage, Quiet, Settled, CtorStates
<1>2. CASE Directory
  BY <1>2 DEF Directory, Place, Delete, StartCopy, FinishCopy, Change
<1>3. ASSUME NEW w \in Workers, GetInstances(w)
      PROVE  /\ mgr' = mgr /\ loader'["edl"].files = loader["edl"].files
             /\ Built => \A l \in loader["edl"].files : image'[l] = image[l]
  <2>1. use[w].from = "edl" /\ "edl" \in LoaderIds
    BY DEF Quiet, LoaderIds
  <2>2. /\ loader'["edl"].files = loader["edl"].files
        /\ \A l \in Libs : image[l] # 0 => image'[l] = image[l]
    BY <1>3, <2>1, TouchKeeps DEF GetInstances
  <2>3. Built => \A l \in loader["edl"].files : l \in Libs /\ image[l] # 0
    BY <2>1 DEF PMTypeOK, Quiet, Settled, Built, Alive
  <2> QED
    BY <1>3, <2>2, <2>3 DEF GetInstances
<1>4. ASSUME NEW w \in Workers, Lookup(w), ~GetInstances(w)
      PROVE  /\ mgr' = mgr \/ mgr' = "crashed"
             /\ UNCHANGED <<loader, image>>
  BY <1>4 DEF Lookup, ReadLoader, Leave, EnumerateNull, PluginFails, Fault,
              FindHit, FindMiss, FindNull
<1>5. CASE UNCHANGED pmVars
  BY <1>5 DEF pmVars
<1>6. "crashed" \notin CtorStates
  BY DEF CtorStates
<1> QED
  BY <1>1, <1>2, <1>3, <1>4, <1>5, <1>6 DEF PMNext

\* Without AutoReload the catalogue, and the images behind it, never change
\* once the manager is built.
THEOREM CatalogueIsStable ==
    ASSUME ~AutoReload
    PROVE  PMSpec => StableCatalogue
<1>1. PMTypeOK /\ Quiet /\ [PMNext]_pmVars =>
          [Built => /\ loader'["edl"].files = loader["edl"].files
                    /\ \A l \in loader["edl"].files : image'[l] = image[l]]_pmVars
  BY CatalogueKept DEF Built
<1> QED
  BY <1>1, QuietInvariant, PTL DEF PMSpec, StableCatalogue

-----------------------------------------------------------------------------
(* Without AutoReload, and with a directory that stays as it is while the     *)
(* constructor runs: both loaders then list the same files.                   *)

Installed(k) == {l \in Libs : disk[l] # 0 /\ k \in Kind[l]}
Logged ==
    /\ mgr \in CtorStates => partial = {} /\ \A w \in Workers : use[w].libs = {}
    /\ mgr \in {"ctorEdl", "ctorStorage"} =>
          /\ loader["logger"].files = Installed("logger")
          /\ \A l \in Libs : disk[l] # 0 => image[l] # 0
    /\ mgr = "ctorStorage" => loader["edl"].files = Installed("edl")
    /\ mgr \in {"ctorWatch", "idle"} =>
          \A l \in loader["edl"].files : "logger" \in Kind[l] => l \in storage
    /\ mgr = "idle" => \A w \in Workers : use[w].libs \subseteq loader["edl"].files
    /\ \A w \in Workers : use[w].absent = {}

\* A loader built while no file is being written keeps every library of its
\* interface.
LEMMA BuildComplete ==
    ASSUME PMTypeOK, partial = {}, NEW k \in LoaderIds, NEW old \in LoaderIds,
           k # old, Build(k, old)
    PROVE  /\ loader'[k].files = Installed(k)
           /\ \A q \in LoaderIds \ {k, old} : loader'[q] = loader[q]
           /\ \A l \in Libs : disk[l] # 0 => image'[l] # 0
<1>1. \A l \in Libs : disk[l] # 0 => Mapped({m \in Libs : disk[m] # 0})[l] # 0
  BY DEF Mapped, Loadable
<1>2. NewLoader(k).files = Installed(k)
  BY <1>1 DEF NewLoader, Installed
<1>3. loader'[k] = NewLoader(k) /\ \A q \in LoaderIds \ {k, old} : loader'[q] = loader[q]
  BY DEF Build, PMTypeOK
<1> QED
  BY <1>1, <1>2, <1>3 DEF Build

\* Without AutoReload, if nothing is installed or removed while the manager is
\* built, no thread is handed a null instance, or one that lacks the logger
\* storage.
THEOREM InstancesReadyWithoutReload ==
    ASSUME ~AutoReload, ~StartupChanges
    PROVE  PMSpec => []InstancesReady
<1> USE DEF CtorStates
<1>1. PMInit => Logged
  BY DEF PMInit, Logged, NoUse
<1>2. PMTypeOK /\ Quiet /\ Logged /\ [PMNext]_pmVars => Logged'
  <2> SUFFICES ASSUME PMTypeOK, Quiet, Logged, [PMNext]_pmVars PROVE Logged'
    OBVIOUS
  <2> USE DEF Installed
  <2>0. /\ "logger" \in LoaderIds /\ "edl" \in LoaderIds
        /\ "oldLogger" \in LoaderIds /\ "oldEdl" \in LoaderIds
    BY DEF LoaderIds
  <2>1. ASSUME Main PROVE Logged'
    <3>1. CASE CtorLogger
      BY <3>1, <2>0, BuildComplete DEF CtorLogger, Logged
    <3>2. CASE CtorEdl
      BY <3>2, <2>0, BuildComplete DEF CtorEdl, Logged
    <3>3. CASE CtorStorage
      <4>1. Absent("logger") = {}
        BY <3>3, <2>0 DEF CtorStorage, Logged, Absent, Mapped
      <4>2. storage' = storage \cup Installed("logger")
        BY <3>3, <4>1 DEF CtorStorage, SetStorage, Logged
      <4>3. loader'["edl"].files = Installed("edl")
        BY <3>3, <2>0, TouchKeeps DEF CtorStorage, SetStorage, Logged
      <4> QED
        BY <3>3, <4>1, <4>2, <4>3 DEF CtorStorage, Logged
    <3>4. CASE CtorWatch
      BY <3>4 DEF CtorWatch, Logged
    <3>5. CASE HandleChange \/ DropLogger \/ BuildEdl \/ DropEdl \/ ShareStorage
      BY <3>5 DEF HandleChange, DropLogger, BuildEdl, DropEdl, ShareStorage, Quiet, Settled
    <3> QED
      BY <2>1, <3>1, <3>2, <3>3, <3>4, <3>5 DEF Main
  <2>2. ASSUME NEW l \in Libs, Place(l) \/ Delete(l) \/ StartCopy(l) \/ FinishCopy(l)
        PROVE  Logged'
    <3>1. mgr \notin CtorStates
      BY <2>2 DEF Place, Delete, StartCopy, FinishCopy, Change, Logged
    <3>2. UNCHANGED <<libVars, mgr, use>>
      BY <2>2 DEF Place, Delete, StartCopy, FinishCopy, Change
    <3> QED
      BY <3>1, <3>2 DEF Logged
  <2>3. ASSUME NEW w \in Workers, Lookup(w) PROVE Logged'
    <3>1. mgr = "idle" /\ mgr' \in {"idle", "crashed"} /\ storage' = storage
      BY <2>3 DEF Lookup, ReadLoader, GetInstances, FindHit, FindMiss, FindNull,
                  EnumerateNull, PluginFails, Leave, Fault, Built, Alive, Quiet, Settled
    <3>2. loader'["edl"].files = loader["edl"].files
      <4>1. CASE GetInstances(w)
        BY <4>1, <2>0, TouchKeeps DEF GetInstances, Quiet
      <4>2. CASE ~GetInstances(w)
        BY <2>3, <4>2 DEF Lookup, ReadLoader, FindHit, FindMiss, FindNull,
                          EnumerateNull, PluginFails, Leave, Fault
      <4> QED
        BY <4>1, <4>2
    <3>3. \A v \in Workers : use'[v].libs \subseteq loader["edl"].files
      <4>0. \A v \in Workers : use[v].libs \subseteq loader["edl"].files
        BY <3>1 DEF Logged
      <4>1. CASE ReadLoader(w) \/ Leave(w)
        BY <4>0, <4>1 DEF ReadLoader, Leave, NoUse, PMTypeOK
      <4>2. CASE GetInstances(w)
        BY <4>0, <4>2 DEF GetInstances, Quiet, PMTypeOK, Uses
      <4>3. CASE EnumerateNull(w) \/ PluginFails(w) \/ Fault(w)
        BY <4>0, <4>3 DEF EnumerateNull, PluginFails, Fault
      <4>4. ASSUME NEW t \in Types, FindMiss(w, t) \/ FindNull(w, t)
            PROVE  \A v \in Workers : use'[v].libs \subseteq loader["edl"].files
        BY <4>0, <4>4 DEF FindMiss, FindNull, NoUse, PMTypeOK
      <4>5. ASSUME NEW t \in Types, FindHit(w, t)
            PROVE  \A v \in Workers : use'[v].libs \subseteq loader["edl"].files
        <5> PICK l \in Matches(w, t) :
                use' = [use EXCEPT ![w] = [@ EXCEPT !.st = "inside", !.libs = {l},
                                                   !.absent = {}]]
          BY <4>5 DEF FindHit
        <5>1. l \in use[w].libs
          BY DEF Matches
        <5> QED
          BY <4>0, <5>1 DEF PMTypeOK, Uses
      <4> QED
        BY <2>3, <4>1, <4>2, <4>3, <4>4, <4>5 DEF Lookup
    <3>4. \A v \in Workers : use'[v].absent = {}
      <4>1. CASE GetInstances(w)
        <5>1. use[w].from = "edl" /\ \A l \in loader["edl"].files : l \in Libs /\ image[l] # 0
          BY <2>0, <3>1 DEF Quiet, PMTypeOK
        <5>2. Absent("edl") = {}
          BY <5>1 DEF Absent, Mapped
        <5> QED
          BY <4>1, <5>1, <5>2 DEF GetInstances, Logged, PMTypeOK, Uses
      <4>2. ASSUME NEW t \in Types, FindHit(w, t)
            PROVE  \A v \in Workers : use'[v].absent = {}
        BY <4>2 DEF FindHit, Logged, PMTypeOK, Uses
      <4>3. ASSUME NEW t \in Types, FindMiss(w, t) \/ FindNull(w, t)
            PROVE  \A v \in Workers : use'[v].absent = {}
        BY <4>3 DEF FindMiss, FindNull, NoUse, Logged, PMTypeOK
      <4>4. CASE ReadLoader(w) \/ Leave(w) \/ EnumerateNull(w) \/ PluginFails(w) \/ Fault(w)
        BY <4>4 DEF ReadLoader, Leave, EnumerateNull, PluginFails, Fault, NoUse,
                    Logged, PMTypeOK
      <4> QED
        BY <2>3, <4>1, <4>2, <4>3, <4>4 DEF Lookup
    <3> QED
      BY <3>1, <3>2, <3>3, <3>4 DEF Logged
  <2>4. CASE UNCHANGED pmVars
    BY <2>4 DEF pmVars, Logged
  <2> QED
    BY <2>1, <2>2, <2>3, <2>4 DEF PMNext, Directory
<1>3. Quiet /\ Logged => InstancesReady
  BY DEF Quiet, Settled, Logged, InstancesReady, Built, Alive
<1> QED
  BY <1>1, <1>2, <1>3, QuietInvariant, PTL DEF PMSpec

-----------------------------------------------------------------------------
(* Without AutoReload: what a thread holds is what is installed               *)

Catalogued ==
    /\ mgr \in CtorStates => \A w \in Workers : use[w].st = "out"
    /\ \A w \in Workers :
          /\ use[w].st = "listed" => use[w].libs \cup use[w].absent = loader["edl"].files
          /\ use[w].st = "inside" => use[w].libs \subseteq loader["edl"].files

LEMMA CataloguedInvariant ==
    ASSUME ~AutoReload
    PROVE  PMSpec => []Catalogued
<1>1. PMInit => Catalogued
  BY DEF PMInit, Catalogued, NoUse
<1>2. PMTypeOK /\ Quiet /\ Catalogued /\ [PMNext]_pmVars => Catalogued'
  <2> SUFFICES ASSUME PMTypeOK, Quiet, Catalogued, [PMNext]_pmVars PROVE Catalogued'
    OBVIOUS
  <2>1. CASE Main
    <3>1. mgr \in CtorStates /\ use' = use
      BY <2>1 DEF Main, CtorLogger, CtorEdl, CtorStorage, CtorWatch, HandleChange,
                  DropLogger, BuildEdl, DropEdl, ShareStorage, Quiet, Settled, CtorStates
    <3> QED
      BY <3>1 DEF Catalogued
  <2>2. CASE Directory
    BY <2>2 DEF Directory, Place, Delete, StartCopy, FinishCopy, Change, Catalogued
  <2>3. ASSUME NEW w \in Workers, Lookup(w) PROVE Catalogued'
    <3>0. Built /\ (mgr' = mgr \/ mgr' = "crashed") /\ mgr' \notin CtorStates
      BY <2>3 DEF Lookup, ReadLoader, GetInstances, Leave, EnumerateNull, PluginFails,
                  Fault, FindHit, FindMiss, FindNull, Built, CtorStates
    <3>1. CASE ReadLoader(w)
      BY <3>0, <3>1 DEF ReadLoader, Catalogued, NoUse, PMTypeOK
    <3>2. CASE GetInstances(w)
      <4>1. use[w].from = "edl" /\ "edl" \in LoaderIds
        BY DEF Quiet, LoaderIds
      <4>2. loader'["edl"].files = loader["edl"].files
        BY <3>2, <4>1, TouchKeeps DEF GetInstances
      <4>3. /\ use'[w].st = "listed"
            /\ use'[w].libs \cup use'[w].absent = loader["edl"].files
            /\ \A v \in Workers \ {w} : use'[v] = use[v]
        BY <3>2, <4>1 DEF GetInstances, PMTypeOK, Uses, Absent
      <4> QED
        BY <3>0, <4>2, <4>3 DEF Catalogued
    <3>3. CASE Leave(w)
      BY <3>0, <3>3 DEF Leave, Catalogued, NoUse, PMTypeOK
    <3>4. CASE EnumerateNull(w) \/ PluginFails(w) \/ Fault(w)
      BY <3>0, <3>4 DEF EnumerateNull, PluginFails, Fault, Catalogued
    <3>5. ASSUME NEW t \in Types, FindHit(w, t) PROVE Catalogued'
      <4>1. PICK l \in Matches(w, t) :
                use' = [use EXCEPT ![w] = [@ EXCEPT !.st = "inside", !.libs = {l},
                                                   !.absent = {}]]
        BY <3>5 DEF FindHit
      <4>2. use'[w].st = "inside" /\ use'[w].libs = {l}
        BY <4>1 DEF PMTypeOK, Uses
      <4>3. \A v \in Workers \ {w} : use'[v] = use[v]
        BY <4>1 DEF PMTypeOK
      <4>4. l \in loader["edl"].files
        BY <3>5 DEF FindHit, Matches, Catalogued
      <4> QED
        BY <3>0, <3>5, <4>2, <4>3, <4>4 DEF FindHit, Catalogued
    <3>6. ASSUME NEW t \in Types, FindMiss(w, t) \/ FindNull(w, t) PROVE Catalogued'
      BY <3>0, <3>6 DEF FindMiss, FindNull, Catalogued, NoUse, PMTypeOK
    <3> QED
      BY <2>3, <3>1, <3>2, <3>3, <3>4, <3>5, <3>6 DEF Lookup
  <2>4. CASE UNCHANGED pmVars
    BY <2>4 DEF pmVars, Catalogued
  <2> QED
    BY <2>1, <2>2, <2>3, <2>4 DEF PMNext
<1> QED
  BY <1>1, <1>2, QuietInvariant, PTL DEF PMSpec

=============================================================================
