--------------------------- MODULE PluginManager ---------------------------
(* EdlPluginManager and the two PluginLoader objects it owns: the plugins     *)
(* directory is listed, every library found is loaded, and with AutoReload    *)
(* the whole set is rebuilt in the main thread, while pool threads look       *)
(* plugins up and run their code.                                             *)
(*                                                                            *)
(* QPluginLoader (Qt 5) is external.  What the code can see of it:            *)
(*  - every QPluginLoader of one file shares one mapped image (image[l] is    *)
(*    the version of the file that was mapped, 0 when none is);               *)
(*  - instance() maps the file only when it is not mapped yet; the            *)
(*    QPluginLoader that asked for it then remembers that it did (own);       *)
(*  - unload() unmaps the image only when called on a QPluginLoader that      *)
(*    remembers having loaded it, and makes it forget;                        *)
(*  - destroying a QPluginLoader unloads nothing.                             *)
EXTENDS Naturals

CONSTANTS
    Libs,            \* the library files; numbered in the order QDir lists them
    Kind,            \* Kind[l]: the interfaces library l implements
    Name,            \* Name[l]: what its getEdlName() returns
    Types,           \* the EDL types a request can name
    Workers,         \* the threads of the global QThreadPool
    AutoReload,      \* Configuration::getPluginsAutoUpdate
    MaxVersion,      \* bound: versions of one library file
    MaxChanges,      \* bound: changes made to the directory
    StartupChanges,  \* whether the directory may change before it is watched
    PlainlyCopied    \* libraries that may be written in place, not renamed

ASSUME LibsAssumption == Libs \subseteq Nat
ASSUME KindAssumption == Kind \in [Libs -> SUBSET {"logger", "edl"}]
ASSUME NameAssumption == Name \in [Libs -> Types]
ASSUME ReloadAssumption == AutoReload \in BOOLEAN
ASSUME BoundAssumption == MaxVersion \in Nat /\ MaxChanges \in Nat
ASSUME DirectoryAssumption == StartupChanges \in BOOLEAN /\ PlainlyCopied \subseteq Libs

VARIABLES
    disk,      \* disk[l]: version of the file in the directory, 0 when absent
    partial,   \* files that are still being written
    changes,   \* changes made to the directory so far
    notified,  \* a directoryChanged signal is queued for the main thread
    image,     \* image[l]: version mapped in the process, 0 when none
    storage,   \* libraries whose image was given the logger storage
    loader,    \* the PluginLoader objects: files kept, and those they loaded
    mgr,       \* where the main thread is
    use,       \* use[w]: what thread w holds of the plugins
    stale      \* threads that hold something already unloaded (history)

dirVars == <<disk, partial, changes, notified>>
libVars == <<image, storage, loader, stale>>
pmVars  == <<disk, partial, changes, notified, image, storage, loader, mgr,
             use, stale>>

\* "oldLogger" and "oldEdl" are the objects QScopedPointer::reset replaced and
\* has not destroyed yet.
LoaderIds == {"logger", "edl", "oldLogger", "oldEdl"}
NoLoader  == [files |-> {}, own |-> {}]

CtorStates == {"ctorLogger", "ctorEdl", "ctorStorage", "ctorWatch"}
MgrStates  == CtorStates \cup
              {"idle", "dropLogger", "buildEdl", "dropEdl", "setStorage", "crashed"}

NoUse == [st |-> "out", from |-> "edl", libs |-> {}, absent |-> {}]
Uses  == [st     : {"out", "iterating", "listed", "inside"},
          from   : {"edl", "oldEdl"},
          libs   : SUBSET Libs,
          absent : SUBSET Libs]

Versions == 1..MaxVersion
Alive    == mgr # "crashed"
Built    == Alive /\ mgr \notin CtorStates
\* Mutant of Watching: the directory is watched whatever the option says.
WatchesAlways == Built

Watching == AutoReload /\ Built

-----------------------------------------------------------------------------
(* Qt's side: mapping and unmapping a library                                 *)

Loadable(l) == disk[l] # 0 /\ l \notin partial

Mapped(tried) == [l \in Libs |->
                    IF l \in tried /\ image[l] = 0 /\ Loadable(l)
                    THEN disk[l] ELSE image[l]]

\* Mutant of Destroy: the plugins are dropped without being unloaded.
DestroyWithoutUnload(p) ==
    /\ loader' = [loader EXCEPT ![p] = NoLoader]
    /\ UNCHANGED <<image, storage, stale>>

\* ~PluginLoader of p: unload() on every plugin kept.  Threads that were
\* iterating p, or that hold an interface of a library it unmaps, are stale.
Destroy(p) ==
    LET gone  == {l \in loader[p].own : image[l] # 0}
        users == {w \in Workers : \/ use[w].st = "iterating" /\ use[w].from = p
                                  \/ use[w].libs \cap gone # {}}
    IN  /\ image' = [l \in Libs |-> IF l \in gone THEN 0 ELSE image[l]]
        /\ storage' = storage \ gone
        /\ stale' = stale \cup users
        /\ loader' = [loader EXCEPT ![p] = NoLoader]

\* The libraries the PluginLoader p has to map when it is asked for its
\* instances.  A QPluginLoader that already tried does not try again.
ToMap(p) == {l \in loader[p].files : image[l] = 0 /\ l \notin loader[p].own}

\* PluginLoader::getInstances: instance() of every plugin kept; the result is
\* not filtered, so a library that cannot be mapped any more yields nullptr.
Touched(p) == [loader[p] EXCEPT !.own = @ \cup ToMap(p)]
Absent(p)  == {l \in loader[p].files : Mapped(ToMap(p))[l] = 0}

\* PluginLoader's constructor: every library listed is loaded, and kept when it
\* implements interface k.  The QPluginLoader of one that does not is destroyed
\* without unload().
NewLoader(k) ==
    LET listed == {l \in Libs : disk[l] # 0}
        kept   == {l \in listed : Mapped(listed)[l] # 0 /\ k \in Kind[l]}
    IN  [files |-> kept, own |-> {l \in kept : image[l] = 0}]

Build(k, old) ==
    /\ image' = Mapped({l \in Libs : disk[l] # 0})
    /\ loader' = [loader EXCEPT ![old] = loader[k], ![k] = NewLoader(k)]
    /\ UNCHANGED <<storage, stale>>

\* setEasyloggingStorage on every instance of the logger loader.
SetStorage ==
    /\ image' = Mapped(ToMap("logger"))
    /\ loader' = [loader EXCEPT !["logger"] = Touched("logger")]
    /\ storage' = storage \cup (loader["logger"].files \ Absent("logger"))
    /\ UNCHANGED stale

-----------------------------------------------------------------------------
(* The main thread: the constructor, then the slot of directoryChanged        *)

CtorLogger ==
    /\ mgr = "ctorLogger"
    /\ Build("logger", "oldLogger")
    /\ mgr' = "ctorEdl"
    /\ UNCHANGED <<dirVars, use>>

CtorEdl ==
    /\ mgr = "ctorEdl"
    /\ Build("edl", "oldEdl")
    /\ mgr' = "ctorStorage"
    /\ UNCHANGED <<dirVars, use>>

\* Mutant of CtorStorage: the constructor leaves the loggers alone.
CtorWithoutStorage ==
    /\ mgr = "ctorStorage"
    /\ mgr' = "ctorWatch"
    /\ UNCHANGED <<dirVars, libVars, use>>

CtorStorage ==
    /\ mgr = "ctorStorage"
    /\ SetStorage
    /\ mgr' = IF Absent("logger") = {} THEN "ctorWatch" ELSE "crashed"
    /\ UNCHANGED <<dirVars, use>>

\* dirWatcher_.addPath and connect, when autoUpdate is set: see Watching.
CtorWatch ==
    /\ mgr = "ctorWatch"
    /\ mgr' = "idle"
    /\ UNCHANGED <<dirVars, libVars, use>>

\* Mutant of HandleChange: the signal stays in the queue.
HandleChangeAgain ==
    /\ mgr = "idle" /\ notified
    /\ Build("logger", "oldLogger")
    /\ mgr' = "dropLogger"
    /\ UNCHANGED <<dirVars, use>>

\* handlePluginsDirChange: loggerLoader_.reset(new ...), its first half.
HandleChange ==
    /\ mgr = "idle" /\ notified
    /\ notified' = FALSE
    /\ Build("logger", "oldLogger")
    /\ mgr' = "dropLogger"
    /\ UNCHANGED <<disk, partial, changes, use>>

\* Mutant of DropLogger: reset gives the replaced PluginLoader up without
\* destroying it.
DropLoggerLeaks ==
    /\ mgr = "dropLogger"
    /\ mgr' = "buildEdl"
    /\ UNCHANGED <<dirVars, libVars, use>>

\* ... and its second half: the replaced PluginLoader is destroyed.
DropLogger ==
    /\ mgr = "dropLogger"
    /\ Destroy("oldLogger")
    /\ mgr' = "buildEdl"
    /\ UNCHANGED <<dirVars, use>>

\* edlLoader_.reset(new ...): threads that are iterating hold the old object.
BuildEdl ==
    /\ mgr = "buildEdl"
    /\ Build("edl", "oldEdl")
    /\ use' = [w \in Workers |->
                 IF use[w].st = "iterating" THEN [use[w] EXCEPT !.from = "oldEdl"]
                 ELSE use[w]]
    /\ mgr' = "dropEdl"
    /\ UNCHANGED dirVars

DropEdl ==
    /\ mgr = "dropEdl"
    /\ Destroy("oldEdl")
    /\ mgr' = "setStorage"
    /\ UNCHANGED <<dirVars, use>>

\* Mutant of ShareStorage: the signal is taken off the queue when the slot ends,
\* together with the ones that came while it ran.
ShareStorageAndForget ==
    /\ mgr = "setStorage"
    /\ SetStorage
    /\ notified' = FALSE
    /\ mgr' = IF Absent("logger") = {} THEN "idle" ELSE "crashed"
    /\ UNCHANGED <<disk, partial, changes, use>>

ShareStorage ==
    /\ mgr = "setStorage"
    /\ SetStorage
    /\ mgr' = IF Absent("logger") = {} THEN "idle" ELSE "crashed"
    /\ UNCHANGED <<dirVars, use>>

Main == \/ CtorLogger \/ CtorEdl \/ CtorStorage \/ CtorWatch
        \/ HandleChange \/ DropLogger \/ BuildEdl \/ DropEdl \/ ShareStorage

-----------------------------------------------------------------------------
(* A pool thread's use of the manager: findEdl and getEdls                    *)

\* edlLoader_-> is read; nothing keeps the object alive.
ReadLoader(w) ==
    /\ Built /\ use[w].st = "out"
    /\ use' = [use EXCEPT ![w] = [NoUse EXCEPT !.st = "iterating"]]
    /\ stale' = stale \ {w}
    /\ UNCHANGED <<dirVars, image, storage, loader, mgr>>

\* PluginLoader::getInstances in thread w.
GetInstances(w) ==
    LET p == use[w].from
    IN  /\ Built /\ use[w].st = "iterating"
        /\ use' = [use EXCEPT ![w] = [@ EXCEPT !.st = "listed",
                                               !.libs = loader[p].files \ Absent(p),
                                               !.absent = Absent(p)]]
        /\ image' = Mapped(ToMap(p))
        /\ loader' = [loader EXCEPT ![p] = Touched(p)]
        /\ UNCHANGED <<dirVars, storage, mgr, stale>>

\* find_if looks at the elements in order and stops at the first of that name.
Matches(w, t) == {l \in use[w].libs : Name[l] = t}
NullBefore(w, l) == \E k \in use[w].absent : k < l

FindHit(w, t) ==
    /\ Built /\ use[w].st = "listed"
    /\ \E l \in Matches(w, t) :
          /\ \A m \in Matches(w, t) : l <= m
          /\ ~NullBefore(w, l)
          /\ use' = [use EXCEPT ![w] = [@ EXCEPT !.st = "inside", !.libs = {l},
                                                 !.absent = {}]]
    /\ UNCHANGED <<dirVars, libVars, mgr>>

FindMiss(w, t) ==
    /\ Built /\ use[w].st = "listed"
    /\ Matches(w, t) = {} /\ use[w].absent = {}
    /\ use' = [use EXCEPT ![w] = NoUse]
    /\ UNCHANGED <<dirVars, libVars, mgr>>

\* getEdlName() called through nullptr.
FindNull(w, t) ==
    /\ Built /\ use[w].st = "listed" /\ use[w].absent # {}
    /\ \A l \in Matches(w, t) : NullBefore(w, l)
    /\ mgr' = "crashed"
    /\ UNCHANGED <<dirVars, libVars, use>>

\* getInstalledEdls reads the name and extension of every element.
EnumerateNull(w) ==
    /\ Built /\ use[w].st = "listed" /\ use[w].absent # {}
    /\ mgr' = "crashed"
    /\ UNCHANGED <<dirVars, libVars, use>>

\* createEdl has returned, or getInstalledEdls has read every name.
Leave(w) ==
    /\ Built
    /\ \/ use[w].st = "inside"
       \/ use[w].st = "listed" /\ use[w].absent = {}
    /\ use' = [use EXCEPT ![w] = NoUse]
    /\ UNCHANGED <<dirVars, libVars, mgr>>

\* The plugin's own code faults on what it was given.
PluginFails(w) ==
    /\ Built /\ use[w].st = "inside"
    /\ mgr' = "crashed"
    /\ UNCHANGED <<dirVars, libVars, use>>

\* A thread that runs code or reads an object that is gone may bring the
\* process down; it may also get away with it (the actions above).
Fault(w) ==
    /\ Built /\ w \in stale /\ use[w].st # "out"
    /\ mgr' = "crashed"
    /\ UNCHANGED <<dirVars, libVars, use>>

Lookup(w) == \/ ReadLoader(w) \/ GetInstances(w) \/ Leave(w)
             \/ EnumerateNull(w) \/ PluginFails(w) \/ Fault(w)
             \/ \E t \in Types : FindHit(w, t) \/ FindMiss(w, t) \/ FindNull(w, t)

-----------------------------------------------------------------------------
(* The plugins directory (external).  Only what happens to the directory      *)
(* itself is signalled, not what is written into a file it already has.       *)

Change ==
    /\ changes < MaxChanges /\ changes' = changes + 1
    /\ mgr \in CtorStates => StartupChanges
    /\ UNCHANGED <<libVars, mgr, use>>

\* A whole file is renamed into place.
Place(l) ==
    /\ Change
    /\ \E v \in Versions \ {disk[l]} : disk' = [disk EXCEPT ![l] = v]
    /\ partial' = partial \ {l}
    /\ notified' = (notified \/ Watching)

Delete(l) ==
    /\ Change
    /\ disk[l] # 0
    /\ disk' = [disk EXCEPT ![l] = 0]
    /\ partial' = partial \ {l}
    /\ notified' = (notified \/ Watching)

\* A new file is created, to be written afterwards.  (Writing over a file that is
\* there, and may be mapped, is left out: what its code then does is open.)
StartCopy(l) ==
    /\ Change
    /\ l \in PlainlyCopied /\ disk[l] = 0
    /\ \E v \in Versions : disk' = [disk EXCEPT ![l] = v]
    /\ partial' = partial \cup {l}
    /\ notified' = (notified \/ Watching)

\* Its last byte is written: nothing is signalled.
FinishCopy(l) ==
    /\ l \in partial
    /\ partial' = partial \ {l}
    /\ UNCHANGED <<disk, changes, notified, libVars, mgr, use>>

Directory == \E l \in Libs : Place(l) \/ Delete(l) \/ StartCopy(l) \/ FinishCopy(l)

-----------------------------------------------------------------------------

PMInit ==
    /\ disk \in [Libs -> 0..MaxVersion]
    /\ partial = {} /\ changes = 0 /\ notified = FALSE
    /\ image = [l \in Libs |-> 0]
    /\ storage = {}
    /\ loader = [p \in LoaderIds |-> NoLoader]
    /\ mgr = "ctorLogger"
    /\ use = [w \in Workers |-> NoUse]
    /\ stale = {}

PMNext == Main \/ Directory \/ \E w \in Workers : Lookup(w)

PMSpec == PMInit /\ [][PMNext]_pmVars

\* The main thread runs its event loop and a file being copied gets finished.
PMFairSpec == /\ PMSpec
              /\ WF_pmVars(Main)
              /\ \A l \in Libs : WF_pmVars(FinishCopy(l))

-----------------------------------------------------------------------------
(* Properties                                                                 *)

\* A PluginLoader is only there from where it is made to where it is destroyed.
ReplacedGone ==
    /\ mgr = "ctorLogger" => loader["logger"] = NoLoader
    /\ mgr \in {"ctorLogger", "ctorEdl"} => loader["edl"] = NoLoader
    /\ mgr # "dropLogger" => loader["oldLogger"] = NoLoader
    /\ mgr # "dropEdl" => loader["oldEdl"] = NoLoader

\* Every variable keeps its type, and a reload leaves no PluginLoader behind.
PMTypeOK ==
    /\ disk \in [Libs -> 0..MaxVersion]
    /\ partial \subseteq Libs
    /\ changes \in 0..MaxChanges
    /\ notified \in BOOLEAN
    /\ image \in [Libs -> 0..MaxVersion]
    /\ storage \subseteq Libs
    /\ loader \in [LoaderIds -> [files : SUBSET Libs, own : SUBSET Libs]]
    /\ mgr \in MgrStates
    /\ use \in [Workers -> Uses]
    /\ stale \subseteq Workers
    /\ Alive => ReplacedGone

\* What findEdl and getEdls hand out stays usable: no thread holds an interface
\* of a library that was unloaded, or a PluginLoader that was destroyed, since
\* it got it (EdlPluginManager.h: "The EDL plugin interface if found").
NoDangling == Built => stale = {}

\* Every instance a thread was handed can be used: none of them is null, and one
\* that has a logger was given the storage its LOG macros dereference
\* (EdlPluginManager::handlePluginsDirChange: setEasyloggingStorage).
InstancesReady ==
    Built => \A w \in Workers :
                /\ use[w].absent = {}
                /\ \A l \in use[w].libs : "logger" \in Kind[l] => l \in storage

\* The process runs what the directory has of library l; a file written in place
\* may have been listed before it was complete, and is missed then, but no other
\* version of it is run.
Followed(l) == image[l] = disk[l] \/ (l \in PlainlyCopied /\ image[l] = 0)

\* With nothing left to handle, the process runs the files of the directory, no
\* other, each in the version the directory has; and of the libraries renamed
\* into place, EDLs are offered exactly by those the directory has.
UpToDate ==
    mgr = "idle" /\ ~notified /\ partial = {} =>
        /\ \A l \in Libs : Followed(l)
        /\ \A l \in Libs \ PlainlyCopied :
              l \in loader["edl"].files <=> disk[l] # 0 /\ "edl" \in Kind[l]

\* Without AutoReload the installed EDLs, and the code behind them, are fixed
\* once the manager is built, whatever happens to the directory.
StableCatalogue ==
    [][Built => loader'["edl"].files = loader["edl"].files
                /\ \A l \in loader["edl"].files : image'[l] = image[l]]_pmVars

\* The steps the main thread takes before it is idle, and five more for a signal
\* it has to handle then.
StepsLeft ==
    CASE mgr \in {"ctorLogger", "dropLogger"}  -> 4
      [] mgr \in {"ctorEdl", "buildEdl"}       -> 3
      [] mgr \in {"ctorStorage", "dropEdl"}    -> 2
      [] mgr \in {"ctorWatch", "setStorage"}   -> 1
      [] OTHER                                 -> 0
WorkLeft == IF Alive THEN 1 + StepsLeft + (IF notified THEN 5 ELSE 0) ELSE 0

\* Every step of the main thread brings it nearer to having nothing to do, and
\* only a change of the directory sets it back, by one run of the slot: loading
\* and unloading libraries, and what threads do, never make it start over.
ReloadsSettle ==
    [][ /\ mgr' # mgr => WorkLeft' < WorkLeft
        /\ WorkLeft' > WorkLeft => changes' = changes + 1 /\ WorkLeft' = WorkLeft + 5 ]_pmVars

\* Changes stop (MaxChanges), and then the process ends up with what the
\* directory has (EdlPluginManager.h: plugins added while it runs "will be
\* loaded automatically").
EventuallyUpToDate == <>[](Alive => \A l \in Libs : Followed(l))

=============================================================================
