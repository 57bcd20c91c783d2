------------------------- MODULE ConfigurationReader -------------------------
(* One ConfigurationReader, used in the main thread: the document it holds,   *)
(* the file it was read from, and the QFileSystemWatcher that tells it of     *)
(* changes others make to files.                                              *)
(*                                                                            *)
(* A document is a function from its elements to their text; it is empty when *)
(* it has no document element.  An element stands for the path of names that  *)
(* leads to it (namedItem takes the first of a name), Root for the empty one. *)
(* A text, of a file or a string, is what the parser makes of it: the         *)
(* document, as far as it got, and whether it got to the end.                 *)
(*                                                                            *)
(* QFileSystemWatcher (Qt 5, inotify) is external: addPath fails without a    *)
(* word when there is no file; a file that is removed or replaced is          *)
(* forgotten; changes are reported from the event loop, once for several.     *)
EXTENDS Naturals

CONSTANTS
    Files,
    Elements, Root,
    Above,        \* Above[e]: the elements from Root to e, both included
    Values,       \* texts of elements
    Nothing,      \* no file, no text, no content
    Texts,        \* what others write into files, or hand to loadXml
    Complies(_),  \* whether a document complies to the schema
    Schema,       \* "none", "loads" or "broken": the schema of the constructor
    AutoUpdate,   \* the constructor's autoUpdate
    MaxChanges,   \* bound: changes others make to files
    Replaces,     \* whether they may remove a file or rename another over it
    QuietLoad,    \* whether they let a loadFile finish first
    Faults        \* whether a file may be there and not open, or a write fail

Documents == UNION {[D -> Values \cup {Nothing}] : D \in SUBSET Elements}
Content   == [doc : Documents, wellFormed : BOOLEAN]

ASSUME NothingAssumption == Nothing \notin Files \cup Values /\ Nothing \notin Content
ASSUME ElementsAssumption ==
    /\ Root \in Elements /\ Above \in [Elements -> SUBSET Elements]
    /\ \A e \in Elements : {Root, e} \subseteq Above[e]
    /\ \A e \in Elements : \A x \in Above[e] : Above[x] \subseteq Above[e]
ASSUME TextsAssumption ==
    /\ Texts \subseteq Content
    /\ \A t \in Texts : \A e \in DOMAIN t.doc : Above[e] \subseteq DOMAIN t.doc
ASSUME CompliesAssumption == \A d \in Documents : Complies(d) \in BOOLEAN
ASSUME SchemaAssumption == Schema \in {"none", "loads", "broken"}
ASSUME SwitchAssumption ==
    /\ AutoUpdate \in BOOLEAN /\ Replaces \in BOOLEAN
    /\ QuietLoad \in BOOLEAN /\ Faults \in BOOLEAN
ASSUME ChangesAssumption == MaxChanges \in Nat

VARIABLES
    disk,        \* disk[f]: the text in the file, Nothing when there is none
    changes,     \* changes others made so far
    configPath,
    configDoc,
    isValid,
    loading,     \* the file loadFile has read and not yet watched, or Nothing
    failed,      \* whether the last loadFile failed, with no setFilePath since
    watched,     \* files of the watcher
    alive,       \* those the kernel still watches for it
    pending,     \* those with changes not reported yet
    source,      \* the text read last (history)
    origin,      \* the file it was in, if it is still followed (history)
    edited       \* whether values were set since (history)

dirVars    == <<disk, changes>>
docVars    == <<configDoc, isValid, source, edited>>
watchVars  == <<watched, alive, pending>>
readerVars == <<configPath, docVars, loading, failed, origin>>
cfgVars    == <<dirVars, readerVars, watchVars>>

NoDocument == [e \in {} |-> Nothing]
Empty      == [doc |-> NoDocument, wellFormed |-> FALSE]

Exists(f) == disk[f] # Nothing
Idle      == loading = Nothing

-----------------------------------------------------------------------------
(* The files, as others and save change them                                  *)

\* A write in place is noticed, if the file is watched.
Write(f, t) ==
    /\ disk' = [disk EXCEPT ![f] = t]
    /\ pending' = pending \cup (alive \cap {f})
    /\ UNCHANGED <<watched, alive>>

\* So is a removal, or a rename over the file, but nothing after it.
Unlink(f, t) ==
    /\ disk' = [disk EXCEPT ![f] = t]
    /\ pending' = pending \cup (alive \cap {f})
    /\ alive' = alive \ {f}
    /\ UNCHANGED watched

Change ==
    /\ changes < MaxChanges /\ (QuietLoad => Idle)
    /\ changes' = changes + 1
    /\ \E f \in Files :
          \/ \E t \in Texts : Write(f, t)
          \/ Replaces /\ Exists(f) /\ \E t \in Texts \cup {Nothing} : Unlink(f, t)
    /\ UNCHANGED readerVars

-----------------------------------------------------------------------------
(* loadFile, loadXml and the slot                                             *)

Validates(t) == Schema = "none" \/ (Schema = "loads" /\ Complies(t.doc))

Accepted(t) == t.wellFormed /\ Validates(t)

\* Mutant of LoadXmlString: isValid is not reset.
LoadXmlStringKeepsValid(t) ==
    /\ configDoc' = t.doc
    /\ isValid' = (isValid \/ Accepted(t))
    /\ source' = t /\ edited' = FALSE

LoadXmlString(t) ==
    /\ configDoc' = t.doc
    /\ isValid' = Accepted(t)
    /\ source' = t /\ edited' = FALSE

\* Mutant of UpdateWatcherPath: what was watched before stays watched.
UpdateWatcherPathKeeps(f) ==
    LET added == IF AutoUpdate /\ Exists(f) THEN {f} ELSE {}
    IN  watched' = watched \cup added /\ alive' = alive \cup added /\ pending' = pending \ {f}

UpdateWatcherPath(f) ==
    LET added == IF AutoUpdate /\ Exists(f) THEN {f} ELSE {}
    IN  watched' = added /\ alive' = added /\ pending' = {}

\* The file is not there, does not open, or what is in it is not accepted.
LoadFileFails(f) ==
    /\ Idle
    /\ configPath' = f /\ failed' = TRUE
    /\ \/ /\ ~Exists(f) \/ Faults
          /\ isValid' = FALSE /\ origin' = Nothing
          /\ UNCHANGED <<configDoc, source, edited>>
       \/ /\ Exists(f) /\ ~Accepted(disk[f])
          /\ LoadXmlString(disk[f]) /\ origin' = f
    /\ UNCHANGED <<dirVars, loading, watchVars>>

LoadFile(f) ==
    /\ Idle /\ Exists(f) /\ Accepted(disk[f])
    /\ configPath' = f /\ failed' = FALSE /\ origin' = f
    /\ LoadXmlString(disk[f])
    /\ loading' = f
    /\ UNCHANGED <<dirVars, watchVars>>

\* What was read is watched from now on only.
LoadFileWatches ==
    /\ ~Idle /\ loading' = Nothing
    /\ UpdateWatcherPath(loading)
    /\ UNCHANGED <<dirVars, configPath, docVars, failed, origin>>

LoadXml(t) ==
    /\ Idle
    /\ LoadXmlString(t) /\ origin' = Nothing
    /\ UNCHANGED <<dirVars, configPath, loading, failed, watchVars>>

\* The watcher forgets a file it reports as removed.
Report(f) ==
    /\ Idle /\ f \in pending
    /\ pending' = pending \ {f}
    /\ watched' = IF f \in alive THEN watched ELSE watched \ {f}
    /\ UNCHANGED alive

\* Mutant of HandleConfigurationChange: a document that is not valid is kept.
HandleChangeIfValid(f) ==
    /\ Report(f)
    /\ IF Exists(f) /\ isValid
       THEN LoadXmlString(disk[f]) /\ origin' = f
       ELSE UNCHANGED <<docVars, origin>>
    /\ UNCHANGED <<dirVars, configPath, loading, failed>>

HandleConfigurationChange(f) ==
    /\ Report(f)
    /\ \/ Exists(f) /\ LoadXmlString(disk[f]) /\ origin' = f
       \/ ~Exists(f) /\ UNCHANGED <<docVars, origin>>
       \/ Exists(f) /\ Faults /\ origin' = Nothing /\ UNCHANGED docVars
    /\ UNCHANGED <<dirVars, configPath, loading, failed>>

-----------------------------------------------------------------------------
(* setFilePath, save and setValue                                             *)

SetFilePath(f) ==
    /\ Idle /\ f # configPath
    /\ configPath' = f /\ origin' = Nothing /\ failed' = FALSE
    /\ UpdateWatcherPath(f)
    /\ UNCHANGED <<dirVars, docVars, loading>>

\* Whether all of it was written is not looked at.
Save(f, overwrite) ==
    /\ Idle /\ (overwrite \/ ~Exists(f))
    /\ \/ Write(f, [doc |-> configDoc, wellFormed |-> Root \in DOMAIN configDoc])
       \/ Faults /\ Write(f, Empty)
    /\ UNCHANGED <<changes, readerVars>>

\* Mutant of Hierarchy: only the last element is created.
HierarchyOfLast(e) == {e}

\* The elements that are created, those that are there left out.
Hierarchy(e) == Above[e] \ DOMAIN configDoc

\* setValue returns true: the text is set, in elements created if need be.  In
\* a document without a document element nothing is.
SetValue(e, value, create) ==
    /\ Idle /\ e # Root
    /\ create \/ (e \in DOMAIN configDoc /\ configDoc[e] # Nothing)
    /\ configDoc' = IF Root \notin DOMAIN configDoc THEN configDoc
                    ELSE [x \in DOMAIN configDoc \cup Hierarchy(e) |->
                            IF x = e THEN value
                            ELSE IF x \in DOMAIN configDoc THEN configDoc[x] ELSE Nothing]
    /\ edited' = TRUE
    /\ UNCHANGED <<dirVars, configPath, isValid, source, loading, failed, origin, watchVars>>

-----------------------------------------------------------------------------

CfgInit ==
    /\ disk \in [Files -> Texts \cup {Nothing}] /\ changes = 0
    /\ configPath = Nothing /\ configDoc = NoDocument /\ isValid = FALSE
    /\ loading = Nothing /\ failed = FALSE
    /\ watched = {} /\ alive = {} /\ pending = {}
    /\ source = Empty /\ origin = Nothing /\ edited = FALSE

Caller ==
    \/ \E f \in Files : LoadFile(f) \/ LoadFileFails(f) \/ SetFilePath(f)
    \/ \E f \in Files, overwrite \in BOOLEAN : Save(f, overwrite)
    \/ LoadFileWatches
    \/ \E t \in Texts : LoadXml(t)
    \/ \E e \in Elements, value \in Values, create \in BOOLEAN : SetValue(e, value, create)

Slot == \E f \in Files : HandleConfigurationChange(f)

CfgNext == Change \/ Caller \/ Slot

CfgSpec == CfgInit /\ [][CfgNext]_cfgVars

\* The main thread finishes a call and then goes back to its event loop, which
\* reports what is pending of each file.
CfgFairSpec ==
    /\ CfgSpec /\ WF_cfgVars(LoadFileWatches)
    /\ \A f \in Files : WF_cfgVars(HandleConfigurationChange(f))

-----------------------------------------------------------------------------
(* Properties                                                                 *)

\* The document is a tree whatever calls are made, the watcher has only files
\* it was given, and every variable keeps its type.
CfgTypeOK ==
    /\ disk \in [Files -> Content \cup {Nothing}] /\ changes \in 0..MaxChanges
    /\ {configPath, loading, origin} \subseteq Files \cup {Nothing}
    /\ configDoc \in Documents /\ source \in Content
    /\ {isValid, failed, edited} \subseteq BOOLEAN
    /\ \A e \in DOMAIN configDoc : Above[e] \subseteq DOMAIN configDoc
    /\ alive \subseteq watched /\ watched \subseteq Files /\ pending \subseteq watched

\* getIsValid speaks of the document there is: it was parsed to the end from a
\* text the schema accepts, and is that text's, but for values set since.
ValidIsOfSource ==
    /\ isValid => Accepted(source)
    /\ ~edited => configDoc = source.doc

\* Unless the last loadFile failed, which changes the path and not the watcher,
\* a file that is followed is the one save() writes.
FollowsConfigPath == ~failed /\ Idle => watched \subseteq {configPath}

\* The document read from a file that is watched is what is in it, unless a
\* change is still to be reported.
Current ==
    Idle /\ origin \in alive \ pending => source = disk[origin]

\* Every change of a file that is followed, and stays watched, gets into the
\* document, unless the caller turns to another one.
Follows ==
    \A f \in Files :
        origin = f /\ f \in alive ~> source = disk[f] \/ origin # f \/ f \notin alive

\* ConfigurationReader.h: "configuration updates automatically when changes
\* occur in the filesystem".
UpdatesItself ==
    \A f \in Files :
        AutoUpdate /\ ~failed /\ origin = f
            ~> (Exists(f) => configDoc = disk[f].doc) \/ edited \/ origin # f

=============================================================================
