---------------------- MODULE ConfigurationReaderProofs ----------------------
(* Theorems about ConfigurationReader, for any files, documents, schema and   *)
(* faults.                                                                    *)
EXTENDS ConfigurationReader, TLAPS

Tree(doc) == \A e \in DOMAIN doc : Above[e] \subseteq DOMAIN doc

\* What CfgTypeOK needs of the files to be inductive: their documents are
\* trees, and only a file that is there is watched.
Sound ==
    /\ CfgTypeOK
    /\ \A f \in Files : Exists(f) => Tree(disk[f].doc)
    /\ \A f \in alive : Exists(f)

\* A call of loadFile that has read and not yet watched.
Loading == ~Idle => loading = configPath /\ ~failed

\* In such a call, the file is as it was read.
LoadingQuietly == ~Idle => origin = loading /\ source = disk[loading]

-----------------------------------------------------------------------------
(* Documents                                                                  *)

\* A function on elements to texts is a document.
LEMMA IsDocument ==
    ASSUME NEW D \in SUBSET Elements, NEW d \in [D -> Values \cup {Nothing}]
    PROVE  d \in Documents
BY DEF Documents

\* A document is defined on elements.
LEMMA DocumentDomain ==
    ASSUME NEW d \in Documents
    PROVE  DOMAIN d \subseteq Elements /\ d \in [DOMAIN d -> Values \cup {Nothing}]
BY DEF Documents

LEMMA EmptyIsContent == Empty \in Content /\ Tree(Empty.doc) /\ NoDocument \in Documents
<1>1. NoDocument \in [{} -> Values \cup {Nothing}]
  BY DEF NoDocument
<1>2. NoDocument \in Documents
  BY <1>1, IsDocument
<1>3. DOMAIN NoDocument = {}
  BY DEF NoDocument
<1> QED
  BY <1>2, <1>3 DEF Empty, Content, Tree

\* What is read of a text is a document that is a tree.
LEMMA TextIsContent ==
    ASSUME NEW t \in Texts
    PROVE  t \in Content /\ t # Nothing /\ Tree(t.doc)
BY TextsAssumption, NothingAssumption DEF Tree

\* What save writes is the text of a document.
LEMMA SavedIsContent ==
    ASSUME NEW d \in Documents
    PROVE  [doc |-> d, wellFormed |-> Root \in DOMAIN d] \in Content
<1>1. \A b \in BOOLEAN : [doc |-> d, wellFormed |-> b] \in Content
  BY DEF Content
<1>2. (Root \in DOMAIN d) \in BOOLEAN
  OBVIOUS
<1> QED
  BY <1>1, <1>2, Zenon

LEMMA AcceptedIsBoolean == ASSUME NEW t \in Content PROVE Accepted(t) \in BOOLEAN
<1>1. t.doc \in Documents /\ t.wellFormed \in BOOLEAN
  BY DEF Content
<1> QED
  BY <1>1, CompliesAssumption DEF Accepted, Validates

-----------------------------------------------------------------------------
(* Parts of actions                                                           *)

\* A file is written, by others or by save.
LEMMA WriteKeepsSound ==
    ASSUME Sound, NEW f \in Files, NEW t \in Content, Tree(t.doc), Write(f, t)
    PROVE  /\ disk' \in [Files -> Content \cup {Nothing}]
           /\ \A g \in Files : Exists(g)' => Tree(disk'[g].doc)
           /\ \A g \in alive' : Exists(g)'
           /\ alive' \subseteq watched' /\ watched' \subseteq Files /\ pending' \subseteq watched'
<1> USE DEF Sound, CfgTypeOK, Write
<1>1. disk' = [disk EXCEPT ![f] = t] /\ disk' \in [Files -> Content \cup {Nothing}]
  OBVIOUS
<1>2. \A g \in Files : Exists(g)' => Tree(disk'[g].doc)
  BY <1>1 DEF Exists
<1>3. \A g \in alive' : Exists(g)'
  BY <1>1, NothingAssumption DEF Exists
<1> QED
  BY <1>1, <1>2, <1>3

LEMMA UnlinkKeepsSound ==
    ASSUME Sound, NEW f \in Files, NEW t \in Content \cup {Nothing},
           t # Nothing => Tree(t.doc), Unlink(f, t)
    PROVE  /\ disk' \in [Files -> Content \cup {Nothing}]
           /\ \A g \in Files : Exists(g)' => Tree(disk'[g].doc)
           /\ \A g \in alive' : Exists(g)'
           /\ alive' \subseteq watched' /\ watched' \subseteq Files /\ pending' \subseteq watched'
<1> USE DEF Sound, CfgTypeOK, Unlink
<1>1. disk' = [disk EXCEPT ![f] = t] /\ disk' \in [Files -> Content \cup {Nothing}]
  OBVIOUS
<1>2. \A g \in Files : Exists(g)' => Tree(disk'[g].doc)
  BY <1>1 DEF Exists
<1>3. \A g \in alive' : Exists(g)'
  BY <1>1 DEF Exists
<1> QED
  BY <1>1, <1>2, <1>3

\* The types of what loadXmlString sets.
LEMMA LoadedIsSound ==
    ASSUME NEW t \in Content, Tree(t.doc), LoadXmlString(t)
    PROVE  /\ configDoc' \in Documents /\ source' \in Content
           /\ {isValid', edited'} \subseteq BOOLEAN
           /\ Tree(configDoc')
<1>1. t.doc \in Documents
  BY DEF Content
<1> QED
  BY <1>1, AcceptedIsBoolean DEF LoadXmlString

\* A file that is there has a text that is a tree.
LEMMA FileIsContent ==
    ASSUME Sound, NEW f \in Files, Exists(f)
    PROVE  disk[f] \in Content /\ Tree(disk[f].doc)
BY DEF Sound, CfgTypeOK, Exists

LEMMA WatcherKeepsSound ==
    ASSUME Sound, NEW f \in Files, UpdateWatcherPath(f), UNCHANGED disk
    PROVE  /\ \A g \in alive' : Exists(g)'
           /\ alive' \subseteq watched' /\ watched' \subseteq Files /\ pending' \subseteq watched'
BY DEF UpdateWatcherPath, Exists

\* A value is set: the elements above it are there.
LEMMA SetKeepsTree ==
    ASSUME Sound, NEW e \in Elements, NEW value \in Values, NEW create \in BOOLEAN,
           SetValue(e, value, create)
    PROVE  configDoc' \in Documents /\ Tree(configDoc')
<1> DEFINE D == DOMAIN configDoc \cup Hierarchy(e)
<1>1. DOMAIN configDoc \subseteq Elements /\ configDoc \in [DOMAIN configDoc -> Values \cup {Nothing}]
  BY DocumentDomain DEF Sound, CfgTypeOK
<1>2. Tree(configDoc)
  BY DEF Sound, CfgTypeOK, Tree
<1>3. CASE Root \notin DOMAIN configDoc
  BY <1>2, <1>3 DEF SetValue, Sound, CfgTypeOK
<1>4. CASE Root \in DOMAIN configDoc
  <2>1. configDoc' = [x \in D |-> IF x = e THEN value
                                 ELSE IF x \in DOMAIN configDoc THEN configDoc[x] ELSE Nothing]
    BY <1>4 DEF SetValue
  <2>2. D \subseteq Elements /\ D = DOMAIN configDoc \cup Above[e]
    BY <1>1, ElementsAssumption DEF Hierarchy
  <2> HIDE DEF D
  <2>3. configDoc' \in [D -> Values \cup {Nothing}]
    BY <2>1, <1>1
  <2>4. DOMAIN configDoc' = D
    BY <2>1
  <2>5. ASSUME NEW x \in D PROVE Above[x] \subseteq D
    BY <1>2, <2>2, ElementsAssumption DEF Tree
  <2> QED
    BY <2>2, <2>3, <2>4, <2>5, IsDocument DEF Tree
<1> QED
  BY <1>3, <1>4

-----------------------------------------------------------------------------
(* Type correctness                                                           *)

LEMMA SoundInit == CfgInit => Sound
<1> SUFFICES ASSUME CfgInit PROVE Sound
  OBVIOUS
<1>1. disk \in [Files -> Content \cup {Nothing}] /\ \A f \in Files : Exists(f) => Tree(disk[f].doc)
  BY TextIsContent DEF CfgInit, Exists
<1>2. Tree(configDoc)
  BY DEF CfgInit, NoDocument, Tree
<1>3. \A e \in DOMAIN configDoc : Above[e] \subseteq DOMAIN configDoc
  BY <1>2 DEF Tree
<1>4. configDoc \in Documents /\ source \in Content /\ changes \in 0..MaxChanges
  BY EmptyIsContent, ChangesAssumption DEF CfgInit
<1>5. CfgTypeOK
  BY <1>1, <1>3, <1>4 DEF CfgInit, CfgTypeOK
<1> QED
  BY <1>1, <1>5 DEF CfgInit, Sound

LEMMA SoundStep == Sound /\ [CfgNext]_cfgVars => Sound'
<1> SUFFICES ASSUME Sound, [CfgNext]_cfgVars PROVE Sound'
  OBVIOUS
<1> USE DEF dirVars, docVars, watchVars, readerVars
<1>1. CASE Change
  <2>1. PICK f \in Files :
            \/ \E t \in Texts : Write(f, t)
            \/ \E t \in Texts \cup {Nothing} : Unlink(f, t)
    BY <1>1 DEF Change
  <2>2. /\ disk' \in [Files -> Content \cup {Nothing}]
        /\ \A g \in Files : Exists(g)' => Tree(disk'[g].doc)
        /\ \A g \in alive' : Exists(g)'
        /\ alive' \subseteq watched' /\ watched' \subseteq Files /\ pending' \subseteq watched'
    <3>1. CASE \E t \in Texts : Write(f, t)
      BY <3>1, TextIsContent, WriteKeepsSound
    <3>2. CASE \E t \in Texts \cup {Nothing} : Unlink(f, t)
      BY <3>2, TextIsContent, UnlinkKeepsSound
    <3> QED
      BY <2>1, <3>1, <3>2
  <2>3. changes' \in 0..MaxChanges
    BY <1>1, ChangesAssumption DEF Change, Sound, CfgTypeOK
  <2> QED
    BY <1>1, <2>2, <2>3 DEF Change, Sound, CfgTypeOK, Tree
<1>2. ASSUME NEW f \in Files, LoadFile(f) PROVE Sound'
  <2>1. /\ configDoc' \in Documents /\ source' \in Content
        /\ {isValid', edited'} \subseteq BOOLEAN /\ Tree(configDoc')
    BY <1>2, FileIsContent, LoadedIsSound DEF LoadFile
  <2> QED
    BY <1>2, <2>1 DEF LoadFile, Sound, CfgTypeOK, Tree, Exists
<1>3. ASSUME NEW f \in Files, LoadFileFails(f) PROVE Sound'
  <2>1. /\ configDoc' \in Documents /\ source' \in Content
        /\ {isValid', edited'} \subseteq BOOLEAN /\ Tree(configDoc')
    <3>1. CASE Exists(f) /\ LoadXmlString(disk[f])
      BY <3>1, FileIsContent, LoadedIsSound
    <3>2. CASE isValid' = FALSE /\ UNCHANGED <<configDoc, source, edited>>
      BY <3>2 DEF Sound, CfgTypeOK, Tree
    <3> QED
      BY <1>3, <3>1, <3>2 DEF LoadFileFails
  <2> QED
    BY <1>3, <2>1 DEF LoadFileFails, Sound, CfgTypeOK, Tree, Exists
<1>4. ASSUME NEW f \in Files, SetFilePath(f) PROVE Sound'
  <2>1. /\ \A g \in alive' : Exists(g)'
        /\ alive' \subseteq watched' /\ watched' \subseteq Files /\ pending' \subseteq watched'
    BY <1>4, WatcherKeepsSound DEF SetFilePath
  <2> QED
    BY <1>4, <2>1 DEF SetFilePath, Sound, CfgTypeOK, Tree, Exists
<1>5. ASSUME NEW f \in Files, NEW overwrite \in BOOLEAN, Save(f, overwrite) PROVE Sound'
  <2>1. /\ [doc |-> configDoc, wellFormed |-> Root \in DOMAIN configDoc] \in Content
        /\ Tree(configDoc)
    BY SavedIsContent DEF Sound, CfgTypeOK, Tree
  <2>2. PICK t \in Content : Tree(t.doc) /\ Write(f, t)
    BY <1>5, <2>1, EmptyIsContent DEF Save
  <2>3. /\ disk' \in [Files -> Content \cup {Nothing}]
        /\ \A g \in Files : Exists(g)' => Tree(disk'[g].doc)
        /\ \A g \in alive' : Exists(g)'
        /\ alive' \subseteq watched' /\ watched' \subseteq Files /\ pending' \subseteq watched'
    BY <2>2, WriteKeepsSound
  <2>4. UNCHANGED <<changes, readerVars>>
    BY <1>5 DEF Save
  <2>5. CfgTypeOK'
    BY <2>3, <2>4 DEF Sound, CfgTypeOK
  <2> QED
    BY <2>3, <2>5 DEF Sound
<1>6. CASE LoadFileWatches
  <2>1. loading \in Files
    BY <1>6 DEF LoadFileWatches, Idle, Sound, CfgTypeOK
  <2>2. /\ \A g \in alive' : Exists(g)'
        /\ alive' \subseteq watched' /\ watched' \subseteq Files /\ pending' \subseteq watched'
    BY <1>6, <2>1, WatcherKeepsSound DEF LoadFileWatches
  <2> QED
    BY <1>6, <2>2 DEF LoadFileWatches, Sound, CfgTypeOK, Tree, Exists
<1>7. ASSUME NEW t \in Texts, LoadXml(t) PROVE Sound'
  <2>1. /\ configDoc' \in Documents /\ source' \in Content
        /\ {isValid', edited'} \subseteq BOOLEAN /\ Tree(configDoc')
    BY <1>7, TextIsContent, LoadedIsSound DEF LoadXml
  <2> QED
    BY <1>7, <2>1 DEF LoadXml, Sound, CfgTypeOK, Tree, Exists
<1>8. ASSUME NEW e \in Elements, NEW value \in Values, NEW create \in BOOLEAN,
             SetValue(e, value, create)
      PROVE  Sound'
  <2>1. configDoc' \in Documents /\ Tree(configDoc')
    BY <1>8, SetKeepsTree
  <2> QED
    BY <1>8, <2>1 DEF SetValue, Sound, CfgTypeOK, Tree, Exists
<1>9. ASSUME NEW f \in Files, HandleConfigurationChange(f) PROVE Sound'
  <2>1. /\ configDoc' \in Documents /\ source' \in Content
        /\ {isValid', edited'} \subseteq BOOLEAN /\ Tree(configDoc')
        /\ origin' \in Files \cup {Nothing}
    <3>1. CASE Exists(f) /\ LoadXmlString(disk[f]) /\ origin' = f
      BY <3>1, FileIsContent, LoadedIsSound
    <3>2. CASE UNCHANGED docVars /\ origin' \in {origin, Nothing}
      BY <3>2 DEF Sound, CfgTypeOK, Tree
    <3> QED
      BY <1>9, <3>1, <3>2 DEF HandleConfigurationChange
  <2>2. alive' \subseteq watched' /\ watched' \subseteq Files /\ pending' \subseteq watched'
    BY <1>9 DEF HandleConfigurationChange, Report, Sound, CfgTypeOK
  <2> QED
    BY <1>9, <2>1, <2>2 DEF HandleConfigurationChange, Report, Sound, CfgTypeOK, Tree, Exists
<1>10. CASE UNCHANGED cfgVars
  BY <1>10 DEF cfgVars, Sound, CfgTypeOK, Tree, Exists
<1> QED
  BY <1>1, <1>2, <1>3, <1>4, <1>5, <1>6, <1>7, <1>8, <1>9, <1>10 DEF CfgNext, Caller, Slot

\* The document stays a tree, and every variable keeps its type.
THEOREM CfgTyping == CfgSpec => []CfgTypeOK
<1>1. Sound => CfgTypeOK
  BY DEF Sound
<1> QED
  BY SoundInit, SoundStep, <1>1, PTL DEF CfgSpec

-----------------------------------------------------------------------------
(* What the document and the watcher have to do with the files                *)

\* A document is called valid only when the whole of it was read and complies;
\* it is the one read last, but for values set since.
THEOREM ValidityHolds == CfgSpec => []ValidIsOfSource
<1>1. CfgInit => ValidIsOfSource
  BY DEF CfgInit, ValidIsOfSource, Empty
<1>2. ValidIsOfSource /\ [CfgNext]_cfgVars => ValidIsOfSource'
  <2> SUFFICES ASSUME ValidIsOfSource, [CfgNext]_cfgVars PROVE ValidIsOfSource'
    OBVIOUS
  <2> USE DEF dirVars, docVars, watchVars, readerVars
  <2>1. CASE UNCHANGED docVars
    BY <2>1 DEF ValidIsOfSource, Accepted, Validates
  <2>2. ASSUME NEW t, LoadXmlString(t) PROVE ValidIsOfSource'
    BY <2>2 DEF LoadXmlString, ValidIsOfSource, Accepted, Validates
  <2>3. CASE isValid' = FALSE /\ UNCHANGED <<configDoc, source, edited>>
    BY <2>3 DEF ValidIsOfSource
  <2>4. CASE edited' = TRUE /\ UNCHANGED <<isValid, source>>
    BY <2>4 DEF ValidIsOfSource, Accepted, Validates
  <2> QED
    BY <2>1, <2>2, <2>3, <2>4
       DEF CfgNext, Change, Caller, Slot, LoadFile, LoadFileFails, SetFilePath, Save,
           LoadFileWatches, LoadXml, SetValue, HandleConfigurationChange, cfgVars
<1> QED
  BY <1>1, <1>2, PTL DEF CfgSpec

Following == Loading /\ FollowsConfigPath

\* Unless a loadFile failed, only the file save() writes is followed.
THEOREM ConfigPathIsFollowed == CfgSpec => []FollowsConfigPath
<1>1. CfgInit => Following
  BY DEF CfgInit, Following, Loading, FollowsConfigPath, Idle
<1>2. Following /\ [CfgNext]_cfgVars => Following'
  <2> SUFFICES ASSUME Following, [CfgNext]_cfgVars PROVE Following'
    OBVIOUS
  <2> USE DEF dirVars, docVars, watchVars, readerVars, Following, Loading,
              FollowsConfigPath, Idle
  <2>1. CASE watched' \subseteq watched /\ UNCHANGED <<configPath, loading, failed>>
    BY <2>1
  <2>2. CASE Change
    BY <2>1, <2>2 DEF Change, Write, Unlink
  <2>3. ASSUME NEW f \in Files, LoadFile(f) PROVE Following'
    BY <2>3, NothingAssumption DEF LoadFile
  <2>4. ASSUME NEW f \in Files, LoadFileFails(f) PROVE Following'
    BY <2>4 DEF LoadFileFails
  <2>5. ASSUME NEW f \in Files, SetFilePath(f) PROVE Following'
    BY <2>5 DEF SetFilePath, UpdateWatcherPath
  <2>6. ASSUME NEW f \in Files, NEW overwrite \in BOOLEAN, Save(f, overwrite) PROVE Following'
    BY <2>1, <2>6 DEF Save, Write
  <2>7. CASE LoadFileWatches
    BY <2>7 DEF LoadFileWatches, UpdateWatcherPath
  <2>8. ASSUME NEW t \in Texts, LoadXml(t) PROVE Following'
    BY <2>1, <2>8 DEF LoadXml
  <2>9. ASSUME NEW e \in Elements, NEW value \in Values, NEW create \in BOOLEAN,
               SetValue(e, value, create)
        PROVE  Following'
    BY <2>1, <2>9 DEF SetValue
  <2>10. ASSUME NEW f \in Files, HandleConfigurationChange(f) PROVE Following'
    <3>1. watched' \subseteq watched
      BY <2>10 DEF HandleConfigurationChange, Report
    <3> QED
      BY <2>1, <2>10, <3>1 DEF HandleConfigurationChange
  <2>11. CASE UNCHANGED cfgVars
    BY <2>1, <2>11 DEF cfgVars
  <2> QED
    BY <2>2, <2>3, <2>4, <2>5, <2>6, <2>7, <2>8, <2>9, <2>10, <2>11 DEF CfgNext, Caller, Slot
<1>3. Following => FollowsConfigPath
  BY DEF Following
<1> QED
  BY <1>1, <1>2, <1>3, PTL DEF CfgSpec

UpToDate == LoadingQuietly /\ Current

\* When others let a loadFile finish, a document read from a file that is still
\* watched is what is in it, or a change waits to be reported.
THEOREM DocumentIsCurrent == ASSUME QuietLoad PROVE CfgSpec => []Current
<1>1. CfgInit => UpToDate
  BY DEF CfgInit, UpToDate, LoadingQuietly, Current, Idle
<1>2. Sound /\ UpToDate /\ [CfgNext]_cfgVars => UpToDate'
  <2> SUFFICES ASSUME Sound, UpToDate, [CfgNext]_cfgVars PROVE UpToDate'
    OBVIOUS
  <2> USE DEF dirVars, docVars, watchVars, readerVars, UpToDate, LoadingQuietly, Current, Idle
  <2>1. alive \subseteq Files /\ Nothing \notin alive
    BY NothingAssumption DEF Sound, CfgTypeOK
  <2>2. ASSUME NEW f \in Files, NEW t, Write(f, t), Idle, UNCHANGED readerVars
        PROVE  UpToDate'
    BY <2>1, <2>2 DEF Write, Sound, CfgTypeOK
  <2>3. CASE Change
    <3>1. ASSUME NEW f \in Files, NEW t, Unlink(f, t), Idle, UNCHANGED readerVars
          PROVE  UpToDate'
      BY <2>1, <3>1 DEF Unlink, Sound, CfgTypeOK
    <3> QED
      BY <2>2, <2>3, <3>1 DEF Change
  <2>4. ASSUME NEW f \in Files, LoadFile(f) PROVE UpToDate'
    BY <2>4, NothingAssumption DEF LoadFile, LoadXmlString
  <2>5. ASSUME NEW f \in Files, LoadFileFails(f) PROVE UpToDate'
    BY <2>1, <2>5 DEF LoadFileFails, LoadXmlString
  <2>6. ASSUME NEW f \in Files, SetFilePath(f) PROVE UpToDate'
    BY <2>6, NothingAssumption DEF SetFilePath, UpdateWatcherPath
  <2>7. ASSUME NEW f \in Files, NEW overwrite \in BOOLEAN, Save(f, overwrite) PROVE UpToDate'
    BY <2>2, <2>7 DEF Save
  <2>8. CASE LoadFileWatches
    BY <2>8 DEF LoadFileWatches, UpdateWatcherPath
  <2>9. ASSUME NEW t \in Texts, LoadXml(t) PROVE UpToDate'
    BY <2>1, <2>9 DEF LoadXml
  <2>10. ASSUME NEW e \in Elements, NEW value \in Values, NEW create \in BOOLEAN,
                SetValue(e, value, create)
         PROVE  UpToDate'
    BY <2>10 DEF SetValue
  <2>11. ASSUME NEW f \in Files, HandleConfigurationChange(f) PROVE UpToDate'
    <3> USE <2>11 DEF HandleConfigurationChange, Report
    <3>1. CASE LoadXmlString(disk[f]) /\ origin' = f
      BY <3>1 DEF LoadXmlString
    <3>2. CASE ~Exists(f) /\ UNCHANGED <<docVars, origin>>
      BY <2>1, <3>2 DEF Sound
    <3>3. CASE origin' = Nothing
      BY <2>1, <3>3
    <3> QED
      BY <3>1, <3>2, <3>3
  <2>12. CASE UNCHANGED cfgVars
    BY <2>12 DEF cfgVars
  <2> QED
    BY <2>3, <2>4, <2>5, <2>6, <2>7, <2>8, <2>9, <2>10, <2>11, <2>12 DEF CfgNext, Caller, Slot
<1>3. UpToDate => Current
  BY DEF UpToDate
<1> QED
  BY SoundInit, SoundStep, <1>1, <1>2, <1>3, PTL DEF CfgSpec

=============================================================================
