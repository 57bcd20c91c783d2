# EDLProvider verification

EDLProvider is a service that answers SOAP requests for edit decision lists
(EDLs). A client names an EDL type and a list of clips; the service finds the
plugin that offers that type, among the shared libraries of a directory that
may change while it runs, and the plugin writes the EDL. This directory holds
TLA+ modules of that program, the configurations TLC checks them with, and
theorems the TLA+ proof system TLAPS checks.

To run: `tlc -config EdlServer_contract.cfg MCEdlProviderService` model-checks,
`tlapm EdlServerProofs.tla` proves. `PROJECT.json` lists every run, and gives
for every definition that models code the lines it models.

## 1. The system

### Components

| component (src/) | state | operations | correct when |
|---|---|---|---|
| `Core/src/EdlProviderService` | the service, its server and the thread it runs in | start, stop, destructor | stop ends what start began, and nothing is destroyed while it is used |
| `Core/src/Configuration`, `Common/src/ConfigurationReader` | the XML document, whether it is valid, the path, the watcher | loadFile, loadXml, setFilePath, save, setValue, automatic update, getters | the document and its validity are those of the text read last; a file that is followed is the one of the path |
| `Soap/src/EdlProviderServer` | the listening soap context, a reference to the plugin manager | run (bind, accept, copy, hand over), getEdl, getEdlDouble, getInstalledEdls | every client gets one answer, its own |
| `Soap/src/EdlProviderProcessRequest` | its own soap context | run (serve, destroy) | it shares nothing but the manager |
| `Plugins/Interfaces/src/EdlPluginManager` | two `PluginLoader`s, a directory watcher | constructor, findEdl, getEdls, handlePluginsDirChange | what it hands out can be used; it follows the directory |
| `Common/src/PluginLoader` | the `QPluginLoader`s it keeps | constructor, getInstances, destructor | it keeps the files that implement its interface |
| `TimeUtils/src/TimeCode` | rate, offset from midnight, hh:mm:ss:ff | construct, init, addOffset, setInvalid, conversions | offset and label agree, no omitted number |
| `Plugins/Interfaces/src/EdlHelpers` | none | getNrFrames, processClipInfo, getClipDurationInFrames | a time means the frames it names |
| `Plugins/CMX`, `Plugins/FinalCut`, `Plugins/AAF` | of one call of createEdl | createEdl | positions join, tracks are aligned, references resolve, all three judge alike |
| `Soap/gsoap`, `Soap/Wsdl` | generated | read a request, send an answer | external |
| logging, installers, `Submodules`, `Plugins/AAF/lib` | | | not modelled |

### How they interact

The main thread runs Qt's event loop. `EdlProviderService` builds the server in
it (with the plugin manager, whose constructor loads every library), and then
starts a thread for `EdlProviderServer::run`. That thread accepts connections
for good; each one is copied into a soap context of its own and given to the
global thread pool. A pool thread reads the request, calls
`EdlPluginManager::findEdl` or `getEdls`, and runs the plugin's code, on
objects all threads share. With `AutoReload`, a change in the directory is
signalled to the main thread, which replaces both `PluginLoader`s **without a
lock**, while the pool threads use them. The two loaders open the same files,
and `QPluginLoader` maps a file once for all who open it.

### What is hard

- **Two actors, no lock**: the reload in the main thread against a look-up or a
  createEdl in a pool thread; `reset` builds the new loader before it destroys
  the old one, so an old and a new loader hold the same image for a while.
- **Who unloads**: only the `QPluginLoader` that caused a mapping may undo it, so
  what a reload does depends on the history of reloads.
- **A changing directory**: signals that come while the slot runs, files listed
  before they are complete, a directory listed before it is watched.
- **A shared listening context**, reused for the next accept while the copies
  are served; clients that hang up, are silent, or send nonsense; a bounded
  backlog and pool; an accept that fails.
- **Whatever createEdl throws** has to become one fault of the right request.
- **A stop while requests are served**: nothing interrupts accept, the pool is
  waited for, and the thread object has two owners.
- **A configuration file others edit**, in place or by renaming over it, before
  or after it is watched; loads and saves that fail half way.
- **Drop frame arithmetic** at every minute, ten minutes, hour and midnight.
- **Running counters across clips**: record times, two loops over the same clips
  that must agree, identifiers counted one way and linked another, sequences
  that need a filler for every channel a clip lacks, a rate kept from clip to
  clip.

`PROJECT.json` lists each such hazard at its line with the properties that
would catch it going wrong.

## 2. The modules

```
EdlProviderService --extends--> EdlServer --extends--> PluginManager
   |                               |                      |
   |  EdlProviderServiceProofs -> EdlServerProofs -> PluginManagerProofs
   |             |                 |                      |     ^
   |             `------------> PluginReloadProofs -------|-----'
   |                               |                      |
   MCEdlProviderService            refines EdlContract    MCPluginManager

TimecodeCalls --extends--> Timecode <--extends-- EdlHelpers
   |  TimecodeProofs -> TimecodeLemmas              ^
   MCTimecode         EdlWriters --extends--> Cmx3600, FinalCut, AafPlugin
                         |  EdlWritersProofs -> TimecodeLemmas
                         |                          |
                         MCEdlWriters               each refines Playlist

ConfigurationReader <-- MCConfigurationReader, ConfigurationReaderProofs
```

**PluginManager** models `EdlPluginManager` and its two `PluginLoader`s. `disk`
is the directory, `image` what is mapped in the process, `loader` the two
current and the two replaced `PluginLoader` objects: the files each keeps, and
of which of them it caused the mapping (`own`). `mgr` is where the main thread
is: the constructor's four steps, idle, or one of the steps of
`handlePluginsDirChange`, each of which another thread can see between
(building a loader and destroying the one it replaces are two steps, because
`QScopedPointer::reset` assigns before it deletes). `use[w]` is what thread `w`
holds: nothing, a loader it iterates, a list of instances, or one plugin it is
inside of. `stale` records the threads that hold something that has been
unloaded since they got it. `QPluginLoader` itself is external; the header of
the module says what is assumed of it.

**EdlServer** adds the sockets: the backlog, the socket of the listening
context, the queue of runnables, the context each pool thread serves, and what
each client received. It EXTENDS PluginManager, and each look-up step of a
pool thread *is* a step of the manager: `Dispatch` does `ReadLoader`, `List`
does `GetInstances`, `FindPlugin`/`RejectType`/`Crash` do
`FindHit`/`FindMiss`/`FindNull`. `Copy` is what `EdlProviderServer::copy` hands
over.

**EdlContract** is what the WSDL promises, without threads, sockets and
libraries: a catalogue is published once, and each request gets at most one
answer, one that request and that catalogue permit (`Permitted`). What each
fault says of a request is in a table of its own (`Meaning`), read off the
schemas, where the server's is read off the `catch` clauses. EdlServer refines
it: the catalogue is the set of names of the current loader, published when the
constructor returns. A request carries what `createEdl` will do with it (`ends`:
return, or one of the things it throws).

**EdlProviderService** composes the server with the service that runs it. `main`
is where the main thread is, from `starting` to `ended` or `aborted`; `thread`
is `soapServerThread_` (running `run`, in its event loop, finished, deleted);
`quitting` whether `quit` was called on it. The steps of EdlServer are taken in
the thread they belong to: the constructor and the reload slot by the main
thread (`ManagerSteps`), `run` by the server thread (`RunSteps`), requests by
the pool (`PoolSteps`). `Stop` is `stop()`, called in the event loop;
`DeleteApplication` waits for the pool; `DropThread` and `DropServer` are the
destructors of the two members in the order they are declared. What Qt does at
each is external and in the header.

**Timecode** has the class as operators on a record: `SetLabel` and `SetOffset`
are the two `init`s with the `cleanTimecode`, `updateOffset` and
`updateTimecode` they end in. **TimecodeCalls** is the machine: one object, any
sequence of calls on it.

**EdlHelpers** is a request as the plugins see it and the helpers they share.
**Cmx3600**, **FinalCut** and **AafPlugin** are one call of `createEdl` each,
one step per clip, with the early exit for every exception they throw,
`AafCallFails` for a call of the AAF library that fails at any point of a file,
and a Save or Close that fails without anybody noticing (`AafSave`). An
identifier of the FinalCut document is `Numbered(location, n)`, the file name
followed by a number: a parameter, of which nothing is assumed.
The text, XML and AAF written are abstracted to what the rest of the program
must get right about them: of a CMX event the four timecodes and the number of
channels; of the FinalCut document the stack of elements open, and of each clip
item its place, rate and identifiers; of the AAF file the slots, the references
between mobs, the components and the lengths of the sequences. **EdlWriters**
gives one request to the three, whose steps interleave as in pool threads; they
share only the request, which none changes.

**Playlist** is what an EDL is, in any format: a clip is placed where the one
before it ended, a request may be refused at any point, and what is returned
places every clip. Its parameters are the length of a clip and how a position
is shown; each plugin refines it with its own `createEdl` state (`CmxPlays`,
`FcPlays`, `AafPlays`).

**ConfigurationReader** is one reader and the files it may be pointed at. A
document is a function from elements (each with `Above`, the path to it) to
texts; a text is the document the parser gets out of it and whether it got to
the end. `loadFile` is two steps (`LoadFile`, `LoadFileWatches`), because others
can change the file between its reading and the watch. `watched` is what the
`QFileSystemWatcher` was given, `alive` what the kernel still watches, `pending`
what it will report; `source` and `origin` remember which text the document was
read from, and from which file, and exist for the properties only.

## 3. What is checked

Passing runs (`PROJECT.json` names the cfg and properties of each):

| run | shows | instance |
|---|---|---|
| `manager_reload` | with AutoReload, whenever the main thread is idle and no signal is pending the process runs exactly the files of the directory, in their versions, and offers their EDLs; a reload does not start itself over; once changes stop the process gets there | 2 libraries, one of which may be copied in place, 1 thread, 3 changes, 2 versions |
| `server_contract` | without AutoReload the threaded server, in the service, implements EdlContract; no two threads share a connection; nothing is unloaded under a thread, every instance a thread was handed is there and has its logger | 2 libraries (one without a logger), 2 clients, 2 threads, 7 kinds of request (one that is refused for its marks, one without clips, one malformed), exceptions, hang-ups, a changing directory, a stop at any point |
| `service` | the whole process with AutoReload: what a client gets is its own, no client that waits is forgotten, and every one that sends its request is answered while another keeps a thread, also during a stop; the process ends after a stop, and nothing is destroyed under `run` | 1 library, 1 change, 2 clients (getEdl, or malformed), one silent, 2 threads, accept errors |
| `timecode` | offset and label agree, no omitted number is shown, one frame more is the next label of a clock, the label keeps to the time of day, any offset can be taken back | 3 rates with and without drop frame, offsets of a frame, the frames dropped, a minute, ten, an hour, a day, both ways; 48 labels; 3 calls |
| `writers` | each plugin writes a playlist; tracks are aligned, elements nested, references resolved; the three refuse the same requests for the same reason, number frames alike and place a clip at the same frames; a mark comes out as it was given | 4 sequence rates, 7 clips, requests of up to 3 clips, AAF calls that fail anywhere, Save included; file names that make one text with their numbers ("a1" and 2, "a" and 12) |
| `config` | the document is a tree, its validity is that of the text read last, the followed file is the path's, what was read is what is in it or a change is pending, and every change gets in | 2 files, 4 texts, a schema, 2 changes by others (write, remove, rename over), opens and writes that fail |

Runs that show the code disagree with what is said of it:

| run | shows |
|---|---|
| `manager_dangling` | a reload unmaps the plugin, or destroys the loader, that a pool thread is using (`EdlPluginManager.cpp:26`, and 27) |
| `manager_pinned` | a plugin that implements `EdlInterface` only, like the sample of the README, is mapped by the logger's loader, which forgets it without unloading: it is never updated (`PluginLoaderImpl.h:20`) |
| `server_minimal` | the minimal request of the README has no clips element, which is dereferenced (`EdlProviderServer.cpp:169`): the process goes down in the plugin |
| `aaf_rate` | the AAF edit rate of 24, 30 and 60 is 1000/1001, not the rate (`AafPlugin.cpp:644`) |
| `play_time` | of a mark given as a time of day only the part below a second counts, and a duration in milliseconds is always counted in drop frame (`EdlHelpers.cpp:25`); TLC stops at the first of the two it meets, the mark |
| `config_update` | a watched file that is renamed over, as editors save, is read once more and then never again (`ConfigurationReader.cpp:204`) |

### The restrictions a passing run states, and why

Each passing property is as strong as the code allows. Where a stronger one
fails, the instance or the property says where the border is:

- `manager_reload` takes libraries with both interfaces, as the three plugins
  have (`manager_pinned` is what happens otherwise), and a directory that is left
  alone until it is watched: with `StartupChanges` the manager misses what changes
  between the listing (`EdlPluginManager.cpp:14`) and the watch. Of a library
  that is copied in place (`PlainlyCopied`) the manager sees the creation, finds
  the file incomplete, and is not told when it is complete. It may then be
  missed (`Followed` allows no mapping of it, but no other version either), or,
  when one loader was built before and one after it was complete, be listed by
  the EDL loader and mapped by nobody, so that the next enumeration meets a null
  pointer; what is offered is claimed of the others. The run has one of each
  sort, so that the one must not disturb the other.
- `NoDangling`, `InstancesReady` and `StableCatalogue` are claimed without
  AutoReload only. With it the first fails (`manager_dangling`), and the second
  does twice: `getInstances` passes on the null pointer of a library that could
  not be mapped again, and `setEasyloggingStorage` comes after the plugins can be
  found.
- `MinimalRequestWorks` is about the clips element alone, and is false
  (`server_minimal`).
- `Served` needs fewer silent clients than threads (`recv` and `send` have no
  timeout, so a silent client is one that never sends its request, or never reads
  a reply too long to buffer; the model has the thread wait before the plugin is
  called for both), an accept loop that has not given up before the client was
  accepted (the kernel goes on completing connections then, `Connect`), and a
  process that is up. `StopEnds` excepts a silent client that keeps a thread.
  Both are about the clients there are: an endless stream of new ones is not
  an instance.
- `ServerOutlivesRun` holds because a stop of a service that is accepting ends
  in an abort: `quit` does not interrupt `accept`, and a `QThread` destroyed while
  it runs aborts the process. `StopEnds` counts that as an end.
- `FcNested` requires a clip: with an empty clips element a track is ended that
  was never begun, and the duration is written outside the sequence.
- `FcIdentified` excepts file names that make one text with different numbers
  after them: an identifier is the two run together (`FinalCut.cpp:295`), so that
  the twelfth sound of a request with `a` may be called as the second with `a1`.
  The run has such a request. It speaks of the links of the first clip: the links
  of later clips start over at 2 while the identifiers go on counting.
- `AafPlays` says of a file that `Save` and `Close` wrote that it has a component
  for every clip. Neither is checked (`AafPlugin.cpp:620`): what is returned when
  one failed, the call does not know, and nothing is claimed of it.
- `AafResolved` speaks of clips with at most one channel to a track: the tape
  mob has a slot for each track and is referred to once for each channel.
- `AafTimecodeLength` speaks of lengths an `int` holds: the total is summed up in
  one. `IntMax` is set within reach of the requests of the run.
- `SameVerdict` is one-sided for AAF, which checks no clip's own rate, converts
  numbers the others do not, and depends on a library that may fail.
- `CmxShowsMarks` speaks of labels that exist at the clip's rate (one that drop
  frame omits has to move), and of a semicolon that says what the clip's rate
  says: a mark is counted as its semicolon says, and shown as the rate says.
- `CmxPlays` and `SameEdit` show each place at its own clip's rate, as the plugin
  does: the running frame count is not converted between rates.
- `SameNumbering` speaks of ratios 1/1 and 1000/1001: for another one FinalCut
  keeps the flag of the clip before and AAF reads an uninitialised one.
- `TracksTime` allows a sixth of a second: numbers are dropped once a minute,
  while the time is lost frame by frame, and 18 of 17982 frames are a little more
  than the thousandth due, so that the label is ahead most at the start of the
  last minute of a day.
- `Current` needs `QuietLoad`: nobody changes a file between its reading and the
  watch (`ConfigurationReader.cpp:46`).
- `FollowsConfigPath` excepts a `loadFile` that failed: the path is changed, the
  watcher is not, and `save` then writes a file nobody follows.
- `Follows` speaks of a file while it stays watched, which ends when it is
  removed or renamed over (`config_update`).

### Bounds

`MaxVersion`, `MaxChanges`, `MaxOps` and `MaxClips` are the only bounds on
counters; `Backlog` is the program's own, `IntMax` stands for the largest `int`.
Two libraries are enough for one to change while the other is in use, and for
their order in a list to matter; two threads and two clients for every pair of
steps to interleave; three changes and two versions for a file to be replaced, or
removed and put back, and for a change to arrive while the slot handles another,
which starts the cycle of loaders over from a state only a reload can leave (the
other runs have two). In
`service` one library and one change suffice, as what two do is the other runs'
question: a request is served before, during or after a reload, of a plugin that
is there or gone. `server_contract` keeps `accept` from failing, `service` does
not. Three clips are enough for a clip between two others, for the same file to
come back after another, and for narrow, wide and narrow audio. Three calls on a
timecode are a construction, a label and an offset. Two changes to two
configuration files are a rename and a write after it, or one to the file
before and one to the file now. Deadlock is not checked: clients and the
directory stop, and an ended or crashed process, a stopped accept loop or a
finished call has nothing more to do.

### Fairness

`PMFairSpec` assumes that the main thread, which runs an event loop, takes its
next step while it can, and that a file being copied gets complete; nothing of
threads or further changes. `ServiceFairSpec` assumes that the main thread goes
on (starting, reloading, and once told to stop, ending), the same of the thread
of `run` (`SoapThread`: `Bind`, `Accept`, `Spawn`, and its end; not an accept that
fails), and that a pool thread takes
its next step while it can, which includes that createEdl terminates (it is a
loop over the clips). `CfgFairSpec` assumes that `loadFile` is finished and that
the event loop reports each file with a pending change. Nothing is assumed of
clients, of accept errors, of who stops the service, of the directory, or of the
caller of a reader. All are weak: each of these steps, once possible, stays so
until it is taken or something else makes it pointless.

## 4. What is proved

For every value of the constants that satisfies the assumptions named in the
modules (any number of libraries, threads, clients, plugins, clips, rates,
offsets, files, elements):

- **PluginManagerProofs.** `PMTyping`: type correctness. The other three are
  about a process without AutoReload, from the invariant `Quiet`: no signal is
  ever pending, so once built the main thread is idle or crashed, nothing is
  stale, and no thread iterates a replaced loader. That alone is not inductive
  for the catalogue: a look-up calls `instance()`, which may map a file anew.
  `Catalogued` adds that a file a loader keeps is mapped, so that there is
  nothing to map, and that files kept by the logger's loader have been given the
  storage, so that no list has a null instance in it. `NoDanglingWithoutReload`,
  `CatalogueIsStable` and `InstancesReadyWithoutReload` follow; the last also assumes that the directory
  is left alone during start up, for otherwise the two loaders list different
  files.
- **EdlServerProofs.** `ServerImplementsManager`: the server implements `PMSpec`,
  so the theorems above hold in it. `ContextsAreSeparate`: `OneContextPerClient`
  is made inductive by `Places`, which says where a connection can be, that it is
  in one place only, and that a client has an answer only when it is in none.
  `ServerTyping` adds the types of queue, backlog and answers. `AnswersAreOwn`,
  with or without AutoReload: what a thread has parsed is what the client of its
  context sent (`Content`), and every answer given is permitted for it by some
  catalogue (`Replies`). `ServerImplementsContract`: without AutoReload every
  step of the server is a step, or a stutter, of EdlContract, from these
  invariants, the manager's, and the fact that a list a thread holds is the
  catalogue's. `NobodyIsForgotten` is what of `Served` needs no fairness: whoever
  waits is somewhere in the server. Its invariant `Kept` is the converse of
  `Places`: a connection leaves the backlog, the listening context and the queue
  only to the next of these, and a thread only with an answer or to a client
  that is gone. Looking at each way `Finish` is reached is the work
  (`OnlyAnswer`, `AnsweredOrGone`).
- **EdlProviderServiceProofs.** `ServiceImplementsServer`: each step of the
  service is one of the server or leaves it alone, so that `ServiceAnswersAreOwn`,
  `ServiceForgetsNobody`, `ServiceIsUpToDate`, `ServiceIsSafeWithoutReload` and
  `ServiceKeepsContract` are the theorems of the server and of the manager, for
  the whole process. `ServiceTyping`, and `RunIsOver`: `soapServer_` is never
  destroyed while a thread is in `run`, from an invariant that says how far the
  thread is in each state of the main one.
- **PluginReloadProofs.** `ReloadIsUpToDate`: with AutoReload, `UpToDate`, for
  plugins that implement both interfaces and a directory left alone during start
  up. A mapping is undone only by the `QPluginLoader` that caused it, so the
  invariant `Tracked` follows each one: some loader's `own` has it (`Owned`),
  and what is mapped is what the directory has, or a signal is on its way, or
  the steps of the slot still to come destroy the loader that owns it (`Fresh`
  with `Doomed`). `Owned` is where both interfaces are needed: what
  `manager_pinned` shows is a mapping nobody owns. The rest says what each loader
  lists when no signal came since it was built. `SlotComesToRest` is what of
  `EventuallyUpToDate` needs no fairness: `WorkLeft`, the steps of the main thread
  until it has nothing to do, falls with each of them, and rises only when the
  directory changes, by one run of the slot. No signal comes of the slot's own
  loading, nor of a thread's look-up, so no reload starts itself over.
- **TimecodeLemmas, TimecodeProofs.** The lemmas are about the operators, and the
  plugins' proofs use them too. `TimecodeSound`: an object is invalid, or its
  members are in range, its label exists, and its offset is the one of the label;
  this is inductive as it stands. The argument is that `LabelOfOffset` (division
  inside ten minutes, then carry) yields a label that exists, and that counting
  its frames gives the offset back. `TimecodeTyping`, `OffsetAgreesWithLabel` and
  `NoDroppedLabel` are its parts. From it follows that a sound object is the only
  one of its rate with its offset (`ObjectIsUnique`); `AddedIsTakenBack` is that
  and arithmetic around the day, and so is `FrameByFrame`, since the next label
  of a clock is a sound object one frame on. `LabelKeepsTime` counts what a
  sound label has skipped: in drop frame the offset is linear in the hour, the
  tens of minutes, the minute and the frames of the minute, so the drift is too
  (108h + 18k + 202m - y at 30, in thousandths of a frame), and its bounds are
  those of its terms. Every rate up to 32767 is covered,
  drop frame or not, and every offset and label.
- **EdlWritersProofs.** For any request, of any length: the three plugins
  implement Playlist (`CmxImplementsPlaylist`, `FcImplementsPlaylist`,
  `AafImplementsPlaylist`), from an invariant that ties the number of clips
  written to the place counter and the running total (and, of AAF, says that Save
  comes last, after no fault: `AafSavedLast`); `FcSoundInSync` from the
  totals of the second loop being those of the first, for the clips both have
  done; `FcWellNested` from the stack of elements open in each section;
  `FcItemsIdentified` from the numbers given going up and staying below the
  counter, for whatever text a name and a number make;
  `AafStaysAligned` and `AafReferencesResolved` from the slots written with each
  clip; `WritersAgree` and `WritersNumberAlike` for the three together, from what
  a verdict says of the clips before it. `WritersDescribeOneEdit`: the totals of
  the three are sums of the same lengths, but each plugin is at a clip of its
  own, and of a sum defined by recursion nothing can be proved here, for want of
  induction. The invariant `Placed` says
  instead that *there is* one list of sums, as long as the plugin that is
  furthest needs, that each of the three has followed; the step that goes
  furthest extends it, the others find their sum in it (`SumsReach`, `GoesOn`).
  `CmxMarksAreShown`: reading a label gives a sound object, and a sound object
  is the only one of its frames, so printing the frames gives the label back.
  `WritersImplementPlaylists` and `WritersKeepTheirOwn` carry what is proved of
  each call alone to the three interleaved. `CmxLengthsKept` and `WritersTyped` rest
  on the timecode lemmas: every time of a clip is a number of frames, and a
  timecode printed is the sound object of its frames around the day (the invalid
  one at a rate that rounds to no frame a second, which `Printable` allows).
  `AafTimecodeFits` has the sums of the first k clips as witness: an int adds up
  as the integers do around its range, so the total is right if the last sum fits.
- **ConfigurationReaderProofs.** `CfgTyping` (the document stays a tree),
  `ValidityHolds`, `ConfigPathIsFollowed` and, assuming `QuietLoad`,
  `DocumentIsCurrent`, whose invariant adds that during a load what was read is
  still in the file.

Proofs rest on the library's theorems about sets and sequences, and on the
assumptions on constants; TLC evaluates the latter in every run.

Only model-checked: what holds under fairness (`Served`, `StopEnds`, `Follows`,
`EventuallyUpToDate`), which is out of the prover's reach, as ENABLED is. Of the
first and the last the parts that need no fairness are theorems
(`NobodyIsForgotten`, `SlotComesToRest`). Every other property of a passing run
is a theorem. Three theorems go beyond the runs: `CatalogueIsStable` (the runs
check the names of the catalogue, through `ImplementsContract`, and not the code
behind them), `ServiceImplementsServer`, and `ServiceIsUpToDate` (the run is of
the manager alone).

## 5. What is not modelled

- The vendored AAF library (`Plugins/AAF/lib`) and what gSOAP generates
  (`Soap/gsoap`). They are most of the lines of the repository; the program's own
  is about 6,000 lines, headers with their licences included, and the modules map
  about a third of these, nearly all of what has control flow.
- What gSOAP does with bytes; a request is well formed or malformed. A connection
  carries one request (keep-alive is off).
- Getters: of `Configuration` and `ConfigurationReaderImpl.h`, which convert a
  text and change nothing. The comparison of timecodes (`TimeCode.cpp:269`), which
  nothing uses; `toTimecodeString`, which prints the timecodes of a CMX event
  (`Cmx3600.cpp:95`), is modelled by the label it prints.
- `int64_t` offsets do not overflow (a day has 5.2 million frames at most).
- The narrow counters of channels (`Cmx3600.cpp:87`, `AafPlugin.cpp:522`): more
  than 255 channels in a clip are no input the program is made for. The sizes
  of pictures are compared as pointers (`FinalCut.cpp:168`), modelled as what it
  does: every clip gets a track of its own.
- In requests: negative edit units, times of day that are malformed, and the
  absence of elements the README lists as required and the code does not check
  for, except clips and bmContents. What is no number among a clip's channels and
  the parts of its rate is modelled (`numeric`), as is a numerator of zero; a
  denominator of zero is not: an integer division by it (`TimeCode.cpp:211`) ends
  the process, which the assumptions on rates exclude. Sizes and sampling rates
  may be too large (`fits`), not other than numbers.
- A library that is overwritten in place while it is mapped: of what is copied
  in place, only a file that was not there is.
- The bytes of an AAF file whose `Save` or `Close` failed; the text of the EDLs beyond what section 2 names; reel
  names, which are random.
- A file that appears between `save`'s look for it and its opening
  (`ConfigurationReader.cpp:121`); a second stop of a service that is stopping.
- Threads of the pool beyond their number: a thread is any that is free. The
  rounding mode one request leaves to the next in a thread (`TimeCode.cpp:88`).
- Logging, the helpers of `Common` without state, installers, build files.

## 6. Plan

Done, in order: PluginManager, EdlServer with EdlContract, Timecode, the helpers
and the three plugins, Playlist, ConfigurationReader, EdlProviderService; the
theorems of section 4.

Left: of `StopEnds`, the part that needs no fairness (after a stop each step of
the main thread brings the process nearer to its end, and nothing brings it
back); of `Served`, that a connection only ever moves on from one place of the
server to the next; two readers of one configuration file, if the service ever
has them.
