# A TLA+ model of clap-mml-play-server

The repository is a Rust workspace that turns MML and MIDI into sound with CLAP
plugins: an offline renderer (`render-server`, `core-lib`), a low-latency player
(`realtime-play-server`) driven over HTTP and over a shared-memory channel
(`realtime-ipc`), and a CLAP plugin that plays back rendered parts
(`cache-player`).  The modules here model what of it is hard to test: threads
and processes that meet, histories of commands, tables that overflow and state
that is stale.  TLC checks them on small instances, and TLAPS proves, for every
instance, what is proved so far.

Paths below are relative to the crate named, `player/...` stands for
`realtime-play-server/src/player/...`.

## 1. Inventory

### 1.1 The realtime player (`realtime-play-server`)

Threads and what they share:

| thread | code | talks to |
|---|---|---|
| HTTP acceptor and workers | `http.rs`, `http/*.rs` | a bounded channel of connections; the command queue (`submit_play`, `submit_stop`) |
| IPC receive thread | `fast_ipc.rs` | the shared memory of the client; the command queue; completion channels of patch loads, probes and standby preloads; the meters |
| player worker ("render loop") | `player/worker.rs`, `worker/{command,standby,live_mix}.rs` | the command queue, the bank threads, the output ring, the live recording |
| bank threads, one per bank | `player/worker/bank/*.rs` | a command channel and a reply channel to the render loop; orders to the builder |
| spare builder | `player/instances/builder.rs` | a channel of orders; one channel of instances per bank |
| audio callback | `player/audio_output.rs`, `player/output_stream.rs` | the output ring, the generation, the active flag, the output recording |

State: `PlayerState` (generation, pending commands, live requested, open
timeline, shutdown) under one mutex; `AudioOutputControl` (generation, active,
shutdown, buffer multiplier, counters) in atomics; the playback mode, the
timeline with its scheduler and tempo map, the auto gain, the limiter and the
standby load, owned by the render loop; `BankWorker.busy` per bank; per bank the
plugin instances with a ledger of notes, their effect chains and fades, and the
spare instances.

What is hard here:

* A command is given its generation when it is submitted but applied later,
  when the audio side may be generations ahead.  Play and stop throw out what is
  queued, starting a timeline throws out all but fadeouts, everything else
  queues up behind.
* One reply channel per bank carries the answers of renders, of synchronous
  loads and of a standby preload that outlives the command that started it.
* The render loop must neither lose the preload's answer nor wait for it while
  it plays; it may not sleep for ever while one is in flight.
* A client waits for a patch load or holds a ticket for a preload while other
  clients throw the very command out of the queue.
* What an instance is believed to play, to have loaded and to have been sent is
  kept beside the plugin, and a failing block, load, chain or restart changes one
  and not the other.
* Events are placed on the clock of a live while timelines are begun anew, tempo
  changes arrive late and banks load.
* Meters are passed from thread to thread, and to another process, without a
  lock.
* Bank threads may die; shutdown may come at any time.

What makes it correct: a client that waits is answered, and with the answer to
its own request; frames of an old generation are not heard and those of a
running live are not dropped needlessly; events of one timeline do not run into
another and keep their time; notes of an earlier performance do not sound into
the next; a patch that counts as loaded is; a note that sounds can be silenced.

### 1.2 The other components

* `realtime-ipc`: shared memory between one client and the server.  A ring of 64
  slots with a write index and a read index, the client's process ID and
  heartbeat, one response slot for synchronous requests, one, under a sequence
  counter, for the standby completion, and the meters under another.  Hard: two
  processes, one of which may die and be replaced in the middle of a request;
  plain stores and loads on several words that are only consistent together.
  Correct when: no command is lost or read twice, a response belongs to the
  request that waits for it, a dead client is replaced and a live one is not,
  metrics of two publications are not mixed.
* `cache-player`: a CLAP plugin with four slots of decoded audio.  The main
  thread (`PluginStateImpl::load`) reads a part and publishes it in a slot, then
  raises a generation; the audio thread (`process`, `reset`, `stop_processing`)
  takes the slots over with `try_lock` when the generation is new, plays up to
  eight voices and puts references it no longer needs into a graveyard of its
  own, which it moves, again with `try_lock`, into a shared one that the main
  thread empties at its next load.  Hard: the audio thread must neither wait nor
  free memory, whichever side is slow; the slots and the generation change at
  two moments.  Correct when: what was published last is taken over in the end,
  an audio thread that believes itself up to date is, and the last reference to
  a buffer is not dropped on the audio thread.
* `timeline` (with `clack-timeline`): tempo map, block scheduler, transport.
  Correct when each event is handed out in exactly one block, at its place, and
  the beats counted are the integral of the tempo.
* `core-lib`: offline rendering of MML, phrases, MIDI and effect chains
  (`pipeline`, `render/offline.rs`, `midi.rs`), plugin hosting and patch loads
  (`render/*`), construction of instances, partly serial
  (`render/serial_instantiation.rs`), the catalog of plugins
  (`plugin_catalog.rs`), the data directory that servers build for Surge XT
  (`surge_data.rs`).  Correct when notes fall where the file's tempo puts them,
  latencies are made up for, a plugin that cannot stand company is constructed
  alone, and a directory that is used is complete and never damages its source.
* `render-server`: HTTP front of the offline renderer: an acceptor, a bounded
  channel, workers, a guard that ends the server with its parent.  Correct when
  each connection is answered or closed and a server that is stopped ends.
* `server-config`, `plugin-presets`: profiles and patch directories, the display
  strings of patches, the registry and manifests of Sforzando, preset formats.
  Correct when a display string, which songs keep, goes on meaning its file.
* Signal processing of the player: limiter, auto gain, mixer, recordings, timing
  diagnostics.
* Command line, build script.

`PROJECT.json` lists each of them with its status.

### 1.3 Hazards

The list in `PROJECT.json` gives each hazard with its line and the properties
that would notice it.  Section 4.5 adds exposures met while modelling about which
neither the code nor its documents promise anything.

## 2. Plan

Done:

1. The player core: `PlayerCommands` (queue), `BankChannel` (bank threads),
   `Player` (render loop and clients), the abstract `StandbyLoad` that `Player`
   implements, and the theorems about the queue.
2. `CachePlayer`: slots, generation, voices, graveyards; liveness of a refresh;
   its safety as theorems.
3. `CommandRing` and `FastIpc`: the ring, connect and reconnect, the response
   slot, the completion slot, a client that dies at any step; their safety as
   theorems.
4. The instances of a bank: `InstancePool`, `InstanceCreation`, `BankInstance`;
   their safety as theorems.
5. From the render loop to the device: `LiveTimeline`, `Meters`,
   `MasterLimiter`, `CaptureTaps`, `AudioOutput`; their safety as theorems.
6. The servers and what they render: `RenderServer`, `PlayServer`, `SmfTiming`,
   `OfflineRender`, `PatchCatalog`, `DataHome`; the safety of `DataHome` and of both
   servers as theorems.
7. The safety of the whole player, and that it implements `StandbyLoad`, as
   theorems.
8. What an offline render makes of a file and of a chain of effects, and what becomes
   of a saved patch string, as theorems.

Nothing of the plan is left.  What stays with TLC for good is in section 5.10, what is
not modelled in section 6.

## 3. The modules

### 3.1 What each models

| module | models | code |
|---|---|---|
| `PlayerCommands` | the command queue: every submit, shutdown, taking a command | `player/commands.rs`, `finish` of `player/audio_output.rs` |
| `BankChannel` | bank threads, their channels, `busy` | `player/worker/bank/{handle,state,patch,protocol}.rs`, `player/worker/bank.rs` |
| `Player` | the render loop, applying each command, standby preload, rendering, the clients, the end | `player/worker.rs`, `worker/{command,standby,live_mix}.rs`, `player.rs`, `fast_ipc.rs`, `http.rs` |
| `StandbyLoad` | what a ticket of a preload promises | `player/standby_ticket.rs` |
| `BankInstance` | what the commands of a bank do to an instance: notes, patch loads of every format, chains, fades, exchange, restart | `player/worker/bank/{state,patch,instance_chain,fade}.rs`, `core-lib/src/render.rs`, `render/*_patch.rs`, `render/silence.rs` |
| `InstancePool` | spare instances, orders, deliveries, exchange, the wait with its timeout | `player/instances.rs`, `player/instances/builder.rs` |
| `InstanceCreation` | the build threads, the offline renders, the steps of a construction and the permits | `core-lib/src/render/{parallel,offline,serial_instantiation}.rs`, `render.rs` |
| `LiveTimeline` | event queues, scheduler, tempo map, origin, the blocks of a live | `timeline/src/*.rs`, `player/runtime.rs`, `worker/live_mix.rs` |
| `Meters` | trim and auto gain, the limiter's peak, the timing metrics, thread to thread and over shared memory | `player/{auto_gain,timing_diagnostics,runtime}.rs`, `realtime-ipc/src/windows/meters.rs` |
| `MasterLimiter` | delay line, queue of peaks, gain | `player/limiter.rs` |
| `CaptureTaps` | the recording of the live and that of the output | `player/{live_capture,output_capture}.rs` |
| `AudioOutput` | ring of frames, generations, the callback and its buffer | `player/audio_output.rs` |
| `CachePlayer` | loads, slots, generation, voices, graveyards of the plugin | `cache-player/src/{lib,slots,graveyard,buffer}.rs` |
| `CommandRing` | the ring of commands in shared memory: claim, connect, push, drop, death; pop | `realtime-ipc/src/windows.rs`, `windows/{handles,command,protocol}.rs` |
| `FastIpc` | requests and responses, standby completions, the receive loop, over `CommandRing` | `realtime-ipc/src/windows.rs`, `windows/{server,standby}.rs`, `fast_ipc.rs` |
| `RenderServer` | acceptor, channel, workers, requests, guard and end of the render server | `render-server/src/*.rs` |
| `PlayServer` | the same of the player's HTTP front, with the IPC thread beside it | `realtime-play-server/src/http.rs`, `http/*.rs` |
| `SmfTiming` | MIDI file to tempo map, schedule and transport | `core-lib/src/midi.rs`, `pipeline/rendering.rs`, `render/playback.rs` |
| `OfflineRender` | one render, from the request through instrument and effects to the trimmed sound | `core-lib/src/pipeline.rs`, `pipeline/*.rs`, `render/offline.rs`, `effect/*.rs` |
| `PatchCatalog` | profiles, patch directories, display strings, Sforzando's roots and programs, the choice of a plugin | `server-config/src/{patch_base,plugin_profile}.rs`, `core-lib/src/plugin_catalog.rs`, `plugin-presets/src/sforzando.rs` |
| `DataHome` | building, comparing and clearing Surge's minimal data directory | `core-lib/src/surge_data.rs` |
| `MC...` | the instances TLC checks | |
| `PlayerProofs` | the theorems about `PlayerCommands` and `Player` | |
| `CachePlayerProofs` | the theorems about `CachePlayer` | |
| `FastIpcProofs` | the theorems about `CommandRing` and `FastIpc` | |
| `OutputProofs` | the theorems about `AudioOutput`, `MasterLimiter`, `CaptureTaps`, `Meters`, `LiveTimeline` | |
| `InstancesProofs` | the theorems about `InstanceCreation`, `InstancePool`, `BankInstance` | |
| `ServersProofs` | the theorems about `DataHome`, `RenderServer`, `PlayServer` | |
| `RenderProofs` | the theorems about `SmfTiming` and `OfflineRender` | |
| `CatalogProofs` | the theorems about `PatchCatalog` | |

`PROJECT.json` maps each definition to the lines it models.  Where the code tests
conditions one after the other and they overlap, the definition is a chain of IFs,
since the arms of a CASE have no order; where they exclude each other it is a CASE
or a set of alternatives.

### 3.2 How they fit together

`Player` EXTENDS `PlayerCommands` and `BankChannel`, `FastIpc` EXTENDS
`CommandRing`, `PlayServer` EXTENDS `RenderServer`, `OfflineRender` EXTENDS
`SmfTiming`: the actions of the smaller modules constrain their own variables,
and the larger module conjoins them with its own.

Where two modules meet at a step that each takes as one, they are not multiplied
out:

* `Player` and `FastIpc` at the receive loop: `Player` takes a command from a
  client as one step and looks at what becomes of it, `FastIpc` looks at how it
  gets there and how the answer gets back, and leaves open what the answer is and
  when a preload ends.
* `Player` and `BankInstance` at the command of a bank: `Player` has the channel
  and leaves open whether the work succeeds, `BankInstance` has the work.
* `BankInstance` and `InstancePool` at the exchange of an instance for a spare
  one, `InstancePool` and `InstanceCreation` at the building of one.
* `Player` and `LiveTimeline` at the live: `Player` has its commands, their
  generations and the banks' threads; `LiveTimeline` has its blocks and positions.
* `Player` and `AudioOutput` at the ring: `Player` pushes a block in one step.
* `PlayServer` and `Player` at the call of the player, `RenderServer` and
  `OfflineRender` at the render.

`MCPlayers`, `MCInstances`, `MCPlayback` and `MCServers` each put such modules side by
side: a behaviour is one of a single part (the variable `part`), and the others stand
still in a fixed initial state.  That is only an economy: a part behaves as it
would in a run of its own.

### 3.3 Grain and abstraction

**The player.**  A submit holds the queue's mutex, so it is one step.  A bank
thread handles a command in one step, because nothing of it is visible before the
reply is sent.  The render loop takes a step for each place at which somebody
else can get in between: polling the preload (`pc = "top"`), taking a command
(`fetch`), applying it (`apply`), waiting for a bank (`wait`), collecting the
rendered blocks (`collect`), pushing them into the ring (`push`), `exit`, `join`.
`apply_command` of a command that waits for its bank is two steps, the send and
the receive, with everything that happens in between interleaved.  Of a note
`Player` keeps whether it belongs to the performance played now or to an earlier
one (`held`).  A batch of events is one event.  A patch is not named: a load is an
answer that may be an error.  Of a live it keeps the generation, the timeline,
whether its first event came, and the active instances.

`AudioOutputControl.generation` is always stored in the critical section that
changes `PlayerState.generation`, so both are the variable `generation`.
`active`, by contrast, is also stored by the render loop outside the lock
(`finish`); it is the variable `outActive` of its own.

`Faulty` instances may fail to render or to load.  `Crashable` banks may die
while they work on a command, as after a panic of a plugin: their queue is gone,
replies already sent can still be received, sends fail from then on.

**Instances.**  The thread of a bank is sequential, so `BankInstance` takes a
command as a step; what varies is what fails in it.  A plugin is what the
comments of the renderer expect of one: a NoteOff ends one voice of its key,
`reset()` ends none, and the cache player ignores NoteOffs and is silenced by
`reset()`; calls it refuses to process leave its voices alone.  A fade lasts a
number of blocks.  In `InstancePool` instances are counted by plugin, not named,
and the timeout of a wait may come at any time or never.  In `InstanceCreation`
what a plugin holds, which ports it has and whether it fails or panics are part
of the plan; the two locks are steps of their own.

**Times and sound.**  Positions are whole samples, beats are tempo times samples,
and `SmfTiming` counts in tempo times ticks: what the code truncates is truncated,
what `f64` rounds is not modelled.  A frame of sound is its number, and in
`OfflineRender` also the list of what it went through; an effect is a delay line
of as many frames as it reports.  In `MasterLimiter` a frame is its louder channel
in multiples of the ceiling, NaN included.  `Meters` takes each load, store, swap
and compare-exchange as a step and follows one of its three values at a time,
which share no cell; of the nine metrics it keeps two that must fit together.

**The cache player.**  The main thread's load is a step per lock and per store
(`mainPc`): the graveyard is locked and taken, its references are dropped after
the unlock, the request is read, the slots are locked, changed, and only then
the generation is raised.  The audio thread (`audioPc`) goes from reading the
generation to trying the lock, to burying what it replaced, to the events of the
block, to collecting.  Its graveyard is its own, so one reference is buried or
moved per step and the order within is not looked at.  A lock is held exactly in
the states `MainHoldsSlots`, `MainHoldsGraves` and `AudioHoldsGraves` name;
`try_lock` fails in them.  A buffer is the number of the load that made it, a
reference to it an entry of one of the tables; samples and positions are left
out, so a voice may end at any time.  `older` is a history variable: no action
looks at it.

**The shared memory.**  A client and the server take a step for each load or
store of a shared word and for each event set or waited for, in the order of the
code; memory is sequentially consistent, which is what release stores, acquire
loads and the x86 machines the program is built for give these accesses.  `pc`
is where a client stands in `connect` and `push`, `call` where it stands in the
method around it, `serverPc` where `pop_command` stands and `task` where the
receive loop stands.  `push` loads client, heartbeat and indices in one step with
the write of the slot: of what others do meanwhile only a pop matters, and it
makes room.  A client may die in each state; what it had in shared memory stays,
its own memory is gone.

Both slots that carry answers consist of two halves, the request ID and the rest
(status, length, payload); each half is modelled as the command it was written
for, so that a torn or a wrong read can be seen.  A reader looks at nothing of
the first half but its request ID.  Request IDs begin again at 1 with each
connection, as in the code.  The result of a request is any; the ticket of a
preload may be ready at any round of the loop; the shutdown flag is read with it.
Standby requests are made one at a time by a client, as the protocol's comments
ask (`protocol.rs:125`).

`pending` and `overtaken` are history variables.  `overtaken` says that the
client connected while the server was between the read index it had loaded and
the one it was going to store: the store then undoes the client's, and commands
of the connection before are popped once more.  Where a property holds only
otherwise it says so with `~overtaken`.

**The servers.**  A request is what of it the server tells apart: how its head
arrives, the length it states, whether the body is complete, method, path, type
and encoding.  A client may connect and stay silent until the read times out, and it may
or may not take its answer (`takes`); a render may fail, panic or yield a WAV that fits
the buffers of the connection or one that does not, and a worker that panics is gone.

**A song's tempos.**  An invalid tempo is 0 (`NoTempo`); the meters of a file are made
valid when it is read (`core-lib/src/midi.rs:262`).  A division of no ticks per beat, of
which nothing but infinite times comes, is not modelled.

**Patches and directories.**  In `PatchCatalog` a path is the sequence of its
components and what the formatting does to a display string is done to that
sequence.  Directories stand in sets; where the code takes the first of several roots,
it is the first in the order of their paths (`RootOrder`).  The plugins of a server are
at places, in the order of their names.  A behaviour saves one patch as the catalog
lists it, changes the
configuration, the installed plugins, the roots ARIA has registered or the cache
a few times, and starts a server, which takes stock once.  `bookmark` and
`started` remember what was saved and what the server was started with.  The
server's base of a plugin with several directories is made of all that are
configured (`plugin_catalog.rs:68`), the catalog's of those that exist
(`server-config/src/patch_catalog.rs:110`): where one is missing, displays may move, and
`KeepsPlace` leaves those cases out of what is promised.  It also leaves out roots
of the same folder name, of which the first is taken, as `docs/adr/0015` says.
Without the plugin the registry is not read, so it asks of a program that the plugin
was there at the start, which of those listed only the default plugin may fail.
Several programs in one manifest, `.ariax` files and entries that cannot be played
are not modelled.  In `DataHome` a place holds nothing, a link, a directory or a
file; each entry is looked at, removed or made in a step, any of which may fail,
and a process may be killed between any two.  An empty directory in the place of what was
seen as a link goes with it, as on Windows (`surge_data.rs:343`); elsewhere its removal
fails.

## 4. What is checked

### 4.1 The runs

| run | shows |
|---|---|
| `MCPlayers` | *queue*: the queue's invariants and which submits may drop rendered frames; *cache*: the slots the cache player has seen are the current ones and are taken over in the end, the audio thread frees nothing while its graveyard has a place |
| `MCPlayer` | one request per bank, a preload's reply is its own, the worker ends up in the generation the output plays; `Player` implements `StandbyLoad` |
| `MCPlayerLive` | over longer histories: no note of an earlier performance under a block, timeline events find their own timeline |
| `MCPlayerLiveness` | every ticket is answered, every waiting call returns |
| `MCFastIpc` | no command lost or read twice, no missed wake-up, whole completions, no preload without one |
| `MCInstances` | *pool*: instances of a plugin never exceed slots and target, a bank's wait ends; *creation*: a plugin that must be alone is; *bank*: a new line is not faded by the last, what sounds is known, a patch that counts as loaded is in place, a voice that counts as sent is the one played |
| `MCPlayback` | *timeline*: events keep their time, beats are the integral of the tempo; *meters*: metrics of one publication, no peak lost, the trim leaves with its switch; *limiter*: nothing above the ceiling; *capture*: recordings without a gap; *output*: frames in order; *home*: the source is never damaged, a process that worked undisturbed applies a whole directory |
| `MCServers` | *render* and *play*: each connection ends, a shutdown drains; *offline*: notes in time, sound in place after any chain of effects, blocks know their tempo; *catalog*: a saved patch reaches its file or is refused |
| `MCPlayerShutdown`, `MCPlaybackLoading`, `MCServersConflict`, `MCServersTempo` | four statements of comments and documents that the code does not keep, section 4.5 |

### 4.2 Bounds

*Player.*  Two banks with one instance each are enough for one bank to load while
the other plays; a third would only repeat the second.  Two timelines show events
of one meeting the other.  Three submits (`MaxSubmits`) let a command be
submitted, another throw it out or overtake it, and a third meet what is left;
`MCPlayerLive` has a fourth, for six commands and without failures.  The queue is
also checked alone, in `MCPlayers`, with two instances, two timelines,
four generations and a queue of three.

*Shared memory.*  Two clients, a ring of two slots, indices of four values.  Four
connections and pushes (`MaxBegun`) are enough for one client to fill the ring and
find it full, for a client to be replaced in the middle of a request and to have
the successor ask for the same, and for both to claim the ring of a dead one.  The
indices do not wrap in this run; the ring alone was also explored with one slot,
two values of an index and seven connections and pushes, where they wrap, and the
theorems hold for any bounds.  The clients are symmetric.

*Cache player.*  Two slots, two voices, graveyards of two places, two changes: the
audio thread reads the generation before, between and after the stores of a load
that overtakes it; graveyards of two places are full after a slot and a voice were
replaced, which the code's 32 places are only after a long stall.

*Instances.*  Three plugins and one slot per bank let the slot go from one to
another and on to a third while the order for the first is out; two orders at a
time let the builder be late.  Two build threads and two renders over four plans,
with plugins that fail, panic or need to be alone.  One instance with a patch of
every way to load (cartridge, SFZ, state applied and cache; one that is pending ends as
one that is applied does), one key, one chain, fades of two blocks and four commands
(`MaxCommands`): a load, its failure at any step, and what is done on top of it; and a
fade-out, the block that ends it, the new line whose events are held from then on, and
the block that releases them, which is where `NewLineSoundsInFull` can fail.

*Playback.*  Blocks of two frames, a clock up to 4 and events at 0, 1 and 3 put
events at the start, within, at the edge of and behind a block; two segments with
four submits fill the tempo map, whose limit in the code is 64.  A look-ahead of
three frames with peaks up to three ceilings lets a peak be overtaken by a louder
one and end with the line.  A ring of two chunks of two frames, two generations
and six frames let it fill and wrap.  Two processes build the directory at the
same time, each may be killed or fail anywhere, and the source may change once;
one entry of each role that is handled differently (`Wavetables`, the linked ones,
the templates) is there; `Emptied` and `Copied`, which repeat the treatment of the
first and add plain files, are empty in this run.

*Servers.*  Two workers and three connections fill the channel, which has as many
places as workers, and leave one connection offered.  One client sends any of the
requests, silence, an early end and a panic included; or two clients do not read their
WAVs and hold both workers, with the third connection behind them.  The files are all small
ones: up to two events on each of two tracks, tempo and meter changes at the same
tick and at different ones, invalid tempos (0) included, in either order of the tracks,
with and without preroll; a transport holds two segments (`MaxSegments`, 64 in the
code), so that files with three overflow it; the chains all of up to two stages of the four kinds.  A path is saved
among four roots, one inside another and two of one name, under six
configurations, with three changes (`MaxChanges`) between saving and loading.

### 4.3 Fairness

*Player.*  Each thread runs (`WF` of the render loop, of each bank, of the IPC
thread's two wake-ups).  That is what an operating system's scheduler gives;
strong fairness is not assumed, and no client has to submit or to drop anything.
`TicketIsAnswered` and `CallReturns` therefore do not rest on somebody sending one
more command.  A bank that hangs inside a plugin for ever is outside this
assumption.

*Cache player.*  A call that has begun goes on (`WF` of the steps of a load and of
a block), and the host processes block after block (`SF` of `ReadGeneration`,
since `reset` and a new activation may come between blocks).  It does not have to
load anything; as the loads are bounded, the lock is not held each time the audio
thread tries it.

*Pool.*  The builder works as long as it has orders and a bank wakes up for what
arrives (`WF`); nothing is assumed of the 20 s timeout, so `WaitEnds` says that
the builder answers every order, failures included.

*Servers.*  Acceptor, workers and the IPC thread are scheduled, and an action of a
worker that reads or renders ends (`WF`): reads have a timeout
(`render-server/src/http.rs:179`) and a render is finite.  Writing has none: `write_all`
of a WAV (`http/response.rs:64`) returns when the client has read it or is gone.  So the
write of a long WAV is a step of its own (`Writes`), enabled only for a client that
takes its answer, and no fairness makes it happen for another.  Such a client holds its
worker without limit, and with it the join at the end of a server that was told to
stop; `ConnectionsEnd` promises an end to every connection but that one and, while all
workers that are left are held so (`Stuck`), those behind it.  Texts, which are all the
play server answers with (`realtime-play-server/src/http/response.rs:87`), and WAVs that
fit the buffers of the connection are written whether they are read or not.  No client
has to send anything.

### 4.4 Every property can fail

Operators marked "seeded fault" are the mistakes the properties are measured
against (`mutants` in `PROJECT.json`): a dropped guard, a missing reset, a swapped
order, a result that is only sent on success.  Each property of each run has one
that violates it.

### 4.5 What comments and documents say and the code does not do

Four of them are runs that end with a counterexample:

* `MCPlayerShutdown`.  `player/worker.rs:297` says that at the end Shutdown is sent
  to both banks and they are joined ("両 bank へ Shutdown を送って join する").
  The loop leaves only through its idle branch (`worker.rs:142`).  While
  something plays, taking a command yields nothing after shutdown and waiting
  for space returns false, so the loop goes round (`worker.rs:193`) for ever
  and `RealtimePlayer::drop`, which joins it, does not return.
* `MCPlaybackLoading`.  `worker/live_mix.rs:114` says of the instances of a bank
  that is loading that their queue is left alone and no event is thrown away.  That
  holds for the queue of the instance.  The events of the timeline are taken out of
  the scheduler for all instances at once (`live_mix.rs:56`) and those of a loading
  bank go into no request (`live_mix.rs:128`): they are gone.
* `MCServersConflict`.  `docs/adr/0015-sforzando-sfz-preset-load.md:17` says that
  different programs for one path are refused by the catalog and by the loader.
  Only the catalog compares them; `resolve_sforzando_program`
  (`plugin-presets/src/sforzando.rs:60` and `:71`) takes the first it finds.  A
  patch saved from the user bank, whose directory is registered as a bank of its
  own afterwards, shows it.
* `MCServersTempo`.  `timeline/src/transport.rs:205` says of the segment that a full
  transport drops that it is far behind the playhead and its loss changes no answer
  there ("落としても現在位置の答えは変わらない"; `:67` says the same of the limit).  It is so
  in a live, which adds a segment when it gets there.  An offline render pushes all
  tempo segments of a file before its first block
  (`core-lib/src/render/playback.rs:96`): of a file with more than 64, the first are
  gone while the song is still in them, and its start is told the tempo of the first
  one left (`transport.rs:224`).  `BlocksKnowTheirTempo` says what holds nonetheless.

Five more were met on the way and follow from reading the lines together:

* `standby_ticket.rs:35` explains a sender that is gone without a result by the
  end of the worker ("ワーカー停止"), and so does the error text the client gets.
  A play, a stop, the MIDI that enters live or the start of a timeline also throws
  the queued preload out (`commands.rs:134`), with the worker well alive.
* `commands.rs:212` says the output has to be brought back to playing when live
  goes on after all instances were stopped.  Only the start of a timeline does so.
  A MIDI submitted while StopInstance is still queued does not, and StopInstance,
  applied later, marks the output inactive (`worker/command.rs:96`): the following
  MIDI plays into an output whose underruns are not counted.
* `cache-player/src/buffer.rs:95` and `:123` say that when all voices sound, the
  oldest gives way ("最も古い voice を潰す").  `next_slot` goes round the table
  whenever a voice is taken over, but does not move when a free voice is taken
  (`:132`).  After a voice has ended and its place was taken again, it points at a
  voice that is not the oldest.
* `realtime-ipc` `protocol.rs:78` says that a response OK means that the processing
  is complete, but for preloads.  A response is told by its request ID, and the IDs
  of each connection begin at 1 (`windows.rs:349`).  If a client dies while the
  server works on its request and a successor connects and sends its first, the
  response to the old request passes for the response to the new one.
* `windows/standby.rs:35` says that because the sequence only grows a completion is
  not taken for that of another request with the same ID.  The watermark excludes
  completions published before the request (`:101`), not those published after it
  for a request made before, by a client that died.

The following are exposures without a promise that would make them a property:

* `player/commands.rs:166`: stopping an instance raises the generation of a live that
  goes on.  If a block of the generation before is pushed first, the live ends with
  it, while the timeline stays open for its clients and later events are dropped.
* `worker/command.rs:432`: a patch load or a preload turns a scheduled playback into
  a live without releasing its notes.
* `realtime-ipc` `windows.rs:57`: a client that connects between the server's load
  and store of the read index has its own store undone (`overtaken` above).
* `windows.rs:380`: while the receive thread waits for a patch load longer than
  `SERVER_STALE_MS` it touches no heartbeat, and a push meanwhile takes the server
  for stopped.
* `core-lib/src/pipeline.rs:227`: `output.mid` is written before the render and
  `output.wav` after it; a render that fails leaves the new MIDI beside the old
  sound.
* `realtime-play-server/src/http.rs:62`: when `accept` fails for good, the HTTP side
  ends and joins the IPC thread, which only the shutdown ends.
* `core-lib/src/surge_data.rs:111`: a process may clear the directory after another
  has pointed `SURGE_DATA_HOME` at it and started its plugins.
  `AppliedTreeIsWhole` speaks of processes that were alone at work.
* `core-lib/src/render/playback.rs:94`: a file whose first tempo is invalid (0
  microseconds) has no transport at all, though later ones may be valid; the comment
  above it speaks of the single segment that is left out.
* `core-lib/src/render/parallel.rs:93`: a thread looks at the failure and then
  claims the next index, so after a failure each thread may construct one more.
* `core-lib/src/pipeline/effects.rs:107`: effects are constructed outside the lock of
  the instruments.
* `player/runtime.rs:254`: the metrics of a window are stored one by one before they
  reach the shared memory; only the way through it is guarded by a sequence.

## 5. What is proved

Each proof has the same shape: an invariant, stronger than the property, that the
initial states satisfy and every action keeps, one lemma per action or per kind of
action.  The theorems hold for every value of the constants that the assumptions of
their module admit; 5.9 lists these.  Where an induction over numbers is needed, the
proof takes the least counterexample of a set and finds a smaller one.

### 5.1 The player and its queue

`PlayerProofs` proves about the queue, for any sets of instances and
timelines and without a bound on generations, queue length or submits:

* `QueueTypeCorrect`: the type invariant;
* `QueueInvCorrect` and a corollary for each of its five parts: the queued live
  commands belong to a live still requested; an open timeline implies one; the
  timeline commands belong to the open timeline; generations are ordered and never
  ahead; the MIDI that enters live is first;
* `OnlyTheseDropFramesCorrect`: the action property about the frames that
  survive.

The argument: every step has one of five shapes (`StepShape`): the queue starts
over with one command, a command is appended, a timeline begins after the
retained fadeouts, the oldest command is taken, or the queue is left alone.
Each part of the invariant is then shown to survive each shape.  The parts are
inductive with the type invariant, except that `LiveCommandsNeedLive` needs
`TimelineNeedsLive`: the submits that check the open timeline do not look at
`live_requested`, and only because an open timeline implies it is the new
command a command of a requested live.  `RetainedAreFadeOuts` says what the
retained part of the queue is.

It proves that the player implements this queue
(`PlayerImplementsQueue`): each action of the clients, of the render loop and of
the banks is a step of the queue or leaves it unchanged.  The invariants of the
queue hold in the player therefore (`PlayerKeepsQueueInv`), for any number of
banks and submits.  About the player itself it proves, each with an invariant that
rests on those before it:

* `OneRequestPerBankCorrect` and `StandbyReplyIsItsOwnCorrect`, by `PlayerInv`.  Its
  core is `ChannelInv`: of a bank either nothing is asked, or the request waits in
  its channel, or the reply to just that request does, or the bank died over it.
  `StandbyInv` adds that the render loop waits for no other bank while a preload is
  in flight and that a block is collected only from banks asked to render, so that
  no reply is taken for that of the preload.
* `PlayerImplementsStandbyLoad`: the player implements `StandbyLoad`.  A load is in
  the abstract states by what the ticket and its outcome are, and every step is one
  of the abstract load or leaves it alone.  `PreloadInv` says why: there is one
  preload at a time, queued, being applied or in flight, and while it is there a
  client holds its ticket, unless the player was shut down.
* `TimelineEventsReachTheirTimelineCorrect`, by `TimelineInv`: the loop may still be
  on a timeline that was replaced or ended, but then what ends it is under way, and
  nothing but fadeouts is queued before that.
* `WorkerCatchesUpCorrect`, by `GenInv`: the loop, followed by the queued commands
  in their order, ends in the generation of the output.
* `NoStaleNoteCorrect`, by `NotesInv`: an old note is still held only by an
  instance that is released at its next block, or whose bank has a command in its
  channel that clears it; and a bank that renders is waited for (`RendersCollected`),
  so that nothing is rendered behind the loop's back.

### 5.2 The cache player

`CachePlayerProofs` proves the safety of the cache player for any number of
slots, voices, places and loads:

* `CacheTypeCorrect`: the type invariant;
* `SeenSlotsAreCurrentCorrect`: its inductive strengthening `SeenInv` adds that
  the generation read and the one seen are never ahead of the generation, so
  that raising it makes every view old, and that at generation 0 the slots are
  empty, which a new activation, starting over with generation 0 and empty
  slots, relies on;
* `AudioThreadFreesNothingCorrect`, an action property.  It needs an invariant
  of its own, `PreviousIsBuried`: when slots are replaced, nothing is left of
  those replaced before, which would be lost.  Then each step of the audio
  thread is shown to keep a reference to every buffer: `BuryingKeeps` (into the
  own graveyard), `MovingKeeps` (into the shared one), `SilencingKeeps` (a voice
  that ends or is taken over).

### 5.3 The shared memory

`FastIpcProofs` proves the safety of the ring (`CommandRing`) for any number of
clients, slots, connections and pushes:

* `ConnectedOwnsRingCorrect`: a client takes the ring from nobody or, by way of
  clearing it, from the dead.  It is inductive with the type invariant
  (`RingTypeCorrect`).
* `RingHoldsPendingCorrect`.  The invariant speaks of the ring between two
  operations only; its strengthening `RingInv` adds what holds within them: the
  server pops at the read index (`PopsAtReadIndex`), a written slot is behind
  the others and not yet counted (`WrittenIsNext`), the distance of the indices
  is the number of pending commands (`SlotsHoldPending`), what is copied is the
  oldest (`TakenIsOldest`), and one client writes (`ConnectedOwnsRing`).  Under
  it lies the arithmetic of the indices: two indices less than a ring apart have
  different slots (`SlotsDiffer`), and a slot is the same before and after the
  wrap (`SlotOfWrapped`).  The latter needs the assumption that the number of
  indices, 2^32 in the code, is a multiple of the number of slots, and
  `RingIsShort` that it is at least twice that number.

It proves that the channel uses the ring as `CommandRing` allows
(`FastIpcImplementsRing`), so that the above holds in it (`FastIpcHoldsPending`),
its type invariant (`IpcTypeCorrect`), and of the completion slot:

* `CompletionIsWholeCorrect`, by the invariant `CompletionInv`: the sequence is
  odd exactly while the slot is written, an even sequence means a whole slot, and
  what a client has copied is what the slot holds as long as the sequence is the
  one it read first;
* `PreloadIsCompletedCorrect`, an action property, from the same invariant;

and of the response slot `ResponseIsSignalledCorrect`, by `SignalInv`.  That a client
does not sleep through its response needs more than the order of store and event:
the request ID found in the slot must not be that of somebody else's request.
`RespondsInOrder` follows a client's command through the ring, the server's hands and
the slot, where it is in one place at a time; `NumbersBegun` and `CallsConnected` say
that no number is used before it is given out and that a call that goes on belongs
to a connection; `ResponseIsWritten` and `WaitersAreWoken` give the two halves of the
slot and the event.  All of it holds unless old commands came back (`overtaken`).

### 5.4 From the render loop to the device

`OutputProofs` proves, for any sizes, lengths and histories:

* `FramesArriveInOrderCorrect` (`AudioOutput`), by `OutputInv`: the slots from the
  read to the write position hold the frames of these numbers, and what either side
  has in its hands is the next one.
* `OutputUnderCeilingCorrect` (`MasterLimiter`), by `LimiterInv`: the delay line is as
  full as it can be (`DelayIsFull`), and of the queue of peaks, which is descending
  in peak and rising in number, the first entry from any frame of the line on is
  as loud as that frame (`DetectorCovers`).  A peak that a louder one removes is
  covered by it from then on.
* `RecordingsHaveNoGapCorrect` (`CaptureTaps`), by `CaptureInv`: frame by frame, what
  was taken is what went by.
* `TrimLeavesWithTheSwitchCorrect`, `MetricsAreOfOnePublicationCorrect` and the action
  property `PeaksAreReportedCorrect` (`Meters`), by `MeterInv`: whoever has a peak in
  his hands raises the cell with it (`HandsRaise`), nothing of the trim is under way
  a block after its switch (`TrimIsForgotten`), the cells are one publication while
  the sequence is even (`CellsAreWhole`), and what a client has read is in the cells as
  long as the sequence is what it was (`ReadIsOfCells`).
* `EventsKeepTheirTimeCorrect` (`LiveTimeline`), by `TimelineInv`: queue and scheduler
  are in the order of time (`InOrder`), and what is in them lies ahead unless it came
  late or was skipped (`LiesAhead`).  Sorting is the operator `Ordered`; that it is a
  permutation, in order, follows from the ranks in a finite total order.
* `BeatsAreTheIntegralCorrect` (`LiveTimeline`), by `BeatsInv`: from the first segment
  kept on, the beats the map gives are the integral over all changes ever accepted.
  The integral is a recursive function; that its running sums exist and agree with
  the map's, that it grows, and that a pushed change, which may replace the last
  segment or remove the first, moves no beat before it are lemmas.

### 5.5 The instances

`InstancesProofs` proves, for any plugins, banks, patches, chains and threads:

* `CreationsAreApartCorrect` (`InstanceCreation`), which is inductive with the type
  invariant: to enter a step is to find nobody in one that excludes it.
* `PoolBoundedCorrect` (`InstancePool`), by `PoolInv`: of each plugin a bank's slots,
  spares and orders together stay within slots and target, and what is on its way
  to a bank, in the builder's queue, his hands or the channel, is not more than the
  bank has counted as on order (`WhatComesIsCounted`).
* `LoadedPatchIsInPlaceCorrect` and `SentVoiceIsPlayedCorrect` (`BankInstance`), by
  `LoadsInv`: what is on record for an instance is what its renderer was told
  last, through every load that failed half-way, in any format, restarts and
  exchanges included.
* `SoundingIsKnownCorrect`, from the same: no voice sounds that the ledger does not
  know, ledger and voices both being recursive functions of what was played.
* `NewLineSoundsInFullCorrect`, by `LinesInv`: a muted instance has passed nothing of
  its line and holds all that is due of it, and one that is not is past the line that
  its last fade ended.

### 5.6 The servers and the data directory

`ServersProofs` proves, for any number of workers, clients and processes:

* `ShutdownDrainsCorrect` for `RenderServer` and `PlayShutdownDrainsCorrect` for
  `PlayServer`, by `DrainInv`: every connection is in somebody's hands
  (`HandsAreKnown`), no thread ends before its work is done (`EndsInOrder`), and the
  one connection that is closed unanswered is that held when the shutdown came
  (`DropsAreKnown`).
* `SourceIsIntactCorrect` and the action property `AppliedTreeIsWholeCorrect`
  (`DataHome`), by `HomeInv`.  Nothing under the source is removed because what was
  taken for a directory is never made a link afterwards (`StaysDirectory`), by
  whichever process; and this holds because each place has one thing that the program
  makes of it (`MadeHere`).  `Progress` says how far an undisturbed process has
  come; one that was given the minimal directory itself as its source has removed
  what it wants to link (`HasNothingToLink`) and never gets to apply it.

### 5.7 The offline render

`RenderProofs` proves, for files of any tracks, events and changes of tempo, any
preroll, any length of the blocks, any plugins and any latencies:

* `NotesFallInTimeCorrect` and `BlocksKnowTheirTempoCorrect`, by `SongInv`: the schedule
  is the file's, the instrument has heard exactly the events before the cursor, each at
  its own place, the events from the cursor on lie at or after the position reached, and
  the last block was told the tempo that the transport gives there.  That this is the right
  one, whatever the number of segments, rests on `TransportIs`.  By `PushKeeps`, which is about
  one push, the entries of a transport are segments of the map in their order (`Holds`); from
  the first of them on, each segment of a valid tempo is told by the latest entry up to it;
  and entries are lost only when there are `MaxSegments`.  So the segment in force at a
  moment (`SegmentHere`; it is of a valid tempo, since one of an invalid tempo takes no time)
  is told, or it lies before the first entry, and then that one is told, with at least
  `MaxSegments` segments from it to the end of the song.
* `SoundStaysInPlaceCorrect`, by `SongInv` and `ChainInv`: while the chain is at work,
  what is through it is the song behind the delay of its stages, each frame with the
  marks of all of them, and the line of stage k holds the frames that went in last, with
  the marks of the stages before it (`InPlace`).

What a file yields is computed in layers, each with its lemma:

* `ListedIs`: the events of all the tracks, at their ticks.
* `OrderedIs`: the sort keeps each event once and puts them in the order of time, those
  at one time in the order of the file.  It rests on the ranks of a finite total order
  (`RanksAreTaken`).
* `WithChangeIs`, `MapIsBuilt`: a change leaves a tempo map whose segments follow each
  other, counted each with the tempo of the one before, and which tells the new tempo
  from the change on and the old one before it.  So, change by change, the map tells at
  each tick the tempo of the last change up to it, which is the one that the file means
  (`TempoInIs`, `TempoMapIs`).
* `TimeIs`: a map that tells the right tempo at each tick, and that from one tick to the
  next counts that tempo (`SecondsAtGrows`), counts the time tick for tick.
* `ScheduleIs`, `TransportTells`, `DueIs`: the notes at their samples, the tempo of the tick
  that a position lies in, and the events due in a block, which are the next ones.
* `ThroughIs`, `RunIs`: what a stage, and the first k stages, make of a block.
* `PaddedIs`, `ChainEndsInPlace`: the silence added is enough to push the last frame of
  the song through all the lines, and no block is left then.

The recursive functions of the model (ticks, the map, the lines of a chain, the sum of
latencies) are shown to exist by `RecursionHasSolution`, which, like every induction
here, takes the least number at which something would fail.

### 5.8 What a saved patch stands for

`CatalogProofs` proves, for any profiles, names, configurations, plugins, directories,
roots, manifests and files, and for any number of changes between saving and loading:

* `CatalogInvCorrect`: the inductive invariant.  `ServerInv` holds a server against what
  there was at its start: its kinds are those of the plugins there were, each with the
  form and the base that the plugin's directories, or the roots registered then, give
  it (`KindIs`), whatever is configured, installed or registered now.  `SavedInv` holds a
  saved string against its file: it spells the file by its path, from the directory above
  all of the plugin's, or from the parent of the root it was found in, and then
  the file is a program of the user bank or of a manifest above it (`StandsFor`).
* `SavedPatchReachesItsFileCorrect`: from it, for both servers.

`SavedPatchReachesItsFile` speaks of the world of the load and of that of the start and the
saving, which may all differ, and so it is not inductive: the invariant says of each
of the three what is left of it in the other two.  The argument has four parts:

* What a configuration makes of the profiles are profiles again, merge by merge
  (`MergedIs`, `ProfilesAre`), and so the directories the bases are made of are directories
  (`DirsAre`); `SharedIs` says that the deepest directory above some of them lies above each.
* A cache of the roots is used only if its roots are the current ones, and then it makes no
  difference (`KindOfIs`).
* The form of a path is told by what is in it and by its end, and no directory in front of
  it changes it (`FormOfRest`).  So the play server, which chooses the plugin by
  the path it has made of the string, chooses the same one as the render server, which
  chooses by the string (`ResolvedForm`, `ReadersAre`, `LoadsAre`), even if it has
  made the path with the base of another plugin of that form.
* A spelling put back under its place is the file (`PrefixIs`, `PartsAre`).  A program is found
  again by the manifests at the file or above, wherever the roots are now, or by the user bank,
  and the second only as long as that is registered (`ProgramIsReached`); a file of another
  form needs only its path (`PathIsReached`); and a program whose folder name no root has is
  still no path and refused (`GoneIsRefused`).

### 5.9 Assumptions

All are named, stand in the module that declares the constants, and are evaluated
in the runs: "none" is not an instance, timeline, patch or chain
(`NoneAssumption`, `InstanceAssumption`); each instance belongs to a bank
(`BankAssumption`, `TimelineAssumption`); sizes are numbers and, where the code
has a constant above zero, not zero, and gains have limits on both sides of 0 dB (`SizeAssumption`, `OutputAssumption`,
`LimiterAssumption`, `CaptureAssumption`, `MeterAssumption`, `PoolAssumption`);
workers, clients and keys are finite in number (`ServerAssumption`,
`InstanceAssumption`); the number of indices of the command ring is a multiple, at
least the double, of its slots (`RingAssumption`); the plans of creations are well-formed
(`CreationAssumption`); and the entries of the data directory that the program links,
copies and leaves empty are different ones (`DataHomeAssumption`); a job has a file of
events with numbers in it and a request whose elements name a plugin, and one that
comes as a MIDI file has no JSON of a chain with it, which only an MML can carry
(`SmfAssumption`, `OfflineAssumption`).

Of paths it is assumed (`CatalogAssumption`) that no directory has the name of a patch file,
since a string says nothing of the directories in front of it and the path does; that
no file is named by the extensions of two forms, and none lies above a
directory; that the roots are different and each has a folder name, for a string that was
saved below a bare drive begins with no root's name and is refused
(`resolve_per_root`, `server-config/src/patch_base.rs:102`); and that the default plugin has a
profile.

### 5.10 Only model-checked

* Liveness under fairness, which the proof system does not reach: `TicketIsAnswered`,
  `CallReturns`, `SlotsAreTakenOver`, `WaitEnds`, `ConnectionsEnd`.
* The four counterexamples of section 4.5, which are about single behaviours.

## 6. Not modelled

* *Samples.*  Mixing (`mixer.rs`), gains other than the limiter's, decoding,
  resampling and the rounding of `f64`: arithmetic without a state that two sides
  share, whose reference is the ear or a float test.
* *Preset formats* (`plugin-presets` other than the roots and programs of
  Sforzando: Surge FX, Dragonfly, Floe, cartridges and others): pure translations of
  bytes whose only reference are the plugins themselves.  A model would repeat the
  tables.  What a load does with their success or failure is in `BankInstance`.
* *Parsing and formatting*: MML, HTTP heads, JSON, `config.toml`, the encoding of a
  command into its slot.  Each is taken by its outcomes, errors included.
* *Configuration*: default paths, ports and environment variables, and the choice of
  an audio device and its format (`output_stream.rs`), which are read once.
* *Reports*: parameter lists, voicing tables, probes other than their answer, logs.
* *The player's command line* and *the build script*: they keep no state that runs
  on.
* *Shared memory*: a process ID that is used again, a request ID or a response
  sequence that wraps, a server that is started again on memory a client has mapped,
  weak memory orders.
* *Cache player*: the spelling of a state, voices' positions, counters for
  diagnosis.  A reference for which the audio thread's graveyard has no place is
  dropped on the audio thread by the code and by the model, and no property says
  otherwise.
* *Inside a plugin*: what it does with a call it accepts is what section 3.3 says it
  is expected to do; a plugin that hangs is not modelled.
