# DeviceOut in TLA+

DeviceOut is a Windows VST3 plugin that takes the audio of a DAW track and plays
it on any playback device of the system, in shared or exclusive mode, beside the
DAW's own output. This directory is a TLA+ model of its audio path, of the threads
that start, stop, rewire, tune and recover it, of its editor, of the updater that
replaces it and of the server that takes its reports and pings, with the TLC runs
and the TLAPS proofs that go with it. All paths below are relative to the repository.

## 1. The system

| part | source | state it keeps | operations |
|---|---|---|---|
| ring bridge | `deviceout-core/src/ring.rs` | a lock-free ring, `BridgeStats` | `push`, `pull`, `discard` |
| drift control | `deviceout-core/src/clock.rs`, `resample.rs` | filtered fill, integral, ratio | `update`, `set_ratio` |
| source bus, mixer | `deviceout-engine/src/mixer.rs` | inbox of orders; sources with fill, liveness, ledger | `join`, `leave`, `sync`, `trim`, `pull` |
| output engine | `deviceout-engine/src/worker.rs`, `metrics.rs`, `error.rs`, `trace.rs` | one thread, one audio client, `EngineMetrics`, a log | `start_with`, `stop`, the thread's loop, the trace's |
| sink | `deviceout-sink/src/*` | the WASAPI client | `open`, `prefill_silence`, `start`, `write`, `stop` |
| engine controller | `deviceout-plugin/src/engine_ctl.rs` | per instance: device, ring, tuning; per device: members, bus, engine; the hub | `initialize`, `deactivate`, `set_device`, retunes |
| plugin, editor | `deviceout-plugin/src/lib.rs`, `editor/*`, `heartbeat.rs` | parameters, optimistic widgets, prompts | audio callback, UI events |
| update files | `deviceout-update/src/*` | `state.json`, `ui.json`, pending installer, outbox | load, save, claim, queue |
| updater | `deviceout-updater/src/*` | the same files, from other processes; a job with the setup | check, apply, ping, send outbox |
| feedback server | `tools/feedback-ingest/src/*` | connections, tickets, hits, ping logs, index, daily rows | serve, post, ping, handle, delete, roll up, restart |
| translations | `deviceout-i18n` | `lang.txt`, one byte per process | `current`, `set_preference` |
| tools | `xtask`, `packaging` | bundles, `dist`, the release server | `install`, `uninstall`, `package`, upload |

**How the parts interact.** The host's audio thread pushes each block into the
ring of its instance. The engine thread of the device pulls from the rings of all
instances that chose the device, mixes, resamples by the drift controller's ratio
and writes to the sink, which blocks it at the device's pace. Instances join and
leave through the `SourceBus`, a mutex the engine only *tries*. Controllers share
a `Device` through a hub of weak references; each `Device` has a wiring lock that
is held while its engine is stopped, rewired and started again. The editor reads
`EngineMetrics` (atomics, and one mutex for the error) at any moment, and starts
a detached thread for every choice the user makes. The updater is a process of
its own that shares files with every running plugin and no memory. The server
shares files between its own threads and with what it was before a restart.

**What is hard.** Three threads meet on every ring and bus without waiting for one
another; a measure is used after it was taken; devices vanish in any call; a
reader sees two stores one after the other; restarts rewire members whose old
orders are still queued; the detached threads of the editor overlap with each
other and with its frames; windows are closed before they exist; the updater and
the server may be killed between any two file operations, and most of those files
are written by several.

**What makes each part correct.**

- *Ring*: a FIFO of whole frames; nothing unread is overwritten; counters add up.
- *Mixer*: each order takes effect once; no track with audio is left out, none is
  dropped for a stutter; the ledger counts the bridge and not the sum of tracks.
- *Engine*: start and stop return; a device that comes back is played to again;
  at every instant the metrics make sense together, and the log tells what was measured.
- *Sink*: a write puts each frame into the device once and in order, or reports a lost
  device; it always ends, and never asks for more room than there is.
- *Drift control*: bounded correction, no wind-up, and the level held at its target.
- *Controller*: each instance plays exactly where it says, whatever the others do;
  the last one out turns the engine off; no deadlock; the settings chosen are the
  settings run.
- *Editor*: a choice is not undone by a reading of the old engine; an answer is one to
  this click; prompts leave nothing behind and can be closed.
- *Update files, updater*: a known newer version becomes ready in the end; no
  interleaving or crash leaves a manifest without its installer, loses a message,
  sends a second ping in one interval or one after the user's refusal.
- *Server*: limits hold from one start to the next, answered tickets stay, a ping is counted once; a restart
  neither loses nor repeats what was recorded.

`PROJECT.json` lists every component with what is and is not modelled of it, the
hazards at their lines, and, definition by definition, the lines each one stands
for.

## 2. The modules

| module | models | abstract side |
|---|---|---|
| `Ring` | `RingProducer`, `RingConsumer`, `BridgeStats` | `FrameFifo`, a bounded queue of whole frames |
| `Mixer` | `SourceBus`, `Mixer` | rings as fills and counters, which `Ring` justifies |
| `Engine` | `EngineHandle`, `run`, `Worker::run`, `EngineMetrics` | devices as plugged or not, errors as recoverable or not |
| `Sink` | `WasapiSink`: open, prefill, write; sample formats; error classes | the device as an actor: it plays, sticks or goes |
| `Drift` | `DriftController`, the ratio, `target_level`, `SettleWatch` | fixed point, one step per period |
| `Gauges` | the fill gauge, `Trace` | a period as two stores, a look as two swaps |
| `EngineCtl` | `EngineController`, `Device`, `Wiring`, the hub | engines as running or not, mixers as the set of sources they hear |
| `Tuning` | `request_*`, `retune`, `raise_floor`, `reshape`, the editor's rows for them | one device; who is on it is `EngineCtl`'s |
| `Prompt`, `Layout` | `win_prompt.rs`: threads, class, windows; geometry | Windows' answers; sizes and densities |
| `Combo` | `number_combo`, the device buffer's steps, menu placement | movements of the pointer |
| `About` | the About tab: check, install, report | the updater by the files it writes |
| `Lang` | `deviceout-i18n`'s preference and current language | locales as tags |
| `Updater` | `check::run`, `apply_pending`, the mutex, `xtask` publishing | `PendingDir`, what may happen to the pending directory |
| `PendingView` | the plugin's `pending_ready` and its cache | the directory changes as `PendingDir` says |
| `Job` | `run_tree`, its job object and command line | what Windows does to a job's members |
| `UiFile` | `with_locked`, `update_ui_json`, `should_ping`, heartbeat, `ping.rs` | an edit as empty, torn or whole |
| `Outbox` | the feedback window's queue, `send_all`, `move_item` | the server as what it answers, its tickets counted |
| `Http` | `serve`, `handle_connection`, `read_request`, `parse_head` | requests as what the reader decides by |
| `Limits` | `over_limit`, `prune`, the gates of post, ping and admin, a restart | one list of times per map and sender |
| `Tickets` | `handle_post`, `forward`, `set_handled`, delete | a file and its temporary one per number |
| `Pings` | `store_ping`, `Index`, `rollup`, `maintain`, start and restart | a log as the sequence of its writes |
| `Stats` | `compute_stats`, `trend`, `top_n`, the calendar of `util.rs` | time in ticks, an hour of two |
| `Install`, `Release` | `xtask install`, `uninstall`, `package`, upload | files by what they are and the build they are of |
| `Audio_proofs` (ring, drift, sink, gauges), `Mixer_proofs`, `Engine_proofs`, `EngineCtl_proofs` (with tuning), `Updater_proofs`, `Desktop_proofs` (outbox, view, `ui.json`, about), `MCDesktop_proofs` (prompt, layout, combo, lang, job, install, release, and the parts together), `Server_proofs` (limits, tickets, pings) | | theorems, section 5 |
| `MCAudio`, `MCEngine`, `MCEngineCtl`, `MCUpdater`, `MCDelivery`, `MCLoops`, `MCDesktop`, `MCServer` | | instances for TLC, section 3 |

The modules stack: what one proves or checks of a part is what the next takes that
part to be. `Ring` implements `FrameFifo` (checked and proved), so `Mixer` may treat a ring as a count of
frames; `Mixer` reports the `limit` a pull found, which `Drift` takes from its own
level; `Sink`'s write ends, so a `Write` of `Engine` may be a step, and its error
classes are what `Engine`'s `Fails` answers with; `Mixer` applies orders once and in
order, so `EngineCtl` may treat a mixer as a set; `Engine`'s `start` and `stop` return,
so `EngineCtl` and `Tuning` may take them as steps; `Updater` implements `PendingDir`, so
`PendingView` may take the directory to change in no other way; `Job`'s `run_tree` ends
and tells what came of the setup, so `run_inno` is a step of `Updater`; `Http` calls a
handler once per request, which is where `Limits`, `Tickets` and `Pings` begin.

Definitions marked "a slip" are never part of a specification: each is a
plausible mistake in the definition after it, kept so that one can see every
property fail for it (`PROJECT.json`, `mutants`).

### Ring

`push` is four steps: `PushMeasure` (read the free slots, round down to whole
frames), `PushFill` (one sample), `PushCommit` (publish the index), `PushRecord`.
`pull` is the same on its side, `discard` two steps. The other thread may run
between any two. A sample is the number of its frame and its channel, so that a swap
of channels, a loss or a repetition shows. Indices run over twice the capacity,
as in rtrb, and go around. `FrameFifo` states the promise: a push appends its first
frames at one instant, a pull removes the oldest at one instant and returns them.

### Mixer

`JoinStart`/`LeaveStart`, `Lock`, `Post` are the plugin side; `SyncBegin` tries the
lock (and goes on without it), `Drain...` are one order each under the lock, and
`PullStart`, `Count`, `Skip` or `Mix`, `Finish` are one `pull`. A source is visited
in two steps because its counters and its ring are read at different moments. A
push, too, is two steps: in the ring first, counted after. `Trim` and `Reprime` are
priming's end and a lost device. `silent` is history: it counts pulls since a push
was last counted, independently of the `quiet` the code keeps.

### Engine

`pc` follows `run` and `Worker::run`. `set_running`, `set_reconnecting` and
`set_failed` are two stores each, with the reader in between. `Unplug` and `Plug`
are the device's own; a call on a missing device answers with a recoverable fault
and one on a present device may still fail in any way, boundedly often. `losses`
is history. `sink` is the audio client; it is dropped where Rust drops the `Worker`.

### Sink, Drift, Gauges

`Sink` opens a device (exclusive when wanted and possible, shared otherwise), fills its
queue with silence, starts it and then writes: look at the padding, wait for the
event or its timeout, put what there is room for. Frames are numbered, so that one
played twice, lost or out of order shows. The device plays a period at any moment,
also between the look and the put; it may stick or go.

`Drift` is one turn of `Worker::run` per step: the level moves by the clocks' difference
and the correction, an underrun or overrun stops it at an end of the ring, and
the controller answers. `Pulled("silent")` is a host that gives nothing for a period
and `Pulled("ahead")` one that plays on while the device is late. Levels and
corrections are integers in one unit, the integral is kept times `ki`, divisions round
down. What fixed point cannot say, rounding of `f64`, is not a matter of these
properties: they leave room of a unit.

`Gauges` has the period's two stores and the trace's two swaps as four steps. `owed` is
history: the fills a line yet to be written has to answer for.

### EngineCtl, Tuning

In `EngineCtl` one step is what lies between any two locks. `Take` .. `Released` are
`leave` and `Device::release`; `adopt`, `admit` and `Want`, `Hold` are `join`; `StopEngine`,
`WireSource`, `WireProducer`, `StartEngine` are `restart` and `wire`; `retune` keeps
a reference to the device while `reshape` runs. References (`Arc`) are who holds a
device in `device`, `old` or `held`; the hub's `Weak` is `Alive`. `Overlap` names the
calls a run allows to be under way together on one instance.

`Tuning` has one device and the numbers `EngineCtl` leaves out. A request stores
the choice at once and starts a job; the job takes the wiring lock and restarts the
engine with what it then finds; a join raises the floor under the lock (`joins`, `leaves`,
`restart_for` and `start_retune` say what each does to the engine). Frames of the
editor read the settings and a snapshot of the engine's metrics in between.
`untried` is history: some frame told of a refusal no engine had given. `late` marks the one
known gap of the target's floor: a request that was clamped to the old floor and
stored after the join had raised it (`engine_ctl.rs:284`, `:152`). Nothing harmful comes of it:
`EngineRunsTheSettings` shows the engine runs with that value like with any other.

### Prompt, Layout, Combo, About, Lang

`Prompt` is one thread per prompt: register the class, make the window, its brushes and
fonts, pump messages, take them down again; each call may be refused by Windows. Editors of
one process share the class, and unregistering fails while another has a window. An
editor polls its slot, and when dropped posts a close to the window *if there is one
yet* and joins. `early` marks a drop before that. `Layout` has the arithmetic of the
fields' places at several densities and sizes, `Combo` the number field frame by frame with
the engine changing value and floor under it, `About` the frame's copy of
`state.json` and the pending directory, up to a second old, against checks of this and
other processes; its clock goes on by half seconds and is not set back. `Lang` interleaves
readers of the byte with the one thread that sets it and with other processes that write `lang.txt`.

### Updater, PendingDir, PendingView, Job

A process of `Updater` runs `main` once: its `pc` follows `check::run` (`check_begin`,
`FetchFeed`, `FetchSignature`, `Download`, `CheckHash`, `ReplaceSetup`,
`write_manifest`, `FinishCheck`, with `NoteError` as main's handler) or
`apply_pending` (`apply_begin`, `wait_until_unlocked`, `run_inno`, `remove_dir_all`,
`NoteInstall`), and its record holds what the code has in local variables: the
`State` it loaded, the etag it asks with, the version it was told of or promised,
the version installed when it looked. Any step may be its last (`Crash`); what is
on disk stays, an installer under way has done a part of its work or none, and the
mutex is abandoned when others have it open. The process asked to apply becomes the
copy it starts: `copied` until the copy has opened the mutex. A version is a number, a
file is the version it is of, and `Corrupt` is content with the hash of none. A
signature is known by the version of the feed it signs, so a feed and a signature
read on two sides of a publication do not match.

Simplifications: one bundle; whether a host has the dll is left open at each look;
a write that replaces a file whole succeeds (its temporary name belongs to the holder
of the mutex); `last_check`, `last_attempt` and the windows are the one flag `due`;
what is only shown of `state.json` is left out; an *old* setup is run by hand only while
no updater is at work (a newer one at any time), since no code could know better.

`PendingDir` has the four things that may happen to the directory: an installer
arrives whole, a manifest is written for the installer that is there, and either goes.
`PendingView` reads it in the five steps of `pending_ready`, with one stamp per file
for its length and time; a file written anew gets a stamp nobody remembers.

`Job` is `run_tree`: create the setup suspended, put it into the job, let it run, wait
with a timeout; the setup may start a child, which may start nothing outside the job; the
updater may die at any step and take its handle of the job with it. The command line
is built character by character of four kinds, and read back by Windows' rules.

### UiFile, Outbox

In `UiFile` an actor is a plug-in instance with its updater, or an editor. An edit takes the
lock, reads, empties, writes and unlocks; a crash or a failed write may come at any point of
it. An instance looks whether pings are enabled before anything else, and its updater looks again;
`should_ping` is asked once, under the lock. Readers do not take the lock, and
on Windows a locked file cannot be read: they try again and then go on blind. `claims`, `success` and
`hasty` are history: when pings were claimed, when one was last answered with the least rest due after
it, and whether a claim was made within that rest.

In `Outbox` a message is a file in the outbox, in `sent` or in `failed`; `outbox` has the attempts
written in it. An editor counts and writes in two steps (`queue_feedback`, `save_item`)
and then watches the other two directories (`poll_send`) or gives up after its 25 s. A
sender, at most one, is `send_all`: `StartSender` lists, `Take` skips what is within its
back-off, `Post` is the server's answer, `Save` and `RemoveEntry` are the halves of
`move_item` (or `save_item` alone). `Crash` ends it anywhere; `SaveFails` and a failed
`RemoveEntry` are the errors the code passes over. A ticket the server makes without its
reply being read is `lost`. `tickets`, `posts` and `refused` are the server's side, `shown` what the
user was told, `accepted` history.

### Http, Limits, Tickets, Pings, Stats

One acceptor and two workers. `Http` reads a request in pieces the network chooses; a client
may stall (the socket's timeout then ends the read), a handler may panic and end its worker.
`Limits` has the four maps of hits under their one lock: posts look and enter together, the
admin's password looks and enters apart; the maps are in memory only, so a restart begins with none. `Tickets` has every file operation as a step: `create_new`
of the number's file, the write of the temporary file and the rename, `set_handled`'s read and
replace, the delete; each may fail and a crash may come between any two. `Pings` writes a line
in two writes, each of which may fail, the first after a part of the line; it enters the ping into the index under the lock, saves the snapshot now and then,
sums an ended day up in one row and throws old logs away; a restart loads the snapshot
and replays the logs line by line (`ReplayLine`), and a crash may come at any of them. `LAG` bounds how long a ping or a maintenance takes. `Stats` computes
the dashboard from a log and an index, in every time zone, its log being whole and in step with the index:
lines lost or mixed, and the moment between the line and the index, are `Pings`' matter; `NextDay` walks the calendar from
1970 to 2100, one day per state.

### Install, Release

Every removal of an entry and copy of a file is a step that may fail or be the last. A host
loads a bundle's binary at any moment, and then Windows refuses to delete or write it. `Release`
names each file by the source it was built from, so that one can tell a feed whose hash is that
of another setup, or a plug-in and an updater of two sources. A file put on the server may have arrived
although its answer is lost. What `package.rs` does when Inno Setup ends well and no setup lies where it
should is modelled for a directory without one of this version; with an older one there it would publish
that, but the script's `OutputDir` and `OutputBaseFilename` (`deviceout.iss`) name that very file.

## 3. What is checked

A run of several parts has a variable `part` that is chosen in the initial state and never
changes; the other parts stand still in one initial state. So a run is its parts side by
side, not multiplied, and each property is about the part it names.

| run | parts and instances | shows |
|---|---|---|
| `audio` | ring: stereo, 2 frames, blocks and pulls of 2, 3, 6 samples, discards of 1 and 3 frames, 4 pushes. Mixer: 2 tracks, ring of 3, target 2, blocks of 2. Sink: a shared and an exclusive device, writes larger than either's room. Drift: 3 clock differences, 3 seeds, 3 levels, one disturbed period. Gauges: 3 fills, 3 periods | `BridgeSound`, `ImplementsFifo`; `LedgerCountsOnce`, `OrdersTakeEffectOnce`, `NeverStranded`, `OnlyTheQuietAreDropped`; `SinkSound`; `DriftHeld`; `RangesTell` |
| `engine` | engine: 2 unplugs, 2 glitches, 2 recoverable faults and a fatal one. Sink and drift as above, smaller | `FaultVisible`, `ReconnectsCountLosses`, `OneClientAtATime`; under fairness `ComesBack`, `LoopsSettle` |
| `engine_ctl` | wiring: 2 instances (one with larger blocks), 2 devices, 2 threads, 4 calls. Tuning: 2 instances, targets below and above both floors, 2 requests | `DevicesAgree`, `PlaysWhereSelected`, `LocksDoNotCross`, `SettingsApply`; no deadlock |
| `updater` | 2 processes, 3 versions, 2 kills | `InstallsWhatItVerified`, `CheckSettles`, `PendingKept`, and `DirSpec`: every behaviour is one of `PendingDir` |
| `delivery` | updater: 2 processes, 2 versions, 1 kill. Outbox: 1 editor, 2 messages, 1 fault | `Offered`, `Resolved` under fairness |
| `loops` | mixer: 1 track, one overrun, one lost device; and 2 tracks, one of another channel count. Prompt: 2 editors, 2 prompts. Job: a setup that forks for ever, 2 ticks. Http: 3 connections, 2 workers, a queue of 1, 2 panics | `TracksAreServed`, `WaitsEnd`, `HttpServes` under fairness |
| `desktop` | outbox: 2 editors, 2 messages, caps of 1, 2 attempts, 2 faults, 1 lost reply. View: 2 versions, 4 stamps. ui.json: 2 instances, an editor, one crash or failed write. Prompt, layout, about, lang, combo, job, install, release | `FeedbackSound`; `CacheHonest`; `SettingsFileHolds`; `EditorSound`; `AnswersTheClick`; `InstallSound`; `ArgumentsReach` |
| `server` | limits, tickets, pings, calendar, stats: 2 threads, 1 sender, 2 numbers, 2 devices, one failure or crash each | `RatesHold`, `TicketsSound`, `TicketsAreNotReused`, `CountedOnce`, `SummedBeforePruned`, `FiguresAreRight` |
| `engine_settled` | as `engine` | violated: `NeverSettledEarly` |
| `engine_ctl_overlap` | as `engine_ctl`, 3 calls, switches may overlap | violated: `AudioReachesTheDevice` |
| `tuning_exclusive` | as `engine_ctl`, tuning alone | violated: `FellBackWasTried` |
| `ping_log` | as `server`, pings alone | violated: `LogRecovers` |

Several properties are conjunctions of the named invariants of their modules: `BridgeSound`
of `WindowsApart`, `NoChannelSlip` and `Conservation`; `SinkSound` of `QueueBounded`, `InOrder`,
`LostOnlyWhenGone`, `ModeAsAsked` and `SamplesFit`; `DriftHeld` of `Authority`, `LimitsOverrule`,
`NotAtOnce` and `LevelFits`; `DevicesAgree` of `WiringAgrees`
and `NothingLeftBehind`; `SettingsApply` of `TuningTypeOK`, `EngineRunsTheSettings` and `FloorHolds`;
`FeedbackSound` of `NothingLost`, `VerdictsAreTrue` and `RepeatsBounded`; `SettingsFileHolds` of `ClaimedOnce`, `RestsAfterSuccess`, `OptOutHolds`,
`OneIdentity` and `WholeWhenFree`; `EditorSound` of `NothingLeaks`, `ReportsOnce`, `ShownUnlessCrossed`,
`LayoutFits`, `OpensOnScreen`, `FollowsThePointer`, `AsksWithinBounds`, `StepsComeBack`, `MenuFits`,
`ShownAsChosen`, `PreferencesComeBack` and `ReportsTruly`; `InstallSound` of `TreeEnds`, `OutcomeTold`,
`DoneAsReported`, `OpenBundlesAreLeft`, `UploadedWhole` and `FeedNamesItsSetup`;
`TicketsSound` of `TicketsTypeOK`, `TicketsKept`, `NoGhosts` and `DirectoryBounded`; `CountedOnce` of
`PingsTypeOK`, `OneRowPerDay`, `NeverCountedTwice` and `OnlyMixedLinesAreLost`; `FiguresAreRight` of `CalendarHolds`, `TrendIsComplete` and `FiguresAddUp`; `ComesBack` of `OwnerReturns` and `Recovers`;
`LoopsSettle` of the sink's `WriteEnds` and the drift loop's `Converges`.

### What the properties had to concede

Where a property has an exception, the exception is what the code really does, found by a run
and kept in the property so that it is seen:

- `ShownUnlessCrossed`, `early` (`win_prompt.rs`): a prompt is not shown when another editor's
  unregisters the class between its own registration and its window; and an editor dropped before its
  prompt's window exists closes nothing and waits for the user.
- `AnswersTheClick` (`editor/mod.rs:862`): the wait may end on an earlier check of the same second, or on
  a copy that was behind when the user clicked.
- `AsksWithinBounds` (`widgets.rs:395`): a floor above the ceiling (a host block of about a second)
  makes `clamp` panic under a drag.
- `ShownAsChosen` (`deviceout-i18n/src/lib.rs:163`): a reader that resolved the old preference may
  store it after the new one.
- `ClaimedOnce` (`telemetry.rs:32`): the clock is read before the lock, so the second of two claims may
  carry the earlier time; a write that was cut short loses the claim, the opt-out and the id alike.
- `RestsAfterSuccess` (`telemetry.rs:49`): the interval the server asks for is kept to a tenth, and
  the answer recorded last counts, though another's clock be later.
- `TreeEnds` (`job.rs:121`): a setup that cannot be put into its job stays, suspended for ever.
- `DoneAsReported` (`install.rs:211`): an install whose source is its target deletes it and reports success.
- `FeedNamesItsSetup` (`publish.rs`): packaging the published version again replaces its setup before its feed.
- `TicketsKept`, part of `TicketsSound` (`store.rs:171`): two requests that write one ticket at a time share
  a temporary file.
- `RatesHold` (`admin.rs:71`, `main.rs:74`): each thread may pass one wrong password more; and all of it is about
  one process. The maps begin empty with each, so a window that spans a restart, the day of an id above
  all, may see as much again for each one.
- `OnlyMixedLinesAreLost`, part of `CountedOnce` (`store.rs:234`): two threads' lines may run together, and then neither is read. A line
  that a crash or a failing write left as a beginning or without its end takes the next one with it, which
  may be one that was answered.
- `SummedBeforePruned` (`main.rs:58`): as long as nothing fails; a restart counts as a failure, since a starting
  server prunes before it rolls up.
- `FloorHolds` (`engine_ctl.rs:152`): see *Tuning* above.
- `DirectoryBounded`, `RepeatsBounded`: each thread, or crash, may add one.

### The bounds, and why they are enough

- *Ring*: blocks shorter than, equal to and longer than what is free all occur at
  every fill level, with whole and broken frames; four pushes of up to two frames
  take an index all the way around its range of eight, so full, empty, wrapped
  storage and wrapped index all meet. `MaxUnderruns` only bounds a counter.
- *Mixer*: `Target` is 2 pulls and the ring 3, so below target, at target, full and
  overrun all occur; `Quiet` is 2, the least for which "quiet" and "short once"
  differ. Two tracks suffice for one to be the busiest and lose that place; with
  more the proofs take over. `MaxPushed`, `MaxOverruns` and `MaxLosses` bound counters.
- *Engine*: two losses make "the second reconnect" differ from the first; a glitch
  in opening, starting, writing and stopping each occurs. `attempt` is kept up to
  `AttemptCap`, from where the back-off is constant.
- *Sink*: writes of 2 and 3 frames against rooms of 1, 2, 4 and 5: every write is split
  or not, and waits or not; `MaxFrames` ends the run after several of them.
- *Drift*: the level is bounded by the ring and the controller is deterministic, so each
  initial state is a path, branching only at the disturbed periods; `Skews` reach three
  quarters of the authority, `Seeds` go past it. `period` is counted up to the settling
  deadline, from where it is not looked at.
- *Gauges*: three periods around or in one look, then a line after.
- *EngineCtl*: two instances share a device or not, join and leave it in both
  orders, and restart each other (the larger blocks); two threads interleave any two
  calls. Three calls bring both instances up and switch one of them; the fourth lets
  a retune or a leave run across that. *Tuning*: two requests race each other and a join.
- *Updater*: two processes race for the mutex, wait and abandon it; three versions let a
  check find a newer feed than the one whose installer is pending, which is newer
  than the one installed. Two kills hit a check and the apply or check after it.
- *PendingView*: a stamp is only compared with those remembered, so four are as good as
  any number; two versions are the one whose stamps are remembered and the one that replaced it.
- *UiFile*: two instances want the ping at once and an editor refuses it; the retry gap is 1, the default
  interval 2, the least 1, and the server asks for more than the most, so it is clamped and then spread; `MaxTime` of 2
  ends the retry gap within the interval and after it; one crash or failed write.
- *Outbox*: two editors pass a cap of one together, and two messages make a sender list
  one while the other arrives; caps of one make every directory overflow. Two attempts
  are a retry and the last; a second fault hits the message that met the first.
- *Prompt*: two editors, three prompts: one opens again while the other's closes. *About*:
  four half seconds hold two checks of one second and one of the next. *Combo*:
  12 pixels are six steps, twice the ceiling's distance. *Layout*, *Lang*'s round trips, *Job*'s command
  lines, *Combo*'s steps and *Drift*'s levels are pure functions over the inputs named in the
  MC modules.
- *Http*: one odd request of each kind and two plain ones for two workers that may both
  panic and a queue of one: served, queued, turned away and left behind all occur.
- *Tickets*: two numbers and two messages, a cap of two files, so that a restart can draw the number
  of a ticket that is there; one failure or one crash. Two tickets cannot pass the cap and one a thread:
  for `DirectoryBounded` the proof has to do. *Pings*: two pings of two
  devices over four days, a replay of one day, logs kept two: within the snapshot's
  second, across midnight, across a restart. *Stats*: hours of two ticks, offsets on both sides,
  three pings; the calendar has every day until 2100.
- *Install*, *Release*: two builds and two commands (three for releases): every command finds what each
  failure or crash of the one before it left.

### Fairness

- *Mixer*: a plugin thread gets the inbox lock in the end (`SF Lock`) since the engine
  holds it for an instant per period, and posts (`WF Post`). The engine thread goes
  on with what it does (`WF Drain`, `WF Visit`), pulls again and again and ends
  priming, which has a deadline (`SF SyncBegin(TRUE)`, `SF Trim`: strong, because a
  lost device disables them from time to time). Hosts need not push or leave.
- *Engine*: the thread is scheduled and its calls on the device return (they have
  timeouts); the owner's two waits end when they can. Nobody has to call `stop`, no
  device has to come back: `Recovers` says what follows *if* one does and stays.
- *Sink*: the writer is scheduled, and its wait times out (`WF Step`); a device that is well
  plays (`WF DevicePlays`). It may stick or go at any time, and the write ends then too.
- *Drift*: period follows period (`WF Play`); the disturbed ones are bounded, since a host that is
  silent for ever leaves no level to hold.
- *EngineCtl, Tuning*: none. Calls are finite sequences of steps and a thread holds no lock
  while it waits for one (`LocksDoNotCross`), so without a deadlock every call returns.
- *Updater*: a running process goes on (`WF Step`), the network answers now and then
  (`SF` of the three requests), the publisher ends what it began, windows pass, and
  among the hosts that start when they have passed some check gets the mutex
  (`SF StartCheck`). That last one needs moments without a process
  (`[]<> all off`): without it a user pressing the buttons for ever could keep
  `try_acquire` from ever succeeding. A publisher that dies between the signature and
  the feed makes every check fail until the next release; the fairness of `Publish`
  is the assumption that it does not.
- *Outbox*: a sender that runs goes on (its request has a timeout), back-offs pass, and a
  plugin is loaded again and finds the outbox not empty (`WF StartSender`,
  `kick_updater`): nothing in a process that stays open retries a message. Nothing is
  asked of the server, nor of the editors.
- *Prompt*: the prompt's thread and the editor's join go on; the user need do nothing.
  *Job*: `run_tree` goes on and time passes; the setup need not end. *Http*: the acceptor's
  turning away, each worker's `recv` and its handling of a connection go on; a read
  that gets nothing ends by its timeout. Clients need do nothing, and workers may die.

## 4. Where the code and its promises part

**A settled drift before it is known** (`engine_settled`). `settled` is only written at
the end of a period (`worker.rs:622`). After a reconnect `set_running` (`worker.rs:580`)
puts the state back to `Running` while the flag of the worker before is still up, so
until the first period ends the editor shows the new worker's opening estimate as a
settled one. The window is a period long; `SettledIsEarned`, proved, says it is no longer than
that. Clearing the flag in `set_running` before the state is stored would close it.

**Two switches at once** (`engine_ctl_overlap`). `EngineController::join` is not atomic
and the editor starts a thread per choice. When two overlap, both leave before
either joins; both are admitted; the instance stays a member of two devices, and
it can come to rest showing one while its audio goes to the other. The run
`engine_ctl` shows that everything holds when switches of one instance take turns,
so a lock around `join` and `leave` per controller would do.

**A refusal nobody gave** (`tuning_exclusive`). The row for exclusive mode compares the
choice with the mode of the running engine. While the retune is under way that engine is still the
old one, in shared mode, so the next frame clears the choice and tells "Exclusive mode unavailable".
Comparing only once the engine was started with the choice (its config, not its mode) would do.

**A ping of the snapshot's second** (`ping_log`). The replay after a restart skips lines that are not
newer than the newest ping in the snapshot, to the second. One of that second logged after the
snapshot is lost for the index. Replaying `at >= cutoff` would count others twice; a line count in the
snapshot would do.

## 5. What is proved

TLAPS proves, for every value of the constants within the modules' assumptions:

| theorem | for | says |
|---|---|---|
| `Engine_proofs!TypeCorrect` | `TypeOK` | types |
| `Engine_proofs!FaultIsVisible` | `FaultVisible` | no reader finds a failure without its reason |
| `Engine_proofs!ReconnectsAreCounted` | `ReconnectsCountLosses` | one reconnect per loss |
| `Engine_proofs!ClientsDoNotMeet` | `OneClientAtATime` | the lost client is closed before the next is opened |
| `Engine_proofs!SettledInTime` | `SettledIsEarned` | settled means measured, after a period |
| `Engine_proofs!EndsStayEnds` | `EndsAreFinal` | nothing is written after the end |
| `Mixer_proofs!TypeCorrect` | `TypeOK` | types |
| `Mixer_proofs!LedgerIsOfOneTrack` | `LedgerCountsOnce` | the ledger is bounded by a single track |
| `Mixer_proofs!OrdersAreAppliedOnce` | `OrdersTakeEffectOnce` | no order lost or repeated |
| `Mixer_proofs!NobodyIsStranded` | `NeverStranded` | no track with audio waits outside for ever |
| `Updater_proofs!Typing` | `TypeOK` | types |
| `Updater_proofs!Unswapped` | `InstallsWhatItVerified` | what runs is what was verified |
| `Updater_proofs!Refines` | `DirSpec` | the updater implements `PendingDir` |
| `Updater_proofs!Kept` | `PendingKept` | no failure loses a verified installer |
| `Updater_proofs!InstallErrorKept` | `InstallErrorTracks` | no check overwrites the outcome of an install |
| `Updater_proofs!Settles` | `CheckSettles` | no etag hides an installer that is missing |
| `Desktop_proofs!CacheIsHonest` | `CacheHonest` | no verdict is used for other files |
| `Desktop_proofs!ViewTyped` | `ViewTypeOK` | types |
| `Desktop_proofs!FeedbackIsSound` | `FeedbackSound` | a message taken comes to an end, verdicts are true and repeats bounded |
| `Desktop_proofs!OutboxTyped` | `TypeOK` | types |
| `Desktop_proofs!SettingsFileIsRight` | `SettingsFileHolds` | one claim in a retry gap and none in the rest after an answered ping, no ping after a refusal, one id, a whole file |
| `Desktop_proofs!ClicksAreAnswered` | `AnswersTheClick` | an answer is that of a check begun since the click |
| `Desktop_proofs!NotesAreTrue` | `ReportsTruly` | a note says sent or failed only of a report that was |
| `MCDesktop_proofs!PartsRun` | | the desktop side is each of its parts: what is proved of a part holds of the whole |
| `MCDesktop_proofs!EditorIsSound` | `EditorSound` | prompts, their layout, number fields, the language and the About tab, as below |
| `MCDesktop_proofs!InstallIsSound` | `InstallSound` | the setup's job, installs and releases, as below |
| `MCDesktop_proofs!PromptsAreSound` | parts of `EditorSound` | prompts leave nothing behind, reports are queued once or told to have failed |
| `MCDesktop_proofs!PromptFits` | parts of `EditorSound` | controls fit and keep apart at every size and density; the window opens on the screen |
| `MCDesktop_proofs!NumberFieldIsSound` | parts of `EditorSound` | a drag follows the pointer, and asks within bounds |
| `MCDesktop_proofs!LanguageIsTheChosen` | part of `EditorSound` | byte and file are the choice |
| `MCDesktop_proofs!SetupsTreeEnds` | parts of `InstallSound` | nothing of the setup runs on; its outcome is told as it was |
| `MCDesktop_proofs!InstallsAreWhole` | parts of `InstallSound` | a bundle is whole or gone as reported, one in use untouched |
| `MCDesktop_proofs!ReleasesAreWhole` | parts of `InstallSound` | a feed names the setup beside it |
| `Audio_proofs!RingTypes` | `RingTypeOK` | no memory is read that no push has written |
| `Audio_proofs!BridgeIsSound` | `BridgeSound` | the two sides' windows stay apart, channels never slip, counters add up |
| `Audio_proofs!RingIsFrameFifo` | `ImplementsFifo` | the ring implements the queue |
| `Audio_proofs!DriftIsHeld` | `DriftHeld` | bounded correction, limits overrule, nothing settles at once, levels fit |
| `Audio_proofs!EveryLevelFits` | `LevelFits` | every target, block and rate has a level that fits its ring |
| `Audio_proofs!LinesTellTheRange` | `RangesTell` | each fill lies within the range of a line of the log |
| `Audio_proofs!SinkIsSound` | `SinkSound` | each frame is played once and in order, the queue keeps its bound |
| `EngineCtl_proofs!TypesKept` | `TypeOK` | types |
| `EngineCtl_proofs!WiringLocksDoNotCross` | `LocksDoNotCross` | no circle of wiring locks, whichever calls overlap |
| `EngineCtl_proofs!DevicesStayWired` | `DevicesAgree` | members, engine and rings of a device agree; nothing is left behind |
| `EngineCtl_proofs!TracksPlayWhereSelected` | `PlaysWhereSelected` | a track plays into its device's engine and no other |
| `EngineCtl_proofs!SettingsAreRun` | `SettingsApply` | at rest the engine runs with the device's settings |
| `Mixer_proofs!OnlyTheQuietAreOut` | `OnlyTheQuietAreDropped` | nobody is dropped for a stutter |
| `Server_proofs!RatesAreHeld` | `RatesHold` | from one start to the next no window of time, wherever it begins, sees more than the limit |
| `Server_proofs!TicketsAreSound` | `TicketsSound` | an answered ticket stays; no ghosts; the directory keeps its cap |
| `Server_proofs!NumbersAreNotReused` | `TicketsAreNotReused` | a number is given again only after its ticket was deleted |
| `Server_proofs!PingsCountOnce` | `CountedOnce` | no ping counts twice, lines are lost only to others' and to failed or cut writes, a day has one row |
| `Server_proofs!LogsAreSummedFirst` | `SummedBeforePruned` | as long as nothing fails (a restart counts), no log goes before its day has its row |

The types of `Engine`, `Mixer`, `Updater`, `PendingView` and `Outbox`, and `SettledIsEarned`, `EndsAreFinal`
and `InstallErrorTracks`, are in no run: the theorems cover them. Other types are a part of the property
with them.

**Assumptions.** TLC evaluates each on a run of its module. `EngineAssumption`: some recoverable fault
exists, faults are disjoint from the absent one, a worker needs at least one period to settle.
`MixerAssumption`: a pull asks for at most a target (`target_level` never goes below a period), a ring
holds a target (`ring_capacity` is a multiple of it), `QUIET_S` is at least two pulls. `RingAssumption`: what
`ring()` asserts. `DriftAssumption`: levels, clocks and seeds are integers, the gains and the filter's lag
positive, deadlines natural numbers, and the powers of two the module lists reach the largest ring asked for.
`SinkAssumption`, `GaugesAssumption`, `TuningAssumption`: sizes and
bounds are natural numbers, a fill is less than `u32::MAX`, and the slider of the device buffer has a least
and a largest step. `EngineCtlAssumption`: `None` is no instance, device or thread. `PendingDirAssumption`:
some version may be published. `UpdaterAssumption`: no process is called `None`. `OutboxAssumption`: messages
are finitely many, limits positive. `UiFileAssumption`: the editor is no instance, a file is read at least
once. `PromptAssumption`, `ReleaseAssumption`: the bounds are natural numbers. `LayoutAssumption`: densities
start at 96, as Windows' do, and the frame around a window (`Chrome`, 16 by 39 on Windows 10) takes no more than
100 by 60 of the 420 by 360 a user may shrink it to. `ComboAssumption`: bounds and values are natural numbers,
steps positive with a largest among them, and a period is longer than a millisecond. `InstallAssumption`:
there is a user's own folder. `LimitsAssumption`, `TicketsAssumption`: threads are finitely many and at least one, limits positive
(`config.rs` takes no zero). `PingsAssumption`: a day and the longest ping or maintenance together are no
longer than logs are kept, which is 30 days in `store.rs` (`PING_KEEP_SECS`), and the clock reaches the first
day's end; the days replayed are a natural number.

**Engine.** None of the invariants is inductive alone: what the reader may see depends
on where the thread stands. `IInv` conjoins `TypeOK` with five parts that say, for
each place the thread can stand at, who owns it (`OwnerInv`), what state and reason are
published (`ReportInv`), whether a client is open (`ClientInv`), how reconnects and
losses compare (`CountInv`: equal from opening to the next loss, one apart
in between) and what the settle watch may know (`SettleInv`). Each part is proved
preserved action by action; the properties follow, and `EndsAreFinal` from `ReportInv`
(once the state is an end, the thread is past its last write).

**Mixer.** `LedgerInv`: the peaks (`reported`, `busiest`) are each *reached* by some
track, field by field, and the ledger never exceeds `reported`. This needs that
counters only grow. `OrdersInv` adds to the property that the inbox holds no order twice
and that a track's `Leave` stands behind its `Join` (`InboxInv`); the steps that matter are
`Post` and the two drains. `StrandInv` says for every step inside a pull what
`NeverStranded` says between pulls: a source outside the mix whose ring has reached the
target has a push that is not counted, or counted too recently to be quiet. It
rests on a push being counted only after it is in the ring. `QuietInv`: as long as what a visit has seen
is what was pushed, `quiet` counts no more than `silent`, the pulls since the last push was counted.

**Updater.** `IInv` is `TypeOK`, `Exclusive` (a process past its waiting has the mutex, so
there is one), `DiskInv` (nothing on disk is newer than the feed; the etag that is
saved is that of the version that is saved as latest) and, for each process, `CheckInv` and
`ApplyInv`, which say what its local variables have to do with the disk at each step:
the version downloaded is at least the manifest's, `part` and then `setup` are that
version, the etag asked with is one whose version is installed or ready. Since others are
idle, the lemma `Alone` settles their parts at once, `StepOf`, `GoesOn`, `Failing` and
`Exits` reduce a step to its effect on the disk and on the process itself, and there is one
lemma for each step. `Refines` and `Kept` then look at the three steps that write to the
directory, `Settles` at the three that end a check well.

**PendingView.** The invariant ties each stamp the reader or the cache holds to the content
it was read with, as long as the file still has it.

**Ring.** `RingInv` adds to the four properties where each call stands: what it measured is whole
frames and within the free or the filled slots (`Bounds`), what the push has copied is its block, at the
slots past the newest sample (`CopiedIn`), and what the pull has copied are the oldest samples
(`CopiedOut`). Half of the module is arithmetic, for any number of slots: indices that wrap at twice the
capacity, no two positions of a window on one slot, whole frames that shift a sample's frame but not its
channel. For `FrameFifo` the queue is the unread samples. Only the three steps that publish an index
change it: `CommitAccepts` shows that a push appends its block's first frames, `CommitHands` that a pull
removes what it hands over, `CommitDrops` the same of a discard.

**EngineCtl.** `LocksKept` says where a thread stands inside a lock and of which device; `LockTypes`
that a thread which is about to lock has a device to lock. Nothing is assumed of `Overlap` for these: calls
that meet on one controller, which `engine_ctl_overlap` shows to go wrong, do not deadlock on the locks.
`WiringInv` needs more. `Membership`: the members of a device are the controllers that hold it, those a call
has yet to take out and those one has just let in. `DeviceInv`: whenever the lock is free and somebody holds
the device, it is `Settled` (engine on exactly if it has members, each heard once, by the source and the
ring it pushes into, and nobody else heard); and inside the lock how far the release (`BeingLeft`) or the
wiring (`BeingWired`) has come. What a mixer will hear is computed from its orders in their order (`Heard`),
and a new source has a number no order in the inbox has. All of it rests on `OneAtWork`, one call at a time
moves a controller, and that is what the hypothesis `"set_device" \notin Overlap` says of the code: the host
does not call `initialize` and `deactivate` of one instance side by side, and the editor's switch takes turns
with them. The code does not see to the second, which is the finding of `engine_ctl_overlap`; so these two
theorems say what a lock around a switch would give, and no more.

**Tuning.** `RunsOrWill`: the engine runs with the stored settings or some job that has stored its choice is
yet to restart it; `FloorTold`: a target below the floor is a late one.

**Outbox.** `SenderRight` ties the message in hand to its file (the count read plus one) and to the
answer it got; `WaitingCounted` bounds, for a message that waits, posts by the file's count and the
faults, and tickets by lost replies and faults; `NewWhileSaving` says that an id is saved once. A fault is
what makes a count in a file lag behind by one, a lost reply what leaves a ticket behind.

**Drift, Gauges, Sink.** `DriftInv` is the properties and the types. What needs an argument is one step of the
controller (`UpdateBounded`): a case split on the limit and on the sign of what is asked, from what
clamping does (`WithinBounds`). `EveryLevelFits` is arithmetic for all of `target_level` and `ring_capacity`.
`GaugesInv` says for each fill that was published where it is accounted for: in a cell, in the line
being written or in one that was (`Accounted`), and that a cell holds nothing else (`CellsFilled`).
`SinkInv` adds to the properties that a write is about the last frames handed over and that what was seen
of the queue can only have shrunk (`WriteRight`), and that nothing was handed over before the start
(`StartRight`). The queue is silence and then the frames after the last one played (`Sounding`), which
filling, putting and playing each keep.

**UiFile, About.** `UiInv`: until a write is cut short, the file has the last claim, the last answer recorded and
an interval of at least its rest, the user's last choice and the id of every ping (`FileRight`), who holds
the lock writes what its edit made of the file (`Placed`), and an updater that began after the refusal and will send has not been able to read it (`Heard`).
`AboutInv`: until a check of after the click has ended, neither the files nor the frame's copy look like an
answer, and an attempt that is new on the disk is that of a check begun since (`Awaited`).

**Prompt, Layout, Combo, Lang.** `PromptInv` says for each place a prompt's thread can be at whether it has a
window, an answer, brushes and fonts (`Orderly`); that a registered class has a thread that will unregister it,
and a thread whose class is gone was crossed (`ClassHeld`); and that each report sent is queued, told or still
owed by the thread or the answer it left (`Accounted`). What is hard is the end of a thread, which takes the
class from others about to make their window (`LeavingKeeps`). `RoomyFits` is arithmetic: at each density from 96
every measure is rounded by half a pixel at most, and the smallest size has room for their sum. `ComboInv` adds
to the properties that the number of a drag lies within its frame's bounds and that a field at rest has
nothing in hand. `LangInv` says that a setter under way is about to store what was chosen last. What the
preference file gives back (`PreferencesDo`) is a case split on the eleven languages.

**Job, Install, Release.** `JobInv`: from the moment the setup may run, all of its tree is in the job.
`InstallInv`: what a command has made of each scope so far (`InstallStage`, `UninstallStage`), and that a
bundle in use since the command began is as it was and not the one under way, since `is_locked` is asked
first (`HostsHold`). A host that comes later finds the bundle as it is then, which is why the property speaks
of those since the beginning. `ReleaseInv`: what has been built is of the source unless `--no-build` was given,
the feed written names the setup packed, the signature is the feed's, and each put has brought its own to
the server.

**The desktop side.** Its specification runs one part at a time. `DesktopSteps`: its step is a step of that
part and a stutter of the others. So its behaviours are behaviours of each part (`PartsRun`), and
`EditorIsSound` and `InstallIsSound` follow from the parts' theorems.

**Limits, Tickets, Pings.** `LimitsInv`: hits that still count are kept (`HitsInv`), no window of a span holds
more than is allowed (`WindowsInv`), and wrong passwords with those that may yet be entered stay below the
limit and a thread each (`TryingInv`). `TicketsInv`: posts under way have different numbers, which is why a
restart, after which none is, may forget the last one; a ticket given out is there and no post has its name in
hand (`StillThere`); a ticket one request writes has the temporary file to itself (`Alone`); tickets with those
to come and the posts that found room stay below the cap and a thread each (`Bounded`). `PingInv`: no day has
two rows that can be read (`OneRow`); nobody works on an old request (`Timely`); and as long as nothing has
failed, `daily.jsonl` ends in a line end, so that a row appended can be read (`RollupDates`), and a maintenance
that is about to prune has the row of every day it will throw away (`Tidy`). A ping cannot write to such a
day's log in between, since it took its time less than `LAG` ago (`LateForPruning`).

For `CountedOnce` the logs are tied to the pings that were sent. `LinesHold`: a number is one ping's and one
worker's (`NumbersInv`, `HandsInv`); each line is the one of a ping, in the log of its day, and no ping has two
(`LinesInv`); a line that is not mixed (another's may stand beside it, or its end failed) has its line end or a worker that is
about to write it (`FollowedInv`); a
ping past its line has it in its log as long as the log is kept (`KeptInv`); and torn lines are no more than `torn`
(`TornInv`). An answered line that cannot be read is then glued to a mixed or a torn one before it, which differ for
two such lines: that injection is the bound of `OnlyMixedLinesAreLost`. `CountInv`: the count of a device in the
snapshot, or in the index, is at most the number of its pings up to that one's second which no worker has any more
(`Counted`); while the logs are replayed it is at most those up to the snapshot's second and those whose line
has been passed (`Accounted`). So a line enters the count when it is passed and not before, and the strict
comparison of `Late` keeps out what the snapshot may have.

**Only model-checked.** Liveness, which is beyond the prover: `ComesBack`, `LoopsSettle`, `Offered`, `Resolved`,
`TracksAreServed`, `WaitsEnd`, `HttpServes`. The figures of `Stats` (`FiguresAreRight`), which are sums
over the lines of a log, and `ArgumentsReach`, which reads back a command line with a fold: what a fold computes
takes an induction over data. The calendar is checked on every day there is.

## 6. Plan

Done: the modules of section 2, their runs, the proofs above. What could follow:

1. `EngineCtl`: runs in which the host's `deactivate` meets a switch (it needs the same cure
   as `engine_ctl_overlap`), and the audio callback's `try_lock`.
2. The composition of `Http` with `Tickets` and `Pings`: a client that gave up waiting and
   sends again while its first request is still being worked off.
3. The plug-in's glue: `detach_once` (a job that panics leaves its flag set), the list of devices
   and its cache.

## 7. What is left out, and why

- Sample values and the resampler's kernel: floating point; no decision depends on them. Of the
  drift loop the rounding of `f64` is left out.
- COM calls, format negotiation, thread priorities: calls into the system. What they
  may answer is in `Sink` and in `Engine`'s `Fails`.
- Memory order: atomics are taken as sequentially consistent. The ring's two indices are
  acquire/release in rtrb; the metrics' flags are relaxed, except that the error is
  written under its lock before the state's store, which the model keeps in order.
- Fonts, painting, colours, texts: no state that others depend on.
- Feeds, signatures and hashes as bytes: parsing and cryptography of other crates. A signature is
  what it is of.
- In `Updater`: temporary copies and what the message boxes say. In `Outbox`: how feedback.id comes
  to be, and files nobody can read, which stay and take a place of the cap.
- In the server: the admin's pages, its session cookie, the table that names a country and the
  static files. In `Pings` a line's other fields. In `Http` the text of a header.
- The Inno Setup script, and cargo: external. `Install` and `Release` take a build to succeed or fail.
- Everything in one process that only forwards (`main.rs` of the tools, `lib.rs` of the crates).
