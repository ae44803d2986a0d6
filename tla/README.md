# A verification model of isimud

isimud speaks text aloud for agents: an MCP server, a macOS menu bar icon and
the `isimud://` URL scheme all hand utterances to one serialized speech engine.
This directory holds TLA+ modules that model the program as it is written in
`src/`, TLC configurations that check them on small instances, and TLAPS proofs,
for every instance, of all safety properties that the passing runs check, the
refinements (but for liveness) among them. `PROJECT.json` maps every definition to the
lines it models and lists the runs, the faults each property catches, the
hazards, the findings and the theorems.

## 1. The system

| Component | State | Operations |
|---|---|---|
| Speech engine (`worker.rs`, `state.rs`) | config, registry, queue, notify permit, current, state, shutdown, degraded, event channel | `enqueue`, `enqueue_and_wait`, `stop`, `shutdown`, `reload_config`, `status`, `mark_degraded`, the worker loop, the job task, the panic path |
| Routing (`voices.rs`, `providers/mod.rs`) | none | `resolve_speech`, `ProviderRegistry::from_config`, `select` |
| Providers and playback (`providers/*.rs`, `playback.rs`) | a child process, an HTTP request or a playing clip; the cancel token | `synthesize`, `play_audio` |
| MCP tools (`mcp.rs`) | none | `speak`, `stop`, `status`, `list_voices`, quit requests |
| MCP peers (`mcp.rs`) | the registry of sessions; the forwarder's receiver | `initialize`, `register_peer`, the forwarder task, `broadcast_notification` |
| Tray (`runtime_shell.rs`, `runtime_tray.rs`) | indicator, degraded, pulse, colours | build, speech events, clicks, ticks |
| Configuration (`config.rs`, `config_watch.rs`, `main.rs`) | the file; the watcher's fingerprint and contents | load, create default, poll, reload |
| Lifecycle (`runtime_shell.rs`, `server.rs`, `main.rs`) | shutdown broadcast, server task, supervisor | serve, Ctrl-C, quit, exit of the event loop |
| URL scheme (`url_scheme.rs`, `runtime_shell.rs`) | the registered handler; requests on their way to the event loop | `parse_speak_url`, registration around the start of Cocoa, `UserEvent::Speak` |
| Starts (`main.rs`, `autostart.rs`, `config.rs`) | `.env`, the LaunchAgent file | `maybe_load_dotenv`, `resolve_config_path`, `sync_autostart`, start at login |
| Credentials, authentication, logging, packaging | none or a file | see section 7 |

How they meet. Every source of speech calls `enqueue`, which resolves the voice
against the configuration of the moment, pushes a job under the queue lock,
notifies the worker and announces the job. The one worker pops a job and makes
it `current` under the same lock, spawns a task that routes, runs and reports
it, and awaits that task. `stop` trips the current job's token and drains the
queue in one critical section. Events go out on a broadcast channel to the tray
and to the MCP forwarder; outcomes go to the caller by a oneshot channel. The
watcher thread polls the file and swaps configuration and registry. A shutdown
broadcast ends the HTTP server, and the end of the server ends the program.
What one start leaves behind, the configuration file and the LaunchAgent,
decides what the next one does.

What is hard about it, and what each part must guarantee:

* **Engine.** Calls run on any thread against the worker, with four locks, two
  atomics, one permit and one channel between them. No accepted job may be
  lost, spoken twice or answered twice; a stop must miss nobody; the worker
  must not sleep on work; the answer, the status and the events must agree.
* **Providers.** A stop may come at any step of a child process, a request or a
  clip. The sound must end before the next job starts, and what is reported
  must be what was heard.
* **Tools.** A wait can time out while its outcome arrives; a status is read in
  pieces while the worker moves.
* **Peers.** Sessions come, go, initialize twice and fail while a round of sends
  goes on over a snapshot of the registry, on a channel that forgets what is
  not read in time. One session must cost no other an event.
* **Tray.** It learns of the engine only by events, which can be sent in
  another order than the state changes, before it listens, or be lost.
* **Configuration.** The file changes between any two reads, half-written
  versions included.
* **Lifecycle.** Any of server, clients, worker and user may end first.
* **URLs.** The one that launched the program is dispatched before its event
  loop runs, and Cocoa takes the handlers over in between. Nothing may be
  dropped or overtaken, and what is spoken must be what the URL says.
* **Starts.** The path is found from a shell, a `.env` and a directory that are
  gone at login; any start may be cut short at any step. A login must lead back
  to the file of the start that set it up.

## 2. Modules

| Module | Models | Built on |
|---|---|---|
| `Routing` | voice resolution, registry, provider selection, as pure operators | |
| `SpeechEngine` | the engine, one action per critical section, atomic access or send | `Routing` |
| `SpeechQueue` | the abstract contract: a queue served one job at a time, an indivisible stop | |
| `SpeechEngineRefinement` | the mapping from the engine to the contract | `SpeechEngine`, `SpeechQueue` |
| `Synthesis` | a run in detail: `say`, the cloud request, the playback thread | `SpeechEngine` |
| `TrayIndicator` | event forwarder and event loop | `SpeechEngine` |
| `McpTools` | `speak` with wait, and `status` | `SpeechEngine` |
| `PeerFanout` | registry of MCP peers and event forwarder | |
| `ConfigWatch` | loading, default creation, watcher, delivery in both modes | |
| `Launch` | starts by hand and at login, configuration path, autostart, crashes | `ConfigWatch` |
| `Lifecycle` | start and end of the program | |
| `UrlScheme` | `parse_speak_url`, as pure operators, and what a URL says without the loop | |
| `UrlDelivery` | `isimud://` URLs from the click to the engine | `Lifecycle`, `UrlScheme` |
| `SpeechEngineProofs`, `SpeechEngineRefinementProofs`, `SynthesisProofs`, `TrayIndicatorProofs`, `McpToolsProofs`, `PeerFanoutProofs` | proofs | the module of that name |
| `LaunchProofs` | proofs about starts and about the watcher | `Launch` |
| `LifecycleProofs` | proofs about the program's end and about URLs | `UrlDelivery` |
| `MC*` | model values and configurations for TLC | |

### SpeechEngine

The state is `EngineInner` field by field, plus where each call is (`call`,
`stop`, `halt`, `reload`), what it holds in local variables (`loaded`,
`primary`, `cleared`, `hit`), and where worker and job task are (`pc`, `job`,
`snapshot`, `result`). The worker awaits its task, so one program counter
serves both. `events` is the history of everything sent, `outcome` what the
oneshot delivered, and `recent` the history of the configurations that were in
force, or between the two stores of `reload_config`, since the last pop.

An action is what the code does atomically. The nested sections (queue lock
around the lock of `current`) are single actions, because every other section
that takes both locks takes the queue lock first, and `current` alone is only
taken to clear it. What lies between two actions of one call is exactly where
another thread can come in: between push and notify, between notify and the
Enqueued event, between the end of stop's section and its Stopped event,
between the flag check and the pop, between the two stores of a reload and the
two loads of a job, between outcome, event, `current`, `state` and answer.
`SpeechQueue` is what remains of all this for a caller: a job ends when it
leaves `current` or is drained, and the answer follows.

A run itself is three ways to end (`FinishRun`, `NoticeCancel`, `PanicRun`):
what a provider can do is left open there and filled in by `Synthesis`, whose
property `ImplementsEngine` (every step of `Synthesis` is one of the engine or
none) shows that the engine's picture of a run covers what the providers do.

Every job carries a waiter; `enqueue` is the case in which nobody reads it.
Texts, previews, depths in events and error messages are left out. A
configuration is a record of the five things routing and the queue read. The
registry is the one of a macOS build, where the Apple provider always exists;
credentials are those the environment and the file give together.

### Synthesis

`phase` is the place in `AppleProvider::synthesize`, or in a cloud provider's
`synthesize` followed by `play_blocking`. `sounding` is the world outside: the
jobs that can be heard. `SoundEnds` is the world's step: a child exits with or
without success, a clip reaches its end. Spawning, opening the device and
decoding may fail. OpenAI and Google differ only in the body they build and
parse and share the cloud steps.

### TrayIndicator

`received` and `missed` are the broadcast receiver's position and what it has
lost, `mailbox` the events handed to the event loop. `BuildTray` may come at
any moment of the engine's life, since the server starts first.

### McpTools

A status call is three reads in the order of the code; `known` remembers whose
callers had their outcome when it began. A waiting caller returns with the
outcome or, with a limit, at any moment before it; the job is not told.

### PeerFanout

`peers` is the registry, `read` and `lost` the receiver's position and what it
skipped, `rest` the snapshot less what this round has done. `Initialize` is the
whole critical section of `register_peer`: prune, append, cap. A round is one
action for each send, so that sessions come and go between them. An open
session's transport may fail once for a notification without the session
closing. `Open` is the scan of `retain`, place by place. `since`, `failed` and `inits` are the history the properties speak of.

### ConfigWatch

The file is a content and a modification time. A truncating save is two saves.
The watcher's steps are the two reads of the baseline, the fingerprint of a
poll, the contents, and the delivery. `QuietStart` says whether users leave the
file alone until the watcher has its baseline.

### Launch

`ConfigWatch`, run again and again. `start` is the environment of the start
that is under way, `files` has one configuration file per directory (the one in
use is `ConfigWatch`'s `content`), `item` is the LaunchAgent. `Start` runs
`maybe_load_dotenv` and `resolve_config_path`; `Login` starts with what launchd
makes of `item`; `End` stops the program at any step, a default half written
included; `SyncAutostart` is `sync_autostart` with its failures and torn files,
and with the path as it was given (`AsGiven`) when the file has gone since the
load and `canonicalize` fails.
A variable is a set of at most one value. `TypeOK`, `UnchangedMeansApplied` and
`EditsAreApplied` are those of `ConfigWatch`, here across starts.

### Lifecycle

The main thread, the server task, the shutdown message, the clients that keep
a request or an event stream open, the task that tells the event loop of the
server's end, the supervisor, and a clip on a blocking thread (which a dropped
runtime waits for). `PatientUser` says whether Ctrl-C comes only after the
server task has subscribed to the shutdown channel. Nothing in the program
calls `SpeechEngine::shutdown`; it is public and used by tests, and the engine
model covers it as `Halts`.

### UrlScheme, UrlDelivery

A URL is scheme, verb, path and pairs of the query; a value is words, blanks or
nothing, escaped or not, since trimming before decoding and after it differ in
exactly that. `Parse` is the loop of the code and `Says` what the last pairs of
the query give; that the two agree is part of `UrlsArriveInOrder`. `pending` is
Apple's queue, `mailbox` the event loop's, `owed` the requests opened and not
yet handed over. `CocoaStarts` takes the handler away and tells the observer,
who takes it back. The rest of the program moves as in `Lifecycle`, with the
event loop behind the start of Cocoa.

## 3. Runs

| Run | Instance | Question |
|---|---|---|
| `engine_calls` | 2 jobs, 1 stop, 1 shutdown | nothing lost, nothing twice, stop misses nobody, no missed wake-up, events agree with answers and keep their order, and the queue contract is implemented |
| `engine_liveness` | 2 jobs, 1 shutdown, fairness | the contract's liveness; every job is answered unless a shutdown leaves it queued; a raised flag ends the worker |
| `engine_reload` | 2 jobs of every kind (default voice, unknown voice, blank text), 2 configurations | the limit under racing calls and reloads; registry and order of a job are no older than its pop |
| `synthesis_runs` | 2 jobs on either backend, the first already accepted, 1 stop, fairness | only the running job sounds; completed means heard; the engine's runs are implemented; a stop silences, though sounds and servers never end by themselves |
| `listeners` | 2 waiting callers that may time out, and either a tray built at any time over a channel of 4 events or 1 status call | the indicator agrees with the worker and the alarm stays; what a status answer never says |
| `peer_events` | 3 sessions for 2 places, 3 initializations, 3 events on a channel of 1, 1 failing send, fairness | no session misses an event for another's sake; the order holds; open sessions stay and closed ones go; the forwarder catches up |
| `watch_follows` | 4 starts from 5 environments or at login, 3 directories, 2 valid and 1 invalid content, 3 changes, fairness | the watcher sleeps only over what it delivered; the last edit is applied; a login uses the file of the last sync |
| `exit_paths` | 2 clients, both modes, 2 URLs out of 11, fairness | quit, Ctrl-C and a failing server end the program, gracefully where promised; URLs arrive in order and are spoken |

Four runs find a disagreement between the code and what is written about it;
`PROJECT.json` has the quotations:

| Run | Disagreement |
|---|---|
| `tray_stuck` | a stop between the pop and the Started event leaves the indicator pulsing over an idle engine |
| `watch_startup` | a save between loading and the watcher's baseline is never applied |
| `exit_early_interrupt` | a Ctrl-C before the server task has subscribed reaches only a receiver that nobody reads, and the program serves on |
| `reload_torn` | a job between the two stores of a reload gets the registry of one configuration and the order of the other, and fails although each of the two has a provider for it |

Other behaviours that a reader of the documentation may not expect, and that
the model has because the code has them: jobs queued at a shutdown are never
answered, and one more job may start after `shutdown` has returned (the
contract in `SpeechQueue` says so); a job that `stop` names as cancelled may
complete; a queued job keeps the voice its call resolved, whatever is reloaded
before it is popped; a call can be refused while the worker has yet to pop the
only job; a Stopped event can arrive after the next job's Started and turn the
tray gray; a tray built during a job stays gray until the next one; a status
answer need not be true of any single moment; a stopped cloud job holds the
worker until the server has answered. Of URLs: an escaped blank in the
path (`isimud://speak/%20?text=hi`) counts as the text, is then found empty, and
the text of the query is not spoken, though the comment at url_scheme.rs:14
gives up only "when no non-empty text is supplied"; a last `text=` that is blank
drops the request though an earlier one had words, and a later `rate` that is
no number undoes the one before it. Of starts: an empty `HOME`
gives a relative path; a configuration file that is removed between load and
sync leaves a relative path in the LaunchAgent as it was given, and a login then
looks for it from `/`; a sync that fails leaves an older LaunchAgent, which
starts the program at login although autostart is off by now; a reload does not touch the LaunchAgent, only the next
start does; a start with another configuration file moves or removes it; keys
set in a shell are absent at login. Of peers: 64 is the number of
initializations remembered, so that one session may take several places and be
told everything as often, and the oldest session is put out unasked.

**Bounds.** Two jobs are enough for an owner to be confused with another and
for one job to wait behind another. One stop and one shutdown meet every step
of the two jobs; the proofs cover any number of each. In `engine_reload` the
limits are 1 and 2, so that one call is refused where the other is accepted,
and reloads go back and forth without end; of the two configurations one needs
the provider whose key the other lacks. A stop and a shutdown with two jobs are
together too large for liveness, so `engine_liveness` has the shutdown only; that
a stop leaves no job without an owner is checked for safety in `engine_calls`.
`synthesis_runs` begins where the first call has returned (`FirstAccepted`), a
state the engine reaches and that the steps of a provider cannot tell from any
other; the second call may come at any moment. In `listeners` (`MCListeners`) a
behavior has the tray or the MCP tools: neither changes the engine or the other,
so that each sees with the engine alone all that it can see. The event channel of
four is small enough for a tray with two jobs to lag. Three sessions for two places let one be put out, and a third
initialization lets one register twice (`MaxInits`); of three events
(`MaxEvents`) on a channel of one, one can be lost, one be on its way and one
come after; one failing send (`MaxErrors`) suffices, since a closed session
fails as often as it is sent to. The sessions begin in the order of their names,
which is symmetry by hand: liveness is checked, so `SYMMETRY` may not be used.
Three file changes (`MaxChanges`) let a second edit come inside the poll that
reads the first and a third inside its delivery; four starts (`MaxStarts`) are
one that sets the LaunchAgent, one that moves it or crashes, a login and one
more. Two URLs (`MaxUrls`) let one overtake the other. Two clients let one quit
while another still has a request open. Symmetry of the jobs is used in runs
that check no liveness. All other counters are finite because every call is
made once.

**Deadlock** is not checked: once every call has returned and the worker is
parked or stopped, every event is forwarded, the file is left alone and no
start comes, or the program has exited, nothing is left to happen. That work is
never left behind in such a state is what `NoLostWakeup`,
`AcceptedJobsAreAnswered`, `EventsAreForwarded`, `EditsAreApplied`,
`UrlsAreSpoken` and the other properties of `exit_paths` say.

**Fairness.** A call that has begun runs to its end: `enqueue`, `stop`,
`shutdown` and `reload_config` contain no await (`CallFairness`). The Tokio
runtime schedules a task that is ready (`WorkerStep`, `ProgramStep`,
`ServerStep`, `Supervise`), and the operating system the watcher thread and the
main thread (`Watch`, `SyncAutostart`, `MainStep`, `MainThread`, the last with
Apple's dispatch of the events it holds). That a provider ends its run
(`ProviderStep` in `FairSpec`) is assumed for the engine's liveness and not in
`Synthesis`, where no server has to answer and no sound to end. A send to a peer
ends, in success or failure (`ForwarderStep`): the code awaits it without a
limit, and one that did neither would stop the events of all. `exit_paths`
assumes that clients close their requests and event streams in the end and that
a clip ends: the graceful shutdown and the drop of the runtime wait for them.
These last two are assumptions about the world and not about scheduling: a
client that never closes its stream does keep the program from ending.
No user, client call, start, URL or reload is ever assumed to happen.

## 4. Faults

Every property of a passing run is shown to depend on the code: the operators
commented "Fault" are plausible mistakes in one mapped definition (a dropped
lock step, `notify_waiters` for `notify_one`, `>` for `>=`, a fingerprint read
after the contents, a result taken for another), and each makes TLC find the
property violated that `PROJECT.json` pairs it with.

## 5. Proofs

TLAPS checks the following. Sets of calls, clients, directories and contents
are arbitrary, and so are the bounds; what is assumed of the constants is in the
modules' named assumptions (`ConfigsAssumption`, `NoJobAssumption`,
`ContentsAssumption`, `PlaceAssumption` and so on), which TLC evaluates on every
run.

**The engine** (`SpeechEngineProofs`):

* `TypeCorrect`: `TypeOK` is an invariant. No run repeats it.
* `WorkerInvariant`, `CurrentAlwaysVisible`: `CurrentIsVisible` is not
  inductive. `WorkerInv` adds that `current` is empty whenever no stop must
  find a job (otherwise a pop could overwrite one), that the state names only
  the worker's job, and that an end is decided before it is reported.
* `Custody`, `JobsNeverLost`, `JobsNeverTwice`: `CustodyInv` adds to the two
  properties that a job nobody has accepted is nowhere and unanswered (so that
  a push cannot duplicate it), that a drained list has no duplicates, and that
  a stop call that has not begun holds nothing. Each action either leaves the
  queue, the drained lists, the worker's job and the answers alone
  (`CustodyFrame`) or moves one job, or one whole queue, from one owner to the
  next; the lemmas at the head of the module say what appending and taking the
  head do to membership and to injectivity of a sequence.
* `RepliesAfterIdle`: a consequence of the two: who is answered has no owner,
  and `current` and `state` name only an owned job.
* `StopMissesNobody`: the action property `StopReachesEveryJob`, from custody
  and the visibility of `current` just before the section.
* `WakeupsNeverLost`: `WakeupInv` adds the window between the flag check and
  the park, in which a shutdown may be raised that the worker has missed.
* `ReloadsTakeEffect`: the action property `NextJobSeesReload`, from
  `RegistryInv`: a registry that was stored without its configuration belongs
  to the reload that is under way, and from the pop on `recent` has every
  configuration either load can return, the one of a snapshot already taken
  included. So neither half is older than the pop; that both are of one
  configuration is what `SwapIsAtomic` says and `reload_torn` refutes.
* `LimitHolds`: `QueueWithinLimit` needs custody, since what a call loaded
  speaks of the queue only if the queued job is that call's and is there once.
* `Cancellation`, `EventStream`, `OutcomesMatchEvents`, `LifecyclesOrdered`:
  what is said of a job's history is tied to where the job is. `CancelInv`
  gives the reason of a cancelled end, a tripped token; `EventsInv` says that
  nothing is sent of a job the worker has yet to take, that the one in flight
  has been announced no further than its step, and that its end, once told, is
  the end its waiter is about to get. So a second start or a second end cannot
  be sent, and no answer can differ from what listeners heard.
* `OneUtterance`: `UtteranceInv` says of every start in the history that its
  job is cancelled, over, or the one in flight; only then is the next start
  known to come after the end of the one before.

**The queue contract** (`SpeechEngineRefinementProofs`): `EngineImplementsQueue`
is `Spec => Queue!Spec` under the mapping of `SpeechEngineRefinement`. It has
a lemma for each kind of step: a push is `Accept`, a pop `Begin`, a stop's
section `Stop`, the removal of `current` `End`, and a shutdown's flag and its
tripping of the token are `RaiseHalt` and `EndActive`; every other step, the
answers included, is none. It rests on `CancelInv` for how a job may end, and on
custody: the mapped end of a job (`ending`) is read off from who owns it, and
would change at a step that ends nothing if a job had two owners.

**Runs of a provider** (`SynthesisProofs`):

* `ProvidersKeepTheEngine`: step by step, from the same initial states,
  `Synthesis` implements the engine. It has one step of the proof for each step
  of a provider, and needs that a run has a phase exactly while the engine has
  it at `run`.
* `NothingElseSounds`, `CompletedMeansHeard`: `SoundInv` says that nothing
  sounds outside of the steps that wait for a sound, and that a clip found gone
  came to its end.
* `SynthesisTypeCorrect`: `ChosenInv` carries the chosen backend from the
  selection to the run.

**Who looks at the engine**, on top of its theorems:

* `McpToolsProofs`: `DepthLeavesOutActive` and `StatusFollowsOutcome`. `ViewInv`
  says that a job that was seen active never waits again and that one whose
  caller has its outcome is neither active nor waiting ever after, which is
  where custody comes in.
* `TrayIndicatorProofs`: `AlarmsAreKept`. An alarm is, at every moment, unsent
  with the panic path on its way to send it (`AlarmSent`), or ahead of the
  receiver, in the mailbox, missed or shown (`AlarmArrives`).
* `TrayIndicatorProofs`: `PulseFollowsWorker`, in two halves that meet in the
  history of events. `FollowInv`: a tray that missed nothing shows what the
  events it has handled come to, and holds the ones between in their order.
  `PulseInv`: with no stop, all the events sent come to a pulse while the worker
  runs a job and to none between jobs. Its case that no invariant of the engine
  alone gives is a job cancelled by a shutdown, whose end is never sent: the
  worker then takes no other.

**The peers** (`PeerFanoutProofs`), for any number of sessions, events and
places:

* `OpenFacts`, `NewestFacts`, `RegisterFacts` are the lemmas all of it rests
  on: of a list of peers the scan of `Open` drops the closed ones and no other,
  and adds none; the cap keeps the end. The scan is a recursive function of the
  place; that it exists and what it holds at each place is shown by going up
  from zero (`UpTo`).
* `TypeCorrect`, with `RoundInv` (a round is about an event).
* `OpenPeersAreKept`: the action property `OpenPeersStay`. Only the cap can put
  out an open session, and it applies to the list after the prune, which leaves
  only sessions that are open since the registry knows none that is new
  (`RegistryInv`).
* `NoPeerMissesForAnother`: `RegisteredHearsAll` is inductive with the types
  and `RoundInv`: a session that registers anew, before a round, in one or
  after it, has no claim to what was sent before.
* `EventsHeardInOrder`: `HeardInv` bounds what a session was sent of an event,
  together with its places in the snapshot still to come, by the number of its
  initializations.

**Starts, files, ends and URLs**:

* `LaunchProofs`: `TypeCorrect` of `ConfigWatch`, and `UnchangedIsApplied`: with
  `QuietStart`, `UnchangedMeansApplied` holds for any number of edits.
  `WatchInv` says that fingerprints are never newer than the file, that a
  fingerprint which still is the file's vouches for the contents read after it,
  and that the contents remembered last are the ones delivered last.
* `LaunchProofs`: `LaunchTypeCorrect` and `UnchangedAcrossStarts` (a start begins
  with nothing the run before it has read: `RestartInv`).
* `LaunchProofs`: `LoginFollowsSync`, for any environments, with `QuietStart`:
  `LaunchInv` says that a whole LaunchAgent names one place twice, that of the
  last sync that succeeded, so that neither the working directory nor a `.env`
  can lead a login elsewhere. `WatchInv` and the types give the step that needs
  the assumption: a file that was loaded and left alone is still there at the
  sync, so `canonicalize` finds it (`SyncFindsFile`). Without `QuietStart` the
  property is false: TLC finds the removal between load and sync in the
  instance of `watch_follows` with that constant changed.
* `LifecycleProofs`: `TypeCorrect`, and `InterruptsAreGraceful`: `GracefulInv`
  adds that the branch of the select is taken once.
* `LifecycleProofs`: `ParseIsSays`, for every URL with a query of any length,
  not only the eleven of the run: after n pairs the loop of the parser has the
  last text, the last voice with a name and the last rate of these n.
* `LifecycleProofs`: `UrlsInOrder`. `DeliveryInv` adds to `UrlsArriveInOrder`
  that Cocoa, once it dispatches, has a handler of the program again; what is
  owed then moves from `pending` to `mailbox` by `ParseIsSays` and by what
  flattening does to the head and the end of a list.

Recursive functions over numbers (`Open`, `Found`, and `FlattenSeq` of the
community modules) are within reach although the library's induction is not: a
set of numbers that has zero and with each number the next has them all, or its
complement had a least element (`WellFoundedInduction` has that in a form
without an operator parameter).

Model-checked only: all liveness properties, that is `ImplementsLiveQueue`,
`AcceptedJobsAreAnswered`, `ShutdownEndsWorker`, `StopSilences`,
`ClosedPeersAreForgotten`, `EventsAreForwarded`, `EditsAreApplied`,
`UrlsAreSpoken` and the properties of `exit_paths` that say that the program
ends. Liveness under fairness, and with it `ENABLED`, is out of the prover's
reach.

## 6. Plan

The modules that were planned exist, and every safety property of a passing run
has its theorem. What is left:

1. More results that no run asks for: what `Routing` guarantees of a selected
   provider, and the action properties of the lifecycle.
2. A composition of engine and lifecycle, in which the end of the program drops
   callers that still wait.

## 7. Not modelled

* Request bodies, audio formats, voice parameters, event payloads, previews:
  data that no control depends on.
* `list_voices`: reads only.
* `config.rs` beyond loading and the path: TOML parsing and the validation of
  colours are one predicate (`Loaded`); that the environment goes before the
  file for credentials is a choice between two values, and `Routing` takes the
  keys they give together.
* Bind address and bearer check (`server.rs`): stateless; a bad address is a
  server that fails at once in `Lifecycle`. (An address that is not loopback is
  refused, so the module comment's bearer auth "for remote binds" never meets
  one.)
* The characters of a URL and the Objective-C glue (`url_scheme.rs`); the XML
  of the LaunchAgent and the path of the executable (`autostart.rs`), which
  never changes between starts.
* Drawing, colours, the pulse phase (`runtime_tray.rs`), logging, packaging
  and scripts.
* Poisoned locks: `lock_or_recover` goes on with the data, and no section
  panics between two of its assignments.
* A coarse file clock and changes of the file's mode (see the hazards).
