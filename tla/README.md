# A TLA+ model of the Election Stream Monitor

The program watches a video source. A desktop shell (Electron and React) starts
monitoring sessions over a local FastAPI backend; for each session the backend
spawns a detached Python worker, which takes the source slice by slice, runs
detectors and alert rules on each slice, and writes what it finds to a durable
session store that the frontend polls. Source paths below are relative to the
repository; `src/` is its Python package.

## The parts of the system

| Part | State it keeps | Operations | Talks to |
| --- | --- | --- | --- |
| Session model (`src/session_models.py`) | none | transition table, progress validation | everybody |
| Session service (`src/session_service.py`) | none | start, read, cancel | routes call it; spawns the worker; reads and writes the store |
| Session runner (`src/session_runner*.py`) | its metadata and progress objects, the slice in hand | initialise, validate, discover, start, loop, settle | store, detectors, live source |
| File stores (`src/session_io.py`, `src/session_store*.py`) | `session.json`, `progress.json`, `results.jsonl`, `alerts.jsonl`, cancel marker, identity keys | one read or write per call, no transaction | service, runner, loader |
| PostgreSQL stores (`src/session_store_postgres.py`, `..._runtime.py`) | tables; in each process a cached store with one connection | one statement and a commit per write, several statements per read | service, runner |
| Source intake (`src/source_validation.py`, `src/session_runner_discovery.py`, `src/playback_sources.py`) | none | validate, discover slices, resolve playback | routes, runner |
| Live source (`src/stream_loader*.py`) | queue, replay cache, budgets, temp files | connect, next slice, refresh, close | publisher (HTTP/HLS), runner, store |
| Processor, detectors, metric stores (`src/processor.py`, `src/analyzer_contract.py`, `src/stores.py`) | buffered CSV rows per process | analyse a slice, flush | runner |
| Alert rules (`src/alert_rules.py`) | sample windows and active flags per session | evaluate a row, reset | processor |
| Alert queries (`src/session_alerts.py`, `..._incidents.py`, `..._report.py`) | none | filter, group, summarise | alert store, routes, MCP adapter |
| API boundary (`src/api`, `src/api_boundary_config.py`, `src/api_server_cli.py`) | cached settings, generated key, counters per caller | launch, authenticate, charge, HTTP handlers | service |
| Electron shell (`frontend/electron`) | backend process, runtime status, proxy tokens | start, wait, forward, stop, proxy media | backend, renderer |
| React hooks and App (`frontend/src`) | session, snapshot, busy flags, playback, revealed alerts | poll, start, end, play, reveal | bridge |

What is hard in it:

- worker, cancelling clients and reader share nothing but files, each written
  and read one at a time;
- a worker can be killed, can fail in the middle of settling, and is never
  restarted;
- the publisher slides, cuts short, repeats and restarts its playlist while it
  is read, under five budgets in two modules;
- the frontend applies replies to whatever state it finds when they arrive;
- the PostgreSQL stores never roll back or reconnect, and a read is several
  statements that see different moments of the writer;
- metric rows wait in buffers of one process for files that several share;
- the rules carry windows across slices, sources and runs of a session;
- the shell starts, polls and stops one backend from several callbacks.

What makes each part correct:

- *store and runner*: progress never ahead of metadata, completed means
  complete, rows of a settled session final, a snapshot that says terminal
  misses no row, status along the table, every session settles, cancel honoured;
- *live source*: in order, at most once (over several runs too), stream time
  advances, queue consistent, no file left behind but one whose deletion failed,
  cancel noticed, an end;
- *frontend*: no invented outcome, the shown session followed to its end, no
  busy flag stuck, one cancel in flight;
- *Electron shell*: one backend at most, none left after quit but one spawned
  late, the URL of a media token answers while it is recent in age and number;
- *API boundary*: cancellation keeps its capacity under a burst of starts, the
  printed key opens the server, an exposed server serves key holders only;
- *PostgreSQL stores*: acknowledged means durable, a snapshot carries what its
  progress claims, all processes of a runtime use one backend;
- *source intake*: the slices of every video follow each other from its start
  to its end, but for what the code rounds off;
- *metric stores*: the CSV files hold exactly the rows of the sessions' logs;
- *alert rules*: one alert per episode, and none missing;
- *alert queries*: pages join up without loss or repetition, and summaries fit
  them;
- *playback and alerts shown*: never the media of a source selected before,
  never an alert that vanishes.

The hazards, each at its line with the properties that cover it, are listed in
`PROJECT.json`.

## Modules

| Module | What it is |
| --- | --- |
| `SessionModel` | statuses, transition table, progress payload and its validation |
| `SessionContract` | abstract: what one session promises to a reader of its durable state |
| `SessionLifecycle` | the worker, its store, cancelling clients and the snapshot reader |
| `SessionLifecycleProofs` | theorems about `SessionLifecycle` |
| `LiveSource` | abstract: what a live source promises to the session |
| `HlsLoader`, `HlsLoaderProofs` | the HTTP/HLS loader, the loop around it and the publisher; theorems |
| `MonitoringClient`, `MonitoringClientProofs` | the hook `useMonitoringSession` and the calls it has in flight; theorems |
| `PostgresStores`, `PostgresStoresProofs` | the PostgreSQL stores under failing statements and connections; theorems |
| `RateLimits` | the fixed-window budgets |
| `ApiBoundary` | launch, settings, keys and requests; EXTENDS `RateLimits` and is proved to implement it |
| `SourceIntake` | validation, discovery and playback of a source while its folder changes |
| `ApiBoundaryProofs` | theorems about `RateLimits`, `ApiBoundary` and, behind them, `SourceIntake` |
| `DesktopBackend` | the backend process of the desktop application |
| `MediaProxy` | the local-media protocol and the token registry |
| `PlaybackSource` | the hook `usePlaybackSource` |
| `DesktopProofs` | theorems about the three of them |
| `SliceAnalysis` | processor, detector bundle and buffered metric stores |
| `AlertRules` | the black-screen and blur rules and their rolling state |
| `AlertQueries` | pages, timeline and summaries of a growing alert log |
| `AlertReveal` | which alerts the application shows |
| `AlertProofs` | theorems about `SliceAnalysis`, `AlertRules`, `AlertQueries` and `AlertReveal` |
| `InductionLemmas` | induction over numbers, stated of sets, and ascending enumerations, for the proofs |
| `MCSessionLifecycle`, `MCHlsLoader`, `MCMonitoringClient`, `MCAccess`, `MCAlerts` | the instances TLC checks |

A definition whose name has a suffix (`Raise_OnlyLogged`) is the definition of
that name with one plausible mistake; no specification uses it. `PROJECT.json`
pairs each property with one such mistake that breaks it.

### SessionLifecycle

One session, from the spawned process to its settlement. `pc` names the next
store call or decision of `run_local_session`, so every write is a step of its
own: `InitMetadata`, `InitProgress` (`initialize_pending_session`),
`ValidateSource`, `PersistValidated`, `DiscoverSlices`, `StartTotal`,
`StartMetadata`, `StartProgress` (`start_running_session`), then the local loop
(`NextLocalSlice`, `process_discovered_slices`) or the live one (`ConnectLive`,
`PullLiveSlice`, `CheckLive`, `EndLive`, `run_api_stream_session`), per slice
`Analyze`, `AppendResult`, `AppendAlert`, `WriteSliceProgress`, and at the end
`SettleMetadata` and `SettleProgress` (`finalize_session_outcome`). The control
operators keep the exception structure: `Raise` goes to the handler that settles
the session as failed when `inTry`, otherwise it ends the process; `Die` is an
exception that no handler catches. `StoreFault` makes any write (or the flush
before a settlement) raise, `Crash` kills the worker. `PersistMetadata` and
`PersistProgress` apply the transition table and the validation, and raise when
they reject. A client's `CancelCheck` and `CancelRequest` are the look and the
write of `cancel_session`; the four `Read` actions are `read_session_snapshot`.
`taken` counts slices handed to the detectors; `takenAtCancel` is history.

Data left out: timestamps, texts, detector names, the content of a row. A
detector bundle is a number of result and alert rows.

### HlsLoader

A run is one iteration of `iter_api_stream_slices` over one
`HttpHlsApiStreamLoader`; `MaxRuns` runs share the durable keys and marker. A
segment is its sequence number and name, which is all the loader compares. The
record `fetch` is one fetch in progress (`_fetch_url_bytes` and the retries
around it): `StartFetch`, one `ReadChunk` per chunk with the throttled cancel
check, `ReadBreaks` for unclassified transport errors, and then what the body
turned out to be: `PlaylistFails`, `FollowMaster`, `Malformed`, `ParseMedia`
with `MergeSegment` and `MergeDone` (`_refresh_playlist_from_text`),
`Materialize` or `SegmentFails`. `NextSlice` and `Poll` are `next_slice`;
`Reject`, `Accept`, `AcceptFails` are the checks of `iter_api_stream_slices`;
`Consume` is the session taking the slice. A deletion may fail and is only
logged (`Unlink`), and so may any part of the removal of the temp directory at
the end (`RemoveTempDir`); `undeleted` records the files a failed deletion left,
`MaxUndeleted` bounds them. The publisher is external: it publishes into a
sliding window, may end, may begin again at the first number under another
name, and a refresh may see its playlist cut short.

`SessionLifecycle` sees a live source as slices, an end or an error
(`PullLiveSlice`); `LiveSource` is what the two share.

### MonitoringClient

`session`, `snapshot`, `starting` and `ending` are the hook's state; `calls`
holds the bridge calls whose reply has not been handled. A call is served at one
time (`ServeStart`, `ServeRead`, `ServeCancel`, or `ServeFails` and
`StartReplyLost`) and its reply handled at another (`DeliverPoll`,
`DeliverStart`, `DeliverFirst`, `DeliverCancel`), so each handler runs against
whatever state it finds. `ordered` tells whether replies keep the order of their
calls. The backend is reduced to the durable status of each session, which moves
as `SessionLifecycle` lets it, without storage faults, and the cancel marker.
`BackendKeepsContract` relates it to the session models: each session is a
`SessionContract`.

### RateLimits and ApiBoundary

`counters` holds one window per budget and caller. `Charge` is what a start, a
cancel, a playback resolution or an alert read does before its handler runs:
the guard of starts first, then the control budget that cancels share
(`session_route_policy`). `ApiBoundary` adds how the server comes up: `RunCli`
and `AnnounceCli` (`api_server_cli`: mode, bind policy, key, summary),
`RunUvicorn` (the server without the command line), `Lifespan` (the settings
are read again), and `Request`, which is the whole chain from body cap to
handler. An environment variable is a member of a small set of what its parser
tells apart (`EnvironmentType`), so a launch is one for every content of the
environment; a key is named by where it comes from. `served` is the key with
which the last request ran a protected handler, or `Nobody`: whether a handler
ran depends on the comparison of that key (`Authenticated`).

### PostgresStores

The session store and the alert store have an environment each (`selected`,
`databaseUrl`, `autoCreate`), and each process a cached store and a connection
per kind (`Resolve...` is `session_store_runtime` and its counterpart for
alerts). An alert read selects the alert store before that store asks the
session store whether the session exists (`NeededKind`); what a file store
answers is left open (`CallFile`). A process makes one call at a time (`Begin`)
and executes its statements one by one: `ExecuteWrite` then `Commit`
(`_execute_and_commit`), or one `ExecuteRead` per statement of a read, so that a
snapshot sees three different moments. `StatementFails` leaves an aborted
transaction, `ConnectionLost` and `CommitLost` a broken connection, and
`ConnectionRefuses` is every later call on either, since no code rolls back or
reconnects. `WorkerDies` takes uncommitted work with it. Rows are counted;
`acked` and `doubtful` are history, what returned and what raised while its
commit was on the way.

### SourceIntake

One source from `validate_source_input` over the worker's second validation to
`discover_input_slices`, which lists (`ListFiles`), probes (`InspectFiles`) and
cuts (`BuildSlices`, `_build_video_file_slices`) in separate steps while
`FileWritten`, `FileGone`, `PlaylistWritten` and `NameMoves` change the world
under it; `ResolvePlayback` may come at any time. The sort by modification time
(`ByTime`) is given by what it returns: the one order of the files listed in
which each was modified before the next. Times are integers of nanoseconds, so
that the length of a window is rounded to milliseconds as the code rounds it
(`Rounded`) and a remainder within 1e-9 seconds is dropped (`Tolerance`); which
way a tie is rounded is left open, and so is what binary fractions do at the
very edge of the tolerance. A probe that times out makes a duration unknown; an
ffprobe that cannot be run fails the session.

### DesktopBackend

The Electron main process is one thread, cut where it awaits. `starts` are the
starts whose command is being resolved, `child` the tracked process,
`startupPromise` the start others wait for, `process` what the operating system
knows of each child. `Ensure` (inside `AppReady`, `Activate` and
`BridgeRequest`) is `ensureFastApiProcessStarted`; `Spawn` the rest of it;
`ChildEvent` the exit or error handler; `PollAnswered` and `PollTimesOut` the
waiters of the runtime policy; `Operate` a request that goes on to the backend;
`Quit` and `Exit` `stopFastApiProcess` and what follows. Requests come from the
`window`, which stays open, and can ask for a backend, until the application has
exited.

### MediaProxy and PlaybackSource

`MediaProxy` is the registry (`createRemoteHlsProxyRegistry`: expiry, eviction
in insertion order, the reuse of a token) with requests that wait for the
upstream server (`ProxyRequest`, `UpstreamAnswers`) and whose playlists mint
more tokens; `LocalRequest` and `RendererSource` are the stateless rest. The
registry maps a token, a number in minting order, to the time of its last use:
a JavaScript `Map` keeps the order of insertion. `RegisterAll` gives the outcome
of registering all URIs of one playlist in closed form; that this is the
repeated `Register` of the code is a theorem (`RegisterAllIsRepeated`).
`PlaybackSource` has one `Effects` step per render, whose run of the resolving
effect is a flight that `Reply` answers, in any order.

### SliceAnalysis

Worker processes with buffers of their own and CSV files in common. A slice is
`TakeSlice`, one detector after the other (`DetectorReports`, `DetectorFails`),
each report adding a row that may trigger a flush (`Write`, `WriteFails`), then
the events of the bundle (`PersistEvent`, `PersistFails`), then the next; a
session flushes when it is about to be settled. `todo` are the detectors of the
slice still to run; the bundle shrinks from its head as its events are logged.

### AlertRules and AlertQueries

`Evaluate` is `evaluate_alerts` for one row with quantised measurements and the
thresholds of `config.py`; `Reset` is `reset_session_rule_state`. The reference
definitions `Clear` and `Faulty` say what recovery and fault mean of the last
rows of a history, without the rolling state: `Share` is how much of a row lies
in the last three seconds before the end of another, told from the durations of
the whole history and not from a trimmed window. Times are half seconds, so the
code's floor of a millisecond per sample (`alert_rules.py:900`) and its tolerance
of 1e-9 (`:921`) have nothing to do, and how a sum of binary fractions compares
with three seconds (`:704`) is not covered. `AlertQueries` is a
client that asks for a page (`AskRoute`, `AskTool`: the route and the tool check
and clamp differently), reads it from the whole log each time (`ReadPage`) and
reads the summary in between (`ReadSummary`), while `AppendAlert` goes on and the
clock may be set back (`ClockSetBack`). Filter, sort and grouping are given by
what they return: the places kept, in ascending order (`Kept`); the order in
which each alert is `Before` the next; and a group for each place where an alert
is not of the same incident as the one before it (`GroupStarts`).

### AlertReveal

Player callbacks (`TimeUpdate`, `LevelLoaded`, `FragmentChanged`, ...), polls and
the start of a session each end in a render; `Visible`
(`filterAlertsForPlayback`) and `Displayed` (`mergeDisplayedAlerts`) are
functions of the state, `revealed` is the ref the App keeps.

## Runs

| Run | Specification and bounds | What it shows |
| --- | --- | --- |
| `LocalSession` | local; 2 clients, 2 slices, 1 result and 1 alert row each, 1 fault, no crash; fair | the safety properties, `SessionContract`, that only a failed write takes the status off the transition table, and that every session settles unless a write fails |
| `LiveSession` | live; 2 faults and a crash | `LoopCancelHonoured` under crashes (the safety properties and `SessionContract` hold in live mode and with crashes by the theorems) |
| `HlsLoader` | `MCHlsLoader`, one of two shapes: 1 run, sequence numbers to 3, window 2, 2 refreshes, 2 chunks, every deletion succeeds; or 2 runs, numbers to 2, window 1, 3 refreshes, 1 chunk, no retries, a failed deletion and a crash. In both 1 publisher restart, two names, skip 1; fair | `IsLiveSource` (in order, at most once over both runs), `QueueIsConsistent`, `TimelineAdvances`, `NoFileForgotten`, `CancelStopsReading`, `EndedMeansDrained` (everything queued is attempted before an end), `EveryRunEnds` |
| `MonitoringClient` | 2 sessions, 1 failing call, 2 polls out (in order) or 1 (any order), outcomes completed and cancelled; fair | `ShownStatusIsReal`, `InOrderTerminalIsFinal`, `BackendKeepsContract`, `ShownSessionIsFollowed`, `ButtonsRelease` |
| `Access` | `MCAccess`: boundary, PostgreSQL stores, intake, desktop backend, media proxy, playback hook, one at a time | `StartsSpareCancellation`, `PrintedKeyAuthenticates`, `ExposedServesKeyHolders`, `AcknowledgedIsDurable`, `SnapshotCarriesItsProgress`, `OneBackendPerRuntime`, `SlicesTileTheVideos`, `AtMostOneBackend`, `QuitStopsTheBackend`, `RecentTokensResolve`, `MediaIsOfSource` |
| `Alerts` | `MCAlerts`: slice analysis, alert rules, alert queries, revealed alerts, one at a time | `MetricsBackResults`, `AlertsAreSeparateEpisodes`, `FaultsAreAlerted`, `PagesJoinUp`, `SummaryFitsThePages`, `ShownAlertsStay` |
| `CancelIgnored`, `CancelDuringConnect`, `TerminalOverwritten`, `FailedWithoutDetails`, `StartedSessionHidden`, `DuplicateCancel` | as small as the case needs | a counterexample each, see below |

Why the bounds are enough: the local loop behaves the same for every slice but
the last, so two slices show a first, a last and one in between of a cancel; one
row of each kind separates "none yet", "some" and "all"; one fault reaches every
write once and two reach a failed settlement that fails again; two clients are
needed for a marker that is already there. Budgets of one distinguish "within"
from "exhausted"; two chunks exceed the skip budget of one. The loader runs in
two shapes, chosen by the initial state (`shape` in `MCHlsLoader`), because
together they would be too large. In both the window slides past a number it
once held, so the replay cache forgets that one. The window of two gives a queue
longer than one segment; the window of one and a third refresh let a restarted
publisher list a segment again that the cache has forgotten, so that only the
checks of `iter_api_stream_slices` keep it from a second analysis, in the same
run or the next. One file that cannot be deleted shows everything a second
would. Two sessions are what a stale reply needs. A third slice or client
multiplies the states and repeats the cases. For `SessionLifecycle` the theorems
below remove the bounds altogether.

`Access` and `Alerts` hold machines that share no variable: interleaving them
would only multiply their state spaces, so the initial state chooses the `part`
that runs and the rest stay where they are. Their bounds:

- boundary: at most two of the eight environment variables set, both about keys
  or both about limits, because no two settings of different groups meet in one
  decision; a window of 2 ticks and a control budget of 2 over 3 ticks let a
  start window lie across a control window; one, two and unknown callers;
- stores: every choice of backend, database and schema rights for either kind
  of store; one row of each kind, two reads and one fault put every failure before,
  between and after every statement and commit;
- intake: videos of a nanosecond (within the tolerance), of 1.000001 seconds (a
  tail below the shortest window), of 1.4564 seconds (rounded down) and of 2.1
  (longer than the limit of 2), a segment in and out of size, and three changes
  of the folder;
- desktop: three starts, two requests and one crash: a child dead, one starting
  and one asked for again;
- proxy: two entries, two upstream addresses, four tokens and an age of one
  tick: the registry expires and evicts while a fetch is out;
- playback: three sources and three runs of the effect, so that two replies are
  stale at once;
- analysis: a buffer of two, two slices, two workers (one with every detector,
  one with one of them) and one failing write: a flush in the middle, one at the
  end, one that fails and one that finds the file begun by the other worker;
- rules: three rows per detector on both sides of each threshold; eight rows of
  one key alone are what recovery and a second episode take, five rows in all
  when sessions mix;
- queries: four alerts of two topics, pages of one, two clocks' ticks and a gap
  of one: an incident that grows, one that ends, and one that a clock set back
  would join;
- reveal: three positions, two playlists and two sessions.

The switches of Alerts.cfg and Access.cfg not named here are the values the code
has or the smallest ones that tell its cases apart. `TypeOK` of `HlsLoader` is a
theorem and not part of its run; that of `MonitoringClient` documents its
variables.

`CHECK_DEADLOCK FALSE` is set because these systems stop: a settled or dead
worker, an exhausted publisher, a hook without a session, an application that
has quit, a log that is full.

### Fairness

`SessionLifecycle`: weak fairness of the worker (the operating system schedules
it), of the poll (a timer) and of a cancel request whose check has passed (a
handler runs to its end). Faults, crashes and the decision to cancel are never
forced. `HlsLoader`: weak fairness of the loader alone; nothing is asked of the
publisher. `MonitoringClient`: weak fairness of the poll timer and, for each
kind of call, of serving and answering it (every bridge call ends in a reply or
an error); nobody has to press a button and no worker has to advance.

The modules of `Access` and `Alerts` state safety only: what they promise in time
rests on a user, an operating system or a server that this code does not
control.

### Counterexamples

1. `CancelIgnored`: `process_discovered_slices` checks before each slice only,
   so a cancel accepted during the last slice ends in `completed`; the docstring
   of `cancel_session` promises `cancelled` or `failed`.
2. `CancelDuringConnect`: a cancel seen while `connect` resolves the playlist
   raises `StopIteration` inside a generator, which becomes a `RuntimeError` no
   handler catches. The session stays `running`.
3. `TerminalOverwritten`: when the progress write of a settlement fails inside
   the try block, the handler settles again from stale metadata, and `completed`
   or `cancelled` becomes `failed`. `TableHoldsUntilAFault` proves the other
   side: without a failed write no step leaves the table.
4. `FailedWithoutDetails`: the poll that returns `failed`, which is the last
   one, may carry the progress of the running session.
5. `StartedSessionHidden`: a second poll reply of a settled session, handled
   after the next session was started, hides that one and stops the polling.
6. `DuplicateCancel`: a terminal poll reply of another session clears `ending`
   while a cancel request is in flight. It takes a start whose first read fails,
   so that the abandoned session is still being polled.

Without an order of replies the hook also shows a settled session as running
again; `InOrderTerminalIsFinal` therefore assumes the order.

## Theorems

Eight modules hold proofs. Each states its invariant as a conjunction of named
parts, shows it inductive with one step per action, and lets temporal reasoning
do the rest; TLC found the formulas to hold on small instances first. The
constants are arbitrary up to the named assumption of the module proved about.

| Module | Assumption | What is proved |
| --- | --- | --- |
| `SessionLifecycleProofs` | `LifecycleAssumption`: bounds are naturals, switches Booleans | `TypeCorrect`; `ProgressNeverAhead`, `CompletedIsTrue`, `PayloadsAccepted`, `CancelIsPrompt`, `RowsAreFinal`, `TableHoldsUntilAFault`, `TerminalSnapshotsAreFinal`, `SnapshotsBackTheirProgress`; `ImplementsContract`: `Spec => Contract!Spec` |
| `HlsLoaderProofs` | `LoaderAssumption`: budgets and bounds are naturals, a window is not empty | `LoaderTypes`, `QueueConsistent`, `StreamTimeAdvances`, `NoFileIsForgotten`, `CancelIsNoticed`, `EndsDrained`; `LoaderIsLiveSource`: the loader implements `LiveSource` |
| `ApiBoundaryProofs` | `BudgetAssumption`: naturals, and the budget of starts is at most half that of control; `SubjectAssumption`; `EnvironmentAssumption`: the environments given are contents of the environment | of `RateLimits`: `BudgetsAreTyped`, `StartsLeaveRoomToCancel`; `BoundaryKeepsBudgets`: the boundary implements `RateLimits`, with it `BoundaryBudgetsAreTyped`, `BoundarySparesCancellation`; of the launch: `SummaryKeyOpensTheServer`, `ExposedServersAskForKeys`; with `IntakeAssumption` (lengths and bounds are naturals), of the intake: `SlicesTileEveryVideo` |
| `MonitoringClientProofs` | `ClientAssumption`: bounds are naturals | `ClientIsTyped`, `WhatIsShownHappened`, `SettledStaysSettled`; `BackendIsTheContract`: each session of the backend takes steps of `SessionContract` only |
| `PostgresStoresProofs` | `StoresAssumption`: bounds are naturals | `AcknowledgedWritesStay`, `SnapshotsAddUp`, `BackendsAgree` |
| `DesktopProofs` | `DesktopAssumption`, `ProxyAssumption`: bounds are naturals, a registry has room for an entry | `OneBackend`, `QuitLeavesNone`; `RegisterAllIsRepeated`, `RecentTokensAlwaysResolve`, `RegistryStaysBounded`; `NoStaleMedia` |
| `AlertProofs` | `AnalysisAssumption`, `RulesAssumption`: bounds are naturals, rows are numbers; `QueriesAssumption`: queries are typed | `AnalysisInvariant`, `MetricFilesBackTheLog`; `RulesInvariant`, `AlertsSeparated`, `NoSilentFault`; `QueriesInvariant`, `PagesOfALogJoinUp`, `SummariesFitThePages`; `AlertsStayShown` |
| `InductionLemmas` | none | `LeastNumber`, `SetInduction`: induction over numbers; `AscendingExists`, `AscendingUnique`, `AscendingGrows`: a finite set of numbers has one ascending enumeration, and a greater number goes to its end |

Why a strengthening is needed, and which:

- *SessionLifecycle*. `StatusInv` ties the durable status and progress to the
  worker's own copies by `pc`: which status may be on disk before, during and
  after a settlement, also when it is the second one. `WorkInv` ties the counts
  together: rows on disk plus rows of the bundle in hand, slices taken against
  slices known, and where the two may differ by one. `CancelInv` adds how far
  the worker may be past its check when the marker becomes durable. `SnapInv`
  relates what the reader has read so far to what is on disk now: the rows it
  will read next can only have grown, unless the session had settled when it
  read the metadata. `SettlesOnce` says that before the first fault the worker
  never stands before the metadata write of a second settlement; it needs the
  counts of `WorkInv`, because a payload that validation rejects would lead there
  too.
- *HlsLoader*. `ControlInv` says what is in hand at each place of a run: a fetch
  of a segment is one of the head of the queue, a slice is in hand while it is
  offered and used, a playlist is merged before anything else. `TimeInv` puts
  every start still to come, in the queue or in hand, behind the ones delivered.
  `EffectsInv` accounts for every file, makes every delivered segment a durable one,
  and counts the reads made after a cancel against the skips left. In the
  refinement every step is one of `LiveSource` or a stutter.
- *RateLimits*. A control window overlaps at most two guard windows, so starts
  fill at most twice their own budget of it. `GuardBounds` bounds the starts of
  the current control window by what the guard window has counted, according to
  whether that window began before the control window or inside it.
- *ApiBoundary*. Every charge is a charge of the limiter for the same caller;
  every refusal, launch and tick of the configuration is a stutter.
  For the launch, `LaunchInv` says what is cached at each phase: nothing before
  the summary, afterwards settings that were resolved from an environment the
  bind policy has seen, which ask for keys in share mode and accept the key
  printed, and that where keys are asked for nobody but a holder of one was
  served. A server that binds beyond loopback is in share mode.
- *MonitoringClient*. A status on the screen came in a reply, so every reply
  under way has to be real as well: an outcome it tells of is durable, a cancel
  it tells of is stored (`RealCall`). For the order of replies: those served come
  first in the queue (`ServedFirst`), a session is news until the reply to its
  start is handled (`StartIsNews`), and what was shown settled, or will be by a
  reply on its way, is confirmed by every reply behind it (`OutcomesAgree`).
- *PostgresStores*. A ledger: what is in the tables is what was acknowledged
  plus what a lost commit left in doubt, and progress never exceeds results. A
  pending statement belongs to the call under way. What a snapshot has read as
  progress is covered by the results that its last statement will read.
- *DesktopBackend*. While the application runs, a child that lives, or is dead
  and not yet reported, is the tracked one, and a start under way is the promised
  one and has no child tracked; after the stop only children that a start spawned
  late still run.
- *MediaProxy*. An entry has the time of its last use, and the registry no more
  than one entry above its limit. Pruning keeps the newest tokens, and a token
  minted within the last `MaxEntries` has fewer newer ones than that.
- *PlaybackSource*. Only the last run of the effect can still set the media, and
  its source is the one rendered.
- *SliceAnalysis*. Per worker and detector: the rows in the file or the buffer
  are those in the log or the bundle (`Backed`), every part is in slice order and
  each is before the next (`InOrder`), no row is of a slice to come (`Fresh`), and
  a buffer holds rows of its worker alone (`OwnRows`). Another worker's flush
  appends lines that are none of this one's.
- *AlertRules*. The rolling state is a function of the history: the black window
  holds the last rows from some row on, the first of them shortened to what
  `Share` gives of it, the blur window the last three samples, and a flag is up
  exactly while an alert stands (`Reported`), that is, no row since was clear.
  Between two alerts there is then a clear row (`Separate`), and a faulty row
  finds an alert that stands or raises one. The lemmas compare the sums over a
  trimmed window with the sums over the whole history, by induction over the
  length of either, stated of sets.
- *AlertQueries*. `QueriesInv`: while the clock was not set back the log is in
  the order of time and not ahead of the clock (`LogInv`); what was paged begins
  the items there are, where only the end of an incident may have moved
  (`PagedInv`); the last summary counts no fewer than were paged before it and no
  more than there are (`SummaryInv`). The lemmas follow one row through the
  read: it goes to the end of the kept places, of the filtered alerts, which the
  sort leaves as they are, and either starts the last group or extends it
  (`KeptGrows`, `OrderedStays`, `GroupStartsGrow`, `ItemsGrow`).
- *SourceIntake*. `IntakeInv`: no two files of the folder have the same time, so
  no file is listed twice or lost in sorting (`Distinct`). Flattened sequences
  stand one behind the other (`FlattenFacts`), and the windows of one video tile
  it up to the rounding of the last one (`WindowsTile`).
- *AlertReveal*. While reveals are kept, what is shown was revealed before, and
  nothing is shown before a reply.

Every invariant and every action property of the runs that pass is stated by a
theorem. Only model-checked is liveness (`EverySessionSettles`,
`LoopCancelHonoured`, `EveryRunEnds`, `ShownSessionIsFollowed`, `ButtonsRelease`),
which is out of the prover's reach.

## Not modelled

- The image algorithms of the detectors, the detector lab, the legacy batch
  pipeline, the scripts under `.github`: sequential computation on recorded
  material, with no state of the running system. A detector is a step that
  reports or fails; its measurements enter the alert rules quantised.
- Fake loaders: doubles of the live loader, which is modelled.
- Setup form, presenters, components: pure functions of a state that is.
- `session_cli` and the other command line tools (argument parsing around the
  service and the runner), the protocol server of the MCP adapter, the text of
  the alert report.
- The error envelope of the routes and the refusal of a snapshot above two
  megabytes (`src/api/routers/sessions.py:112`).

Two abstractions to know of: the store's records are atomic, so a torn line is
a missing row, and clocks are absent except where two times are compared, so
budgets of time are nondeterministic. `PROJECT.json` lists every part with its
status, and with each hazard that no property covers the reason.

## Divergences noted without a run

Met while modelling: visible in a single call, so that no run is needed to
reach them, or without a promise that the code breaks:

- `src/session_store_postgres.py:389`: with the PostgreSQL session store a
  snapshot carries no alerts (`alerts=[]`; `Seen` in `PostgresStores`), so the
  frontend, which shows those of its polls, shows none that the alert routes
  return. `docs/contracts.md:487` says "snapshot `alerts` follow the active
  alert-read backend".
- `src/session_alert_incidents.py:171` says an alert joins an incident when it
  is close to "the previous alert in that incident"; the code compares with the
  previous alert of any kind, so alerts of two titles that alternate make an
  incident each. `docs/contracts.md:1345` describes what the code does.
- `frontend/src/hooks/usePlaybackSource.ts:80`: `play` sets `playing` after its
  await, also when playback was stopped in between.
- `src/processor.py:169`: a file whose suffix no registration supports is
  processed by no detector, and its session completes.
- After a failed statement the PostgreSQL stores never roll back, so a long-lived
  API process fails every read from then on (`StatementFails`,
  `ConnectionRefuses`).
- A server started through uvicorn in share mode without a key generates one
  that nobody is shown (`ApiBoundary`).
- A backend whose start was under way when the application quit is left running
  (`late` in `DesktopBackend`); so is one that a request asks for between
  `before-quit` and the closing of the window (`frontend/electron/main.mjs:154`).
- `frontend/electron/hlsProxy.mjs:56`: the registry evicts in insertion order,
  which a fetch does not refresh, so more than `maxEntries` newer tokens evict one
  that is in use. `RecentTokensResolve` promises nothing beyond that number.

## Plan

Done: all of the parts above. Left, in this order:

1. `SessionStoreLog`: the JSONL logs as bytes: torn appends, a record glued to
   one, the size limit of a snapshot and the polls it turns into refusals.
2. A composition of `PostgresStores` with `SessionLifecycle`, so that a worker
   whose connection is lost settles, or does not, in the sense of
   `SessionContract`.
