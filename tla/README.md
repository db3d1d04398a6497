# vector-bench in TLA+

vector-bench measures vector search in several databases: it starts a server in a
container, loads a dataset, runs query clients against it, and writes what it
measured into a run directory from which reports are rendered. This directory
holds TLA+ models of the parts of it where the order of steps, or what one part
has left for another, decides whether a number may be believed; what TLC finds
about them on small instances; and what TLAPS proves about them for every value of
their constants.

Paths below are relative to the repository; `clients.py:569` is a line of it.

## 1. The system

| Component | State | Operations | Talks to | Modelled in |
|---|---|---|---|---|
| **Job supervisor** `webui/jobs.py`, `webui/control.py` | `_jobs` (records by id), `jobs.json`, the children it launched | `launch`, `stop`, a `_reap` thread per child, `_load` at start | request threads of the web server; the command line it forks | `JobStore` |
| **Web server** `webui/server.py`, `auth.py`, `api.py`, `setup.py`, `engines.py`, `profiles.py`, `importing.py`, `records.py` | connections, sessions, failed sign-ins, the `.yml` files, the run directories | sign-in and backoff, sign-out, setup, editors, import and labels of runs, browsing | browser; supervisor; files | `WebServer` |
| **Run loop** `orchestrator/cli.py` | `checkpoints.json`, `run-manifest.json`, the place in the loops | `cmd_run`, `_run_unit`, resume | ann pass, ops pass | `RunCheckpoints`, `OpsRun`, `RunDirectory` |
| **Manifest** `orchestrator/manifest.py`, `engine_plan.py` | phases, settings, what each pass resolved | `set_config`, `add_phase`, `record_engine_resolution` | written by the run loop, read by the report | `Manifest`, `RunDirectory` |
| **Ann pass** `orchestrator/ann_*.py` | rendered grid, the tree of result files that runs share | `run_engine` | the ann-benchmarks framework and its workers | `Grid`, `RecallReport`, `RunDirectory`, `RunCheckpoints` |
| **Ops pass** `orchestrator/ops_pass.py`, `docker_ctl.py` | two containers, a network, a volume and its directory | set up, `run_harness`, teardown | Docker; the harness in the container | `OpsRun`, `ProfileWindow` |
| **Planning** `orchestrator/config.py`, `harness/metrics/sysinfo.py` | none | which engines a run measures, and the CPUs, memory and threads each is given under a pass | profile, resource passes and host; manifest, containers | `Resources` |
| **Build selection** `orchestrator/*selection*.py`, `select_builds.py`, `reference_build.py` | the stored choice in the manifest | which builds a second stage, the report and the ops pass are about | run loop, report | `BuildChoice`, `OpsBuild` |
| **Harness** `harness/main.py`, `harness/workloads/` | the loaded table, the session, the records written so far | build, calibrate, concurrency, filtered, churn | drivers; client pool | `HarnessUnit`, `Churn`, `Spans` |
| **Client pool** `clients.py`, `client_process.py`, `transfer_deadline.py` | the clients, two flags, a barrier, a pipe per client, a watchdog | `start`, `stop` | workloads above; client processes that query the server | `ClientPool`, `MeasuredWindow` |
| **Datasets** `harness/datasets.py` | files of exact answers in a cache directory | filters, truths, recall | workloads | `Datasets`, `Drivers` |
| **Drivers** `harness/drivers/` | connections, what each remembers of its index | load, index, search, write, delete, settle, repair, waits | the database | `EngineCatalog`, `DriverState`, `MyVectorDriver`, `MongoDriver`, `ValkeyDriver`, `Waits`, `Drivers` |
| **Profile window** `profile_window.py`, `perf_window.py` | marker files | open, acknowledge, close | harness and orchestrator, across the container's boundary | `ProfileWindow` |
| **Report** `report/`, `webui/runs.py` | none | which records are the run's, its figures, its doubts | manifest, result files, records | `BuildFigures`, `OpsFigures`, `RecallReport`, `ReportSummary` |

The control flows down: the browser asks the supervisor, which forks
`run-benchmark.sh`, which runs the loop over phases and units, which starts a
container and the harness in it, which starts pools of clients. Facts flow up
through files: records to output files, result files to a tree that runs share,
output files and checkpoints to the run directory, the manifest to the report.

What is hard, and what correctness means:

* **Job supervisor.** Request threads, reaper threads and processes interleave;
  the lock covers single reads and updates only; the server may go down at any
  point while its children live on. Correct: *nothing runs beside a benchmark*, a
  record says only what its own process did, and every end is recorded.
* **Web server.** A thread per connection; connections that are kept alive; looks
  at files and sessions that are old when they are acted upon. Correct: a refusal
  can be read and its body is not taken for a request; guesses of the password are
  slowed down however many try at once; a session ends; a run directory is whole
  or not there.
* **Client pool.** Four kinds of process, two flags, a barrier that a stand-in
  arrives at, pipes that fill up, a timer that kills. Correct: a published window
  is whole; no client goes on querying the server that the next configuration
  measures; nothing is measured before the window opens; `start` and `stop` end,
  whatever hangs; a healthy pool is not refused.
* **Run loop.** Three kinds of file, each replaced whole or appended to, and a
  kill between any two writes. Correct: a checkpoint speaks only of what is
  measured and on the disk, the manifest agrees, and `--resume` neither loses nor
  repeats nor skips a measurement.
* **Run directory.** Several invocations with other engines, passes, budgets or
  grids accumulate into one manifest, and write into a tree other runs write into
  too. Correct: the report finds what the run measured and publishes nothing else;
  every operational cell is of one build; what is measured is measured under the
  budget on record.
* **A unit in the container.** Five workloads share one process and one session on
  the server; windows are refused, time budgets end, exceptions come. Correct:
  each record was measured at the settings it names, figures that are divided by
  each other are of the same queries, and a unit that says it is complete is.
* **Drivers.** Engines that index behind their writes, or not until they are told
  to; servers that restart; graphs of fixed capacity; a cache of exact answers
  that units share. Correct: recall is scored against the truth of the rows asked
  for, settled means settled, and waits that are reported happened.
* **Churn.** Rows are deleted and written back under new ids by several writers,
  while readers query and an index follows behind; writers, readers, budget and
  index fail independently. Correct: recall is only scored on a whole corpus that
  the id map describes, that the index holds, and that nobody else queries; a
  failed re-insert ends the workload cleanly and a failed reader does not.
* **Ops pass.** What docker holds outlives the process that asked for it, under
  names that other units use again; any docker call can fail or hang, Ctrl-C and
  kills come at any point. Correct: nothing is left of a unit, a unit measures its
  own server on its own data, and its records are of one attempt.
* **Profile window.** Harness and orchestrator share lines of output and a
  directory of files; answers come late, either side may end. Correct: a window
  said to be profiled is, from its start to its end; perf does not outlive the
  unit.
* **Report.** Files of several runs, passes, versions and builds lie beside each
  other, some of them incomplete. Correct: figures are never made of two things
  that do not belong together, and what is missing or doubtful is said to be.

`PROJECT.json` lists each component with its status, and the hazards at their
lines.

## 2. The modules

| Module | What it is |
|---|---|
| `JobStore` | the supervisor: state, one action per critical section of a request, properties |
| `WebServer` | the rest of the web interface, one action per step of a handler between two looks at shared state |
| `ClientPool` | `start`, `stop`, attendants, watchdog, clients; the pool's properties, its inductive invariant and the refinement mapping |
| `MeasuredWindow` | the abstract specification: what a pool promises its callers |
| `RunCheckpoints` | one run directory over several invocations: checkpoints, outputs, the log of phases |
| `RunDirectory` | the same directory seen by the report: manifest, tree of result files, builds, budgets |
| `Manifest`, `Grid`, `BuildChoice`, `OpsBuild` | the operators `RunDirectory` is built of: the manifest's methods; the grid of builds; the choice of a build and of the operational one |
| `Resources` | the division of a machine under a resource pass, and the engines of a run, as operators |
| `BuildFigures`, `OpsFigures`, `RecallReport`, `ReportSummary` | the report, as operators of the records, files and manifest it is given |
| `OpsRun` | server and client containers of each ops unit, over faults and invocations |
| `ProfileWindow` | the handshake of the profiled window, with perf |
| `Spans` | the trimming and merging of spans, percentiles, the concurrency of a window and the verdict on it |
| `HarnessUnit` | one unit in the container: the workloads in their order, with exceptions |
| `Churn` | the churn workload: table, index, id map, writers, with readers by `MeasuredWindow` |
| `Datasets`, `EngineCatalog`, `Waits` | operators of the drivers: filters and truths; what an engine declares, its statements and figures; server waits |
| `DriverState`, `MyVectorDriver`, `MongoDriver`, `ValkeyDriver`, `Drivers` | units of any engine against its server; the steps of the SQL engines are in `Drivers`, those of the other three in a module each |
| `MC*` | values of the constants for TLC; `MCDrivers`, `MCRunDirectory` and `MCHarnessUnit` also check operators against reference definitions over bounded inputs, as assumptions |
| `JobStoreProofs`, `RunCheckpointsProofs`, `HarnessUnitProofs`, `ChurnProofs`, `WebServerProofs`, `DriversProofs` | theorems about the module each is named after; `RunCheckpointsProofs` has those about `Resources` as well |
| `RunProofs`, `PoolAndWindowProofs` | theorems about `OpsRun` and about `RunDirectory`; about `ClientPool` and about `ProfileWindow` |

Definitions named `Operator_Word` next to an operator are mutated forms of it:
each is a plausible bug of that code, and each property of a passing run is
violated when one of them takes the operator's place. They show that the property
depends on the code.

### JobStore

`jobs` is `_jobs`, `disk` is `jobs.json`, `proc` the operating system's view of
the commands, `reaper` and `handler` the program counters of the threads with what
they have read. A request to launch is cut where it leaves the lock or makes a
system call that others can see: `CreateJob` (`create_job` asks `conflict_for`, to
answer 409 rather than 400), `LaunchConflict` (`launch` asks it again, for the last
time), `LaunchName` (the duplicate check and the id), `LaunchSpawn` (`Popen`),
`LaunchRecord` (insert and persist, then start the reaper). `stop` is `StopRead`,
`StopSignal`, `StopMark`. `_reap` is `ReapWait` and `ReapRecord`. `Restart` ends
every thread, leaves each child alive or not, and runs `_load` on what the disk
holds. With `WritesFail`, `_persist` may fail, and the code goes on with memory
ahead of the file.

A job's id is the second it is launched in (`jobs.py:331`). `clock` is that second:
each launch has it stay or go on, so jobs may share an id, and with it the record,
which the later launch replaces and either reaper closes. What is said of records
is said of jobs that have their id to themselves.

`prior` (of a launch and of the command it starts) is a history no guard reads: the
set of commands that had been filed when the launch last asked for conflicts.

`AloneUnlessRaced` is what the conflict check does give: what is in `prior` does not
run beside a benchmark. It leaves out the ways in which a command is not there to be
seen: two launches that both ask before either is filed; an id shared with a job of
the same second; a record that a restart did not find in `jobs.json`, because the
server went down before it was written or a write had failed. The first two happen
without any failure: the run `jobstore_overlap` shows the first, and section 3 has a
trace of the second.

Abstractions: a command line is one of a few specs; the exit code is zero or not;
a process that a stop has signalled exits when it likes, with either code. A pid
is never used again for another process, which on the real system takes the whole
range of pids; `_alive` would then take a stranger for the job.

### ClientPool

The harness thread is at `pool`, in its loops at client `who`. Each client process
has a state `child`, an `exit` status, and a `pipe` that holds nothing, the
warm-up report, a part of a payload (when the payload does not fit and nobody
reads), all of it, or its end. `att` is the attendant thread of a client, which
polls for the warm-up report and then stands in for the client at the barrier,
`error` the failure it leaves. `watchdog` is the timer of the transfer under way.

`start` is `Launch` per client, `StartAttendants`, `ParentArrive`, then either
`ParentReleased` and `SetGo`, or `ParentBarrierTimeout`, `BreakUp` and the reaping
of all. `stop` is `StopRead`, `SetHalt`, then for each client `AbsorbSkip`,
`AbsorbPoll`, `AbsorbTimeout`, `Receive`, `CancelWatchdog`, and `JoinClients`,
`Judge` and `JoinAttendants`. The watchdog's decision (`WatchdogFires`) and its
kill (`WatchdogKills`) are two steps, since the client moves in between. A client
warms up, sees the flag or gives up (`GoTimeout`), loops until `halt`, sends and
leaves; `Die` is a kill from outside.

Abstractions: spans are not modelled one by one. `whole` remembers that a client
ran its loop to the stop flag and sent all it had; it is a history variable that
no guard reads. Timeouts are nondeterministic: each may expire whenever its wait
is on, which allows more orders than the clock does. `JoinAttendants` has no
timeout in the model although the code's has one: the model shows that the join
ends without it. A fork that fails in `launch` ends the pool as `crashed`, of
which nothing is promised (the code raises the `OSError` and leaves the earlier
clients to their own limits; see the hazards).

`MeasuredWindow` is what `concurrency.py` and `churn.py` see: clients appear while
the pool warms up, spans are delivered once the window is open, and it ends
published (every client delivered, nobody at work), raised (nobody at work) or
crashed. The mapping is `PhaseOfPool` in `ClientPool`; `querying` maps to the
clients that live, `delivered` to those absorbed.

### RunCheckpoints

A phase is one (resource pass, engine, dataset, `ann` or `ops`) in the order the
loops of `cmd_run` visit them. An `ops` phase has units (M, build mode, storage
engine) with a file and a key each; an `ann` phase has a grid of definitions with a
result file each, and one key. `file` is `checkpoints.json`, `phases` the list in
`run-manifest.json`, `output` what the file of each unit and each definition is:
absent, partial (its writer was killed), failed (it was not, but failed) or
complete. The rest is the invocation: its place in the loops, the set it will skip
(`done`), its flags. Each write to the disk is an action; `Crash` may come between
any two, and in the middle of a measurement it leaves a partial file. `Begin` is the
next invocation on the same run directory, with or without `--resume` and
`--fail-fast`.

`RunAnn` is `run_engine`. A sweep keeps the results it finds and leaves any of the
others absent, half written or complete, since ann-benchmarks exits well whatever
its workers did (`Sweeps`). The phase is judged by the number of result files of its
engine and dataset, against the size of the rendered grid (`Counted`, `Passes`). In
that number can be up to `MaxOthers` files of other grids, and the size is 0 when
the config cannot be read back. `doubtful` is a history: the phases that passed a
count that could not tell, because another file or a partial one was in it or there
was nothing to count up to. `CheckpointIsMeasured` and `SuccessIsComplete` are asked
of an ann phase that is not doubtful: there a full count is the whole grid. Of the
doubtful ones it is false, as `PartialIsNotCheckpointed` shows.

A failed unit leaves its file absent, half written or even complete (the failure
can come after the measurement), so `MeasureBadly` chooses. Files replaced by
`os.replace` are replaced in one step. Left out: `--force` of the ann pass, phases
a profile disables (which are checkpointed with nothing measured), and two
invocations on one run directory at once: their checkpoints are read-modify-write,
and one can lose the other's keys.

### Churn

`pc` is the place in `churn.run`, `step` the fraction it is at. `table` maps an id
to the original row whose vector it holds, `indexed` is what the engine's index
holds, `behind` the changes between the two, which `Absorb` applies. `idMap`,
`churned`, `nextId` and `victims` are the code's `id_map`, `churned_so_far`,
`next_id` and `original_ids`; `records` is what the recorder was given.

One fraction is `BeginStep` (the choice of the rows), `BaselineEnds` (the first
pool of readers), `Delete`, `SyncDelete`, `StartReaders` and `ReadersStarted` (the
second pool, started but not stopped), the re-insert, `StopReaders` (the
`finally`), then `Incomplete` or `Reinserted`, and after that `SyncInsert`,
`ScoreBefore`, `Maintain`, `ScoreAfter`. In the re-insert each writer `Take`s a
slice off `pending`, inserts it or raises, and leaves when a failure, the budget
or the end of the list says so: `InsertRow`, `InsertRaises`, `BudgetEnds`,
`Leave`. With one writer there are no connections to open and no list, and the
same actions are `_reinsert`'s loop. An exception that nothing in `run` catches is
`Abort`; `cause` remembers whose it was.

The readers are a composition with `MeasuredWindow` (`Pool`), the contract that
`ClientPool` is proved to implement: the workload opens a window, waits for
`open`, and later finds it published or raised. So the churn model has every
behaviour of a pool and none of its clients' detail.

Abstractions. A slice is one row: up to 99 rows the code's slice is one too, and a
larger one adds an insert that commits in part, which is a slice that raised. The
index is behind by a sequence of changes; with `WaitsFor = "rows"` (valkey, whose
wait counts) it absorbs them in any order, with `"newest"` (mongot, whose wait
looks for one row) in the order of the commits, as a change stream does. Valkey's
wait looks at its mutation queue as well and ends early when the count stops
moving; the first is left out (its own comment calls it the weaker signal) and the
second is one of the ways a wait gives up. Engines that maintain their index on
the write path are the case in which `Absorb` is always taken at once. Recall
itself is not computed: scoring is a place, and the properties say what has to be
so when it is reached.

### OpsRun

`pc` is the place of the orchestrator in `_run_unit`, `OpsRun.__enter__`,
`run_harness` and `teardown`; `unit` and `attempt` are where the loops are, `exc`
the exception on its way up. `networks`, `volumes`, `server`, `client` and `data`
(the directory behind a volume) are docker's, kept by name, and nothing but docker
commands changes them: they are as they were when an invocation ends or is killed
and the next begins. Containers say which attempt made them; `out` holds the
attempts whose records are in each unit's file, and `done` is `checkpoints.json`
with the attempt that set the key.

`Begin` clears the output; `CreateNetwork`, `CreateVolume`, `FindImage`,
`ClearServer` (the `remove` in `start`), `StartServer` and `WaitHealthy` are
`__enter__`; `Prepare`, `ClearClient`, `StartClient` and the client's
`OpenOutput`, `WriteRecord` and `ClientExits` are `run_harness`; `SaveLog` is the
log capture of both; `StopServer` to `RemoveTree` are the six calls of `teardown`;
`Leave` is what `_run_unit` and `cmd_run` make of the outcome. `Fails` is a step
that raises, and `Handler` says who catches: the handler of `__enter__`, the
`finally` of `run_harness`, `__exit__`, or the loop. Each teardown call may be
refused (`check=False`: ignored, and the teardown goes on) or exceed its timeout
(`TimeoutExpired`: the rest of the teardown does not happen); `left` keeps the
names to which either has happened. `Interrupt` is Ctrl-C, at any step, also
during a teardown. `Kill` is a signal nothing handles, such as the SIGTERM of the
web interface's stop. `ServerDies` and a client that fails are always possible;
MaxFaults bounds interrupts, kills and failed teardown calls only.

Abstractions. A `docker run` that raises may have made the container, and one that
timed out may have started it. A client whose orchestrator is gone goes on until
its container ends or is removed; it writes to the file it has open, and a file
removed under it takes the records with it. It may also have yet to open that file,
since it loads its data set first: `late` is a history of the attempts whose client
opened its file when no harness was waiting for it. When the next invocation has
removed the file by then and made an attempt of its own, both append to the new
one. `RecordsAreOneAttempt` says that this is the only way a checkpoint comes to
speak for more than one attempt; that it is one, section 3 has the trace of.
`run_harness` has no limit on a client that hangs without output (the timeout of
`run_foreground` begins when the output ends), so nothing is said of a unit's end.

### ProfileWindow

`harness` and `w` are the place in the loop over windows of `concurrency.run` and
in `_profiled_window`; `output` is the harness's output not yet read, marks only;
`acks` the files in the acknowledgement directory; `reader` the thread in
`run_foreground` with the `ProfileWatcher` as its filter; `sampling` and `folding`
what perf does on the machine. `PrintBegin`, `SeeAck` and `AckTimeout` are
`ProfileWindow.begin`; `LeaveWindow` prints the end mark in the `finally`.
`ReadMark` is the watcher's `__call__`, `StartPerf` `PerfWindow.start`,
`CreateAck` and `FillAck` the open and the write of `_ack`, `StopPerf` and `Fold`
`PerfWindow.stop`. `NextUnit` begins the next unit with a watcher of its own; what
the last one left in the directory or running is still there.

Abstractions: of a window, whether it is published or profiled and whether it
raised; of time, that the reader may be slower than the harness waits (`silent`).
A token is the unit and the window, since the code's is random.

The model also shows what the handshake does not give. The end mark is not
acknowledged, so perf can still be sampling, and then folding its samples on the
measured machine, when the next published window opens, although
`profile_window.py:5-8` keeps the profiled window apart because such load is one
"the published windows must not carry". What comes next in the shipped order is
the discarded warm-up window of the next client count, or another workload, and it
takes most of that load. `PublishedLoadIsEnding` is what holds: the load is that
of a perf whose end mark has been printed. A harness that gave up after 30 s
writes that "no perf profile covers this window" (`concurrency.py:579-581`), and
perf may start just after and cover it. An acknowledgement read between its
creation and its write is empty, and the record then has no word on perf.

### WebServer

`conn` is each connection's handler thread with the request it handles, what of
the body is unread, and the answer; `failures` and `sessions` are `Auth`'s (all
clients come from one address, the worst case for the backoff); `config` and
`temporary` are the `.yml` files and the `.tmp` files they are replaced by; `runs`
is `results/`, `staging` the import directories. `Receive` to `Admit` are `do_GET`
and its like up to the handler: host and origin, control, sign-in. The rest is a
handler cut between its looks at shared state: `LoginBegins`, `LoginFails`,
`LoginClears` and `LoginSucceeds` are the steps of `login`, each with the lock
taken anew; `PutText`, `WriteTemporary` and `ReplaceText` those of an editor;
`ImportChecked`, `ExtractMember` and `RenameImport` those of an import.
`ReadGarbage` is what follows a refusal whose body was left in place;
`BenchmarkBegins` a run that starts meanwhile; `Restart` loses sessions and
counters and leaves the files.

Abstractions: a body is 0, at most `DrainLimit`, or more, and a text one of a few
with the choices a validation looks at. A password is right or not.

### HarnessUnit and Spans

`pc` is the place in `main` and in the workload it has called; `session` what the
driver's connection was set to last, `open` what the process holds, `extra` what
the recorder stamps on every record, `ef` and `calibration` what `main` passes on.
`Recreate` to `RecordBuild` are `build.run`, `CalibratePoint` to `SelectPoint`
`calibrate.run`, `BeginConcurrency` to `EndLevels` `concurrency.run` with
`BeginCapture` and `FinishCapture` around each window, `BeginFiltered` to
`EndFiltered` `filtered.run` with its clock, `RunChurn` the workload that `Churn`
has in detail. `Raise` is an exception anywhere in `main`'s `try`, with the
`finally` blocks on its way.

A window is the spans its clients' collectors hold; `Spans` trims, merges and
judges them as `latency.py` and `scaling.py` do, with quotients as pairs of
integers, so that the equations between figures are exact. Abstractions: recall is
a whole percentage drawn from a small set; the near-pass split of recall, the
histograms and the numbers of records are left out.

### Datasets, EngineCatalog, Waits and Drivers

`unit` is the ops unit under way, one of `plan`; `srv` the server: its table, the
rows in its vector index, and what a refresh would still find; `drv` what each
driver object remembers: batch size, capacity and element counts, the newest row,
the notes of the waits. `cache`, `tmp` are the directory of exact answers. The
driver modules have the steps each engine's driver makes: the SQL engines index
inside the statement (`SqlNext` of `Drivers`); MyVector builds, refreshes and
refuses rows its graph has no room for; mongot follows and is asked for one row;
valkey-search follows through a queue, is asked for a count, and its writes stall
and are retried down a ladder of sizes. `Drivers` has what all do: the load by
threads, the filters and their truths, the scored searches, the wait counters around
a window, the churn steps with their writers, and the repair. `IndexFollows` is the
server, and takes any row it has yet to see in any order.

`EngineCatalog` is the rest of the drivers as operators: registry, dialects, DDL,
queries, the check of a plan, sizes and status counters. `Datasets` works on a
line, where a vector is an integer. Abstractions: an engine's search is exact over
its index, or misses what it likes; a stalled write reached the server whole or
not at all; Valkey's checks for evicted keys are left out.

### RunDirectory and what it is built of

`proc` is an invocation in memory: its manifest, its checkpoints as read, the
units ahead. `disk` is the manifest as saved last, the checkpoints and the ops
records; `tree` the result files under `annb/<pass>/<fingerprint>/`, each with the
time it was written. `Start`, `Preflight`, `Resolve`, `Configure` are `cmd_run` up
to its loops; `BeginAnn`, `MeasureBuild`, `EndAnn` an ann phase that writes a file
per build; `BeginOps` with `ensure_selection`, `ClearOpsUnit`, `MeasureOpsUnit`
and `EndOps` an ops phase; `KillRun` comes anywhere; `OthersMeasure` is another run.
The steps are one save of the manifest each, as `Manifest` makes them.

An ann phase that exits well has come through its grid, but may have lost builds of
it on the way: `EndAnn` completes it when there are as many files of its engine and
corpus as its grid has builds, whichever they are (`Enough`), and a file of another
run is one of them. `attempts` is a history of the ann phases: their grid, what they
found at their end, what they did write (`wrote`), and what other runs wrote into
their directory meanwhile (`beside`), which `others` tells. `RecallIsFound` is asked
of the whole grid where nothing but the grid was in the count, and otherwise, also
of a phase that failed, of what there was. `PublishedIsOwn` asks who wrote the file,
and not what `PhaseFiles` says of it; it leaves out what came `beside`, which the
report does publish (section 3).

A report is not a step: `Report` is what `generate` would say of the disk at that
moment, and the properties look at it between two invocations. It goes through
`RecallReport` (which trees are opened, which files are attributed to the run, how
the records are split by provenance) on top of `OpsFigures` and `BuildFigures`.
`ReportSummary` is the rest of `generate.summarize` and is checked by assumptions.

Abstractions: one corpus in the runs; recall in thousandths drawn from two
qualities; the framework's containers are a phase that wrote some of its files, and
whole ones (half written ones, and a config that cannot be read back, are in
`RunCheckpoints`). `work/ann-benchmarks`, with the config rendered into it, is
shared by all runs of a checkout (`cli.py:132`): another run here writes results and
does not replace the config under a phase. Layout, tables and charts are left out
but for the condition under which a chart is drawn.

### Resources

`resolve_resources` is cut into its decisions. The CPUs are known by their places
in the pool that `RecommendedCpuset` chooses, so `ServerCpus` and `ClientCpus` are
two intervals; `CpusRefused` is the `ValueError` that ends a run before it starts.
Memory is counted in MB (the code counts bytes) and fractions in hundredths.
`AppliedFigures`, `MongotHeapGb` and `WiredtigerCache` are what of the result
reaches a server. `EnginesOfRun` and `RunRefused` are the first lines of `cmd_run`.
`RunDirectory` takes the budget of an engine as an input and does not use this
module.

## 3. What TLC checks

| Run | Bounds | Result | Shows |
|---|---|---|---|
| `jobstore_threads` | 2 commands, 2 seconds; either 2 handlers, or 1 with failing writes, commands that do not start and 1 restart; fairness | holds | nothing runs beside a benchmark that could be seen when it was asked (`AloneUnlessRaced`); what the table says is so (`RecordsAreTrue`); the end of a job is recorded (`EndIsRecorded`) |
| `jobstore_overlap` | 2 handlers, 2 commands, 2 seconds, 1 restart | violated | nothing runs beside a benchmark, without condition (`MeasurementAlone`) |
| `webserver_threads` | 2 connections, 3 requests of 27, clock of 2, 1 restart | holds | a refusal is readable (`RefusalsAreRead`); guesses are slowed (`GuessesAreSlowed`); a session ends (`SessionsEnd`); a run directory stays whole (`RunsStayWhole`) |
| `clientpool_faults` | 2 clients, one with a big payload, all faults or none, fairness | holds | a published window is whole (`PublishedIsWhole`) and measured inside (`MeasuredInsideWindow`); the pool implements `MeasuredWindow`, so that no client outlives it (`IsMeasuredWindow`); `start` and `stop` end (`PoolEnds`); without faults the window is published, since absorbing before joining avoids the deadlock on full pipes (`HealthyPublishes`) |
| `runcheckpoints_resume` | 3 phases (ann with two definitions; one refused; ops of two), 1 other file, 3 invocations, later ones resume | holds | checkpoints, files and manifest agree, and resume loses nothing (`CheckpointIsMeasured`, `SuccessIsComplete`, `CheckpointIsReported`, `ResumeKeepsResults`), ann phases as far as a count tells |
| `runcheckpoints_partial` | the same, 2 invocations | violated | a partial sweep is not checkpointed (`PartialIsNotCheckpointed`) |
| `rundirectory_resumes` | 8 plans of 2 or 3 invocations, 1 corpus, 1 or 2 engines, grids of 1 or 2 builds, 1 foreign file | holds | the report finds what was completed (`RecallIsFound`) and publishes nothing of other runs but what came beside a phase (`PublishedIsOwn`); one build per cell (`OneBuildPerCell`); one budget per engine and pass (`MeasuredUnderRecordedBudget`); 30 assumptions about planning and report |
| `opsrun_faults` | 3 units in 2 phases, two of them with the same container names; 2 invocations; 2 interrupts, kills or failed teardown calls | holds | a finished teardown leaves nothing (`NothingLeft`); a unit meets its own server and client on fresh data (`OwnFreshPair`); a checkpoint speaks for one attempt's records, and those of clients that opened their file late (`RecordsAreOneAttempt`) |
| `profilewindow_units` | 2 units of 3 windows, the middle one profiled, all faults, fairness | holds | perf covers the window that says so and ends with the unit (`ProfileIsItsWindow`, `PerfIsStopped`), and reaches a published window only on its way out (`PublishedLoadIsEnding`) |
| `harnessunit_faults` | 5 command lines, 2 kinds of engine, 3 client counts, 4 grid points, 2 repeats, exceptions anywhere | holds | ending the sweep early changes no choice (`EarlyStopIsSound`); records were measured as they say (`MeasuredAsDeclared`); windows are of one set of spans and turns are not published as concurrency (`WindowsAreSound`); the warm-up leaves a query (`BudgetLeavesAQuery`); a unit ends clean, and well only when complete (`UnitEndsWhole`); 4 assumptions about spans |
| `churn_faults` | 3 rows, fractions that churn two, none, one; 2 writers, 1 reader, a counted index, all faults, fairness | holds | recall is scored on a whole (`ScoredCorpusIsWhole`), indexed (`ScoredIsIndexed`) and quiet (`NobodyIsLeft`) server; ids, counts and records are right however the re-insert ends (`WritesAreKept`); the workload ends (`WorkloadEnds`) |
| `drivers_units` | 4 rows, 2 queries, 23 churning units of 6 engines, 16 pairs of 3 engines that share the cache, 2 faults | holds | an exact answer scores one (`ExactIsScoredOne`); settled is settled (`SettledIsWhole`); a graph is never outgrown (`GraphFits`); waits happened (`WaitsHappened`); 16 assumptions about drivers, datasets and waits |

**Bounds.** Two handlers are enough for any race of two requests, and the code has
no step whose guard counts more. Two commands are the least that can run beside
each other. Two seconds let ids be shared or not. Requests at once are explored on a
disk that works and a server that stays up; failing writes, commands that do not start
and the restart with one request at a time (`mode` in `MCJobStore`, chosen at the
start): the theorems of section 4 have all of it together, for any numbers.

In `WebServer`, three requests are a wrong and a right sign-in with a third beside
them, or two imports and a run that begins. `BackoffAfter = 1`, `BackoffBase = 1`
and `BackoffMax = 2` stand for the code's 3, 2 s and 300 s: the first failure is
the one that slows down, and the doubling meets its cap. `Idle = Absolute = 1`
lets a session be used past the one and within the other. The requests name each
path once, with the texts its checks tell apart.

Two clients give the loops of `stop` a first and a last, and one client of each
pipe size; the safety properties also hold with three, and the theorems cover any
number.

Three invocations let a resumed run be interrupted and resumed again; the three
phases are the three kinds. Two definitions and one other file are the least with
which a count is full and the grid is not. `RunDirectory`'s plans are those in which
something accumulates or is decided again: a second pass, a forced repeat, a grid
that grows or shrinks between two attempts, another budget, an added engine, another
machine. Each invocation may be killed at any step. The foreign file is written
where the run's own tree is, except in the plan that measures everything twice, which
has no other run beside it.

Two of the three ops units have the same name and different phases, as the same
build on two datasets does; the third shares the first one's phase, so a failure
skips it. Two faults let a kill be followed by a failing teardown, and two
invocations let the next one meet what is left. Two units in `ProfileWindow` let a
late answer, or a perf nobody stopped, meet the next unit's window.

In `HarnessUnit`, clients 1 and 3 are the least for which turns and concurrency
differ, and 8 exceed the query pool, so the level is skipped. Four grid points let
a target be reached, lost and confirmed. A client's collector holds one of four
sets of spans, before, inside and across both ends of the window. Costs of 4 and 9
against a budget of 10 make one query of the warm-up cross its share, or spend
nearly all.

Three rows in `Churn` let one fraction churn more than one row, so that two
writers have a row each, and the next fraction churn a row of those that are left;
the fraction between them is one the code skips. Four rows in `Drivers` let both
filters cut them differently, a unit take a subset, and two churn steps outgrow a
graph whose margin (`CapacityMargin`, 1,000 in the code) is 1. Batches and slices
are 1 or 2 rows, so that a step has several.

The assumptions are quantified over all inputs of a small set: grids of up to
three values per axis, sequences of up to three or four records, files or
snapshots. Each fails when the operator it is about is changed as a bug would.

Deadlock is not checked because every one of these systems may stop: the last
command has ended, the pool is over, the run is finished and the bound on further
ones is reached.

**Type invariants.** Those of `JobStore`, `ClientPool`, `RunCheckpoints`, `OpsRun`,
`ProfileWindow`, `HarnessUnit`, `Churn` and `WebServer` are proved (section 4).

**Symmetry** is used in `webserver_threads` for the connections, which nothing tells
apart; clients and phases are ordered by the loops over them, and a run that checks
liveness has none.

**Fairness.** In `JobStore`, weak fairness of each reaper, a runnable thread of a
Python process. A command may take for ever, a request may be as slow as it likes
and nobody has to ask for anything, so none of these has fairness. In `ClientPool`,
the harness thread, the attendants and the watchdog are threads whose every wait has
a time limit, so they have weak fairness and so have the limits. A behaviour is with
faults or without (`faults`, chosen at the start): with them a client has no
fairness and may hang for ever; without, it does its work, which is what
`HealthyPublishes` is about. In `Churn` the workload's thread, the writers and the
readers have it: a call of the driver returns or raises, and that `start` and `stop`
end is what `PoolEnds` shows. In `ProfileWindow` the harness and the reader have it:
each wait of theirs has a limit (30 s for the answer, `PERF_STOP_TIMEOUT_S` for
perf, 600 s for `perf script`) and the windows end as pools do; the end of a harness
that has no window left is fair, its death before that is not. `Absorb` has none:
the index may never catch up, and the waits' own time limits end them.

**Where documents and code differ.** Two runs are violated because of a sentence
that the code does not keep; `PROJECT.json` quotes each under `findings`.

* `jobstore_overlap`. `launch` asks `conflict_for` and records the job in another
  critical section (`jobs.py:317`, 364): two requests at once both find nothing
  active, and a setup job runs beside a benchmark, against `jobs.py:8` "NOTHING RUNS
  ALONGSIDE A BENCHMARK." (`docs/08-web-ui.md:238-243` says it too).
* `runcheckpoints_partial`. `run_engine` counts the files of an engine and dataset
  in a tree that other grids write into (`ann_pass.py:722`, 864-873), so one of
  theirs stands for a definition whose worker died; and it counts up to nothing when
  the config cannot be read back. The phase is then checkpointed, against
  `ann_pass.py:705` "A PARTIAL SWEEP IS NOT A COMPLETE ONE".

What else the models show that a document, a comment or a name promises otherwise,
without a run of its own:

* *Job supervisor.* Two setup jobs of one second share an id (`jobs.py:331`), the
  later record replaces the earlier, and `conflict_for` no longer sees the earlier
  command when the later has ended: a benchmark then runs beside it, though no two
  requests overlapped. The reaper of the first also closes the record of the second,
  and both write one log. `stop` signals before it marks the record
  (`jobs.py:410-417`), so the reaper can record as `failed` a job that was stopped,
  against `jobs.py:386-388`; the mark then leaves it at `stopping`, since nothing
  closes it any more (`MarkedOver`).
* *Web server.* `_body_consumed` (`server.py:113-147`) is never set back on a
  connection that is kept alive, so only the first body of a connection is
  drained: `RefusalsAreRead` is asked of that one. Two PUTs of different engines
  can both pass the collision check of `engines.py:171`, and two of one name share
  a `.tmp` file (`engines.py:282`).
* *Run loop.* Without `--resume` an invocation leaves `checkpoints.json` alone
  (`cli.py:682`): a unit recorded earlier is cleared and measured again, and when
  that fails its old key stays and the next `--resume` skips it, against
  `docs/02-running-with-framework.md:327-328`. The properties of `RunCheckpoints`
  hold for later invocations that resume (`AlwaysResume`).
* *Planning.* When a pinned number of client CPUs does not fit, the warning says
  "server and client will share cores" (`config.py:371-376`), but the two are then
  scaled down to sets that are apart on any pool of two CPUs or more
  (`config.py:377-378`; `CpusAreApart`): only on a pool of one do they share.
  mongot's heap is "never more than half the container" (`config.py:530`) until
  `server_env` floors it at 1 GB (`config.py:844`): under 2 GB it is more
  (`FlagsFitTheBudget` is asked from 2 GB).
* *Run directory.* What changes in the shared directory between two looks is listed
  as written by the phase (`ann_provenance.py:123`), so a file another run writes
  meanwhile is published as this run's, against `ann_provenance.py:13-15`;
  `PublishedIsOwn` leaves those out (`beside`). `cmd_run` describes this machine in
  the manifest (`set_host`, `cli.py:573`) before `_accumulate_passes` compares it
  with "the host on record" (`manifest.py:434`), so the comparison never differs: a
  pass that a resume on another machine adds is recorded with a fingerprint, against
  `manifest.py:149-150`, and `measured_on` names the new host too. A resume that
  adds an engine after the knobs of a pass have changed records recall into a tree
  with a new fingerprint, while `passes` keeps the first: the report does not have
  it (hence the condition of `RecallIsFound`). The label "measured" of a build
  compares paths and never times. `report_inputs` (`webui/runs.py:126-176`) looks at
  the one pass in `resource_pass` only. `measured_datasets` (`scope.py:223`) reads
  the profile's data sets and not the resolved ones. A failed ops unit's records of
  an M chosen earlier stay and are loaded. A run begun in reference mode stores no
  selection, so a resume in frontier mode is not refused.
* *Pool.* The three refusals of `stop` raise before `_join_attendants`, so an
  attendant can be alive when the next pool forks (`clients.py:732`).
* *Churn.* After a re-insert by several writers mongot is asked for `max(new_ids)`
  (`churn.py:521`), which is the highest id and not the row written last: the
  index can have it while another row is still to come, against the comment above
  it (`churn.py:517-518`). `ScoredIsIndexed` is checked with an index that is
  asked for a count. The second pool of readers is started outside the `try` that
  catches `PoolError`, so readers that do not come up end the workload and not
  only their record (`churn_readers.py:550-551`). `churn_writes.py:131-135` lists
  what a writer's driver must hand back; MyVector's `_pending`, `_capacity` and
  `_expected_elements` are not in it, so with several loader threads its refresh
  finds more rows than it counted and raises (`myvector.py:527`), and the capacity
  check of a writer refuses nothing (`GraphFits` is asked of one thread).
* *Scan modes.* `docs/05-methodology.md:843-848` says "every record names which
  one produced it"; that is so of the filtered records it speaks of, while churn,
  measured on the session `filtered` has left in its last mode, names none.
* *Drivers.* Valkey searches with at least k as its width (`valkey.py:1109`) but
  is not among the drivers `base.py:625-657` says do so (`WidthIsWhatIsSaid`).
  `_assert_nothing_failed_to_index` (`valkey.py:450`) has no caller. A wait for
  deletes that timed out is forgotten when the wait for the inserts ends well
  (`valkey.py:733`). Two processes that build one cache file share its `.tmp`
  (`datasets.py:554,1040,1109`).
* *Ops pass.* A client whose orchestrator was killed before it had opened its file
  opens it after the next invocation has removed it (`cli.py:1547`), and the records
  of two attempts are in the file of a unit that is checkpointed, against
  `cli.py:1546` "A unit is atomic, so its output starts empty.";
  `RecordsAreOneAttempt` leaves those clients out (`late`). Nothing handles the
  SIGTERM of the web interface's stop, and `cmd_run` does not look for containers
  that run already, so what a killed invocation leaves runs beside a later one's
  measurement, against `docker_ctl.py:7-9` (`docker_ctl.py:967`).
* *Profile window.* The two at the end of its section above.

## 4. What is proved

TLAPS checks the following for every value of the constants that satisfies the named
assumption of the module (`JobStoreAssumption`, `PoolAssumption`, `RunAssumption`,
`OpsAssumption`, `ProfileAssumption`, `UnitAssumption`, `ChurnAssumption`,
`RunDirectoryAssumption`, `DriversAssumption`, `WebAssumption` with
`RequestAssumption` and `FilesAssumption`). Those say of the constants their types
only, and that there is a client, a writer, a row, a unit, a repeat and a filtered
point to speak of, finitely many connections, a wait that is not zero.
`DriversAssumption` also says that batches, slices and numbers of threads are not
zero, that a plan's engines are in the registry, and that Valkey's index can be
built after a load: its configuration does not deny it
(`config/engines/valkey.yml`), and what is not denied is allowed (`cli.py:1266`).
`PROJECT.json` lists the theorems that state a result; what they rest on is beside
them.

None of the properties is inductive. What is proved by induction is, in each module,
an invariant that says what the place of each actor implies about the state the
others see. TLC checked each of these invariants on the instance of its run before
it was proved.

**JobStoreProofs.** `JobStoreTypeCorrect`, `JobRecordsAreTrue` and
`JobAloneUnlessRaced`, each with any number of requests at once, failing writes,
restarts, and launches that share a second. `StoreInv` carries `RecordHolds` (what a
record says of its process) for memory and file at once, because a restart makes the
file the memory; `HandlersHold`, by which a launch holds a command nobody has filed;
and `ReapersHold`, by which the record a reaper is to close is of the id its command
was launched under. That the record then names that command follows if the id is its
own. `AloneInv` adds that what a launch found filed was not in the way *and is still
on record where it has an id of its own* (`LaunchesHold`), that memory has what the
file has (`FileIsBehind`), and that a server that never went down has every command
on record or about to be (`StartedIsKnown`).

**RunProofs, of OpsRun.** `OpsTypeCorrect`, `OpsNothingLeft`, `OpsOwnFreshPair`,
`OpsRecordsAreOneAttempt`. `TornDown` says what is already gone at each step of the
teardown, of a name no failed call has touched; `FreshInv` that a setup on such a
name meets no used directory; `PairInv` that the containers are the attempt's.
`RecordsInv` says that each unit has one attempt whose records are in its file *or
can still get there*, through a client somebody left behind, and that those of any
other are `late`. A phase that is skipped after a failure ends somewhere:
`NextPhaseComes` needs the least unit of another phase.

**RunProofs, of RunDirectory.** `BudgetOnRecord` and `ResolutionStands`, for any
plans of invocations, from `RunInv`. It says that every engine the log names has a
resolution under its pass (`LogInv`), and that a process and the file always agree
on the resolutions. The property is about what *was* measured, so the invariant
speaks of what is still to come: a pair is `Settled` when its resolution is on
record and either allows what this invocation asks, or leaves no unit of the pair to
do. `ResolveInv` says that while the plan is made every pair is settled, is among
the entries still to be recorded, or the plan is refused; `LoopInv` that in the
loops every pair and unit ahead is settled, and that what is being measured is not
done. That recording one pair's resolution leaves those of the others is
`RecordingKeeps`, since a lookup takes the first entry (`RecordedIsFirst`) and
entries are only appended. From the same invariant no step changes a resolution on
record, kills included (`ResolutionStands`). `RunDirectoryAssumption` says that an
invocation's engines, passes, corpora and phases are lists, that no resolution is
the value that stands for none, and that the run has a name.

**PoolAndWindowProofs, of ProfileWindow.** `ProfileTypeCorrect`, `ProfileIsOfItsWindow`,
`ProfileLoadIsEnding`. `PipeInv` says that the marks not yet read are in the order the
windows were, and which one the reader meets next; `ReaderInv` and `PerfInv` which
window perf is open for and that it samples no other of this unit; `AckInv` that an
answer that says `recording` is about the window it names and stays true while that
window lasts. What an earlier unit left in the directory names a smaller unit.

**HarnessUnitProofs.** `TypeCorrect`, `EndsWhole`, `MeasuredAsSaid`, `LeavesAQuery`
and `StopsSoundly`, all from `UnitInv`. Its parts say, by the place of the unit: how
far it has failed (`Failing`), what is open (`OpenAt`), what was asked of it and what
its recorder stamps (`Asked`), what the sweep has shown (`Swept`), at which
ef_search, mode and table the session answers (`Answering`), what the clock of a
filtered point has seen (`Clocked`), that every record so far is of what it names
(`Declared`), and how many records of each workload there are (`Counted`): of a
workload that is over, all of them. The counts are cardinalities of sets of places in
the list of records; the filtered ones are a product of modes and points that grows
by one. `LeavesAQuery` is arithmetic on the clock: the warm-up ends within a fifth of
the budget plus one query. `StopsSoundly` needs three facts of operators: the grid is
its set in ascending order (`GridIsAscending`, by the number of values that are not
larger), the modes are a list (`DistinctIsAList`, by the least place where the
recursion fails), and points that agree as far as two that confirm the target choose
the same (`MorePointsChooseTheSame`).

**ChurnProofs.** `ChurnTypeCorrect`, `ChurnScoresTheCorpus`, `ChurnKeepsWrites`,
`ChurnLeavesNobody`, and with `WaitsFor = "rows"` `ChurnScoresTheIndex`.
`MapInv` says that the id map is one to one and that the rows not yet churned leave
room for their new ids (`Cardinality(Live) + Base = 2 * N + 1`: without this
equation the ids could run out, and type correctness is not inductive).
`VictimsInv` says that a step's rows are distinct and live; `TableInv` what the table
is at each place (the corpus, the corpus without the victims, or with those of them
that were written back under their new ids); `WritersInv` that each slice is one
writer's and unwritten; `CountInv` that the count is at most the number of rows that
arrived and that no writer is still at. From a complete count follows a whole table
since victims and new ids are equally many. `LastInv`, `PoolInv` and `HeldInv` are
what records, readers and connections add. `IndexInv` says that while no wait has
given up, the changes the index is behind by are exactly what it and the table
differ in, and that at each wait they are of one kind, all deletes or all inserts:
this is why a wait for the *number* of rows is enough. With `"newest"` (mongot) a
wait asks for one row, and the theorem claims nothing.

**DriversProofs.** `UnitKnowsServer` (`DriversInv`), and from it `ScoredWhole` and
`NeverOverfull`; `WaitsAreOfWindow` from an invariant of its own. `SettledIsWhole`
speaks of two places; why it holds there goes back to the load. `LoadHolds` says
that a row is in the table or ahead of one of the threads, so the table is all of
the rows when the threads are done. `ChurnHolds` says of each place of a step which
rows the table has and how many; while writers are at work, that every new id is in
the table or in a slice that waits or that a writer has not finished (`WritesHold`,
`Underway`), so the last one is there when all have ended well. `ValkeyHolds` says
that while every wait has ended on its count, the index has what the table has *or
is behind it in one direction only*: more before a wait for deletes is over, less
before a wait for inserts is. An index of which that is so has the table's rows as
soon as it has their number (`SameSize`), and this is why a count may be trusted
although the queue reads empty too early. It claims nothing once a wait gave up.
`GraphHolds` says that every live row is in MyVector's graph or noted for the next
refresh, and with one thread that the driver's own count of elements and of pending
rows bounds the graph's (`Capacitated`). `MongoHolds` says that the row mongot was
asked for, once it is seen to be there or gone, stays so. That a sorted list, cut
into slices, loses no row is `Slices`; it needs the least and the greatest of a set,
by `WFMin` (`LeastNatural`, `Greatest`).

`WindowHolds` says that what the counter shows, after any resets, is at most what it
showed at the first reading and what was counted since. A delta refuses a counter that
went backwards, and of one that did not, the difference was counted in the window
(`DeltaHappened`), for every engine's way to read and to wrap its counters
(`ReadingOf`, `NoReading`, `WaitsAreDelta`). The server of the model counts one event.

**WebServerProofs.** `WebTypeCorrect`, `WebRefusalsAreRead`, `WebSessionsEnd`,
`WebRunsStayWhole` and `WebGuessesAreSlowed`. `BodyHolds` says when the flag that a
body was read is right: for the first request of a connection that has a body, and
until then nothing is unread. `AuthHolds` says that a session that is remembered is
as old as its sign-in and nobody ended it; then whoever `Admit` lets in has one.
`FilesHold` says that what an import has unpacked is the beginning of its own
archive, so that what is renamed at its end is all of it. `GuessesHold` is what the
bound on wrong passwords needs: whoever was let through and has not heard yet is
counted as one who will fail (`Trying`), and once there is a wait the failures so
far are those of the waits before the one that runs. That a wait is at least the
shortest, whatever its exponent, is `DelayBounds`.

**PoolAndWindowProofs, of ClientPool.** `Types` (the type invariant), `Invariance`
(`PoolInv`), and from these `PublishedWindowsAreWhole`, `NobodyOutlivesAPool` and
`MeasuredQueriesAreInside`. The properties are not inductive: that a published
window is whole depends on what `stop` had established about each client before it
judged, which depends on what a full pipe says of the client that filled it, which
depends on the flags and the barrier. `PoolInv` says these four things in four
parts: `BarrierInv` (where the barrier and the flags stand for each place of the
harness thread), `ReportInv` (what is known of a report), `LoopInv` (what the loops
have settled for the clients behind `who`) and `ReapInv` (which clients are gone).
There is one lemma per part, and in each a step per action.

`PoolIsAMeasuredWindow` is the refinement: the pool implements
`MeasuredWindow`. Each action maps to one step of the abstract specification or to
a stutter; `PoolInv` is needed for `Publish`, whose guard asks of every client
what the harness thread only knows of the last one it looked at.

**RunCheckpointsProofs.** `Types` and `Invariance` (`RunInv`) hold of any use.
Under `AlwaysResume` (each invocation after the first resumes), also
`CheckpointsAreMeasured`, `CheckpointsAreReported`, `SuccessesAreComplete` and the
action property `ResumesKeepResults`. `RunInv` says where in the loops an
invocation can be (`PlaceInv`), and under `AlwaysResume` that its set of keys and
the file agree on what is ahead (`SkipInv`), that the units behind it in a phase
are measured unless one has failed (`ProgressInv`), the same of the phases behind
it (`BehindInv`), and that the manifest's last entry is the phase being
checkpointed (`KeepInv`). Of an ann phase these say that it is measured unless it is
doubtful (`Sound`). Why it is then is `CountIsEnough`: a count of nothing but whole
results of the grid, which reaches its size, has found all of it. The assumption is
needed: without it a run id used again keeps the checkpoint of a unit whose new
attempt fails.

**RunCheckpointsProofs, of Resources.** No state and no induction: five facts of
every pass, host and sweep. `CpusAreApart` and `AutoIsEnough` rest on
`SharesAreCounts` (the two shares fit into a pool of two CPUs or more),
`ServerFitsTheHost` on `ShareIsPart`, `ShmHoldsTheSegment` on `WholeGbIsNear` (the
rounding to whole GB costs half of one and the margin is one). A pass is assumed to
have natural numbers for its settings.

**Only model-checked.** Liveness (`EndIsRecorded`, `PoolEnds`, `HealthyPublishes`,
`WorkloadEnds`, `PerfIsStopped`): fairness and ENABLED are beyond the prover. The
operators of `Spans`, `Datasets`, `Grid` and the report fold over sequences, and
what a fold computes for every input needs an induction theorem that takes an
operator, which the installed provers cannot instantiate: bounded inputs only.
(Where an induction can be said as "take the least", as for `NextPhaseComes`,
`WFMin` of the library does it.) `WindowsAreSound` of `HarnessUnit` is about such
folds over sorted spans; so are `RecallIsFound` and `PublishedIsOwn` of
`RunDirectory`, over the report's files. `OneBuildPerCell` depends on what a profile
declares and is checked for the plans of its run. `ExactIsScoredOne` of `Drivers` is
about recall, truths and sorted answers, all of them folds or recursion over data.

## 5. Not modelled, and the plan

* **Layout.** `report/render.py`, `charts.py`, `frontier_render.py`,
  `provenance_render.py`, `disclosures.py`: what a page looks like. The decisions
  they make about records (which chart is drawn and why not) are in
  `ReportSummary`.
* **Arithmetic of planning.** `estimate.py`, `memory_fit.py`, the bootstrap intervals of
  `stats.py`, the samplers of `resources.py`: formulas over real numbers without
  state.
* **External programs.** The overlay of ann-benchmarks, Dockerfiles and shell
  scripts; the SQL text and client libraries; the arguments of containers.
* **Commands beside a run.** `export.py`, the lab commands, `estimate`; the pages
  in the browser.

The plan has no module left without a theorem, apart from the operators of the
report, the grid and the datasets, which need induction over data. What could be
added is more than one event in the counters of `Drivers`, and the refinement of
`Churn`'s waits by those of `Drivers`. Two hazards of the supervisor have no
property: two first requests that each make a `JobStore`, and a pid that after a
restart is another process's.
