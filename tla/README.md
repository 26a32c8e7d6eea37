# Specifications of the agentic app builder

TLA+ specifications of the server in `src/dev_agent` and of the sandbox
service in `src/sandbox_service`, the TLC configurations that check them on small
instances, and TLAPS proofs that hold for every instance.  Paths below are
relative to the repository.

Contents: [the system](#the-system) · [modules](#the-modules) ·
[runs](#what-the-runs-check) · [fairness](#fairness) ·
[proofs](#what-is-proved) · [disagreements](#where-the-code-disagrees-with-itself) ·
[not modelled](#what-is-not-modelled) · [plan](#plan)

## The system

A FastAPI process turns an idea into an application.  `POST /generate` starts a
planner agent; the user approves the plan; a developer–tester loop and a
reviewer produce the files; the user previews, edits, iterates on, rolls back
and downloads them.  Everything of the application runs on one asyncio event
loop; PostgreSQL keeps what must survive a restart; previews are subprocesses,
of the application itself or of a separate sandbox service.

| Part | State it keeps | Operations | What is hard about it | What makes it correct |
|---|---|---|---|---|
| Session lifecycle (`main.py`) | `_session_states`, `_session_backends`, `_session_histories`; rows of `sessions` and `versions` | generate, approve-plan, iterate, chat, files, checkout, restore, delete; the tasks `_run_pipeline_task`, `_run_build_task`, `_run_iterate_task` | handlers and tasks interleave at every `await` and share dicts by reference; the process dies with half of the state in the database | one pipeline at a time, nobody sees its dict as finished; no session is stuck as running; what is done survives a restart; what is deleted stays deleted |
| Pipelines (`pipeline/*`, `agents/*`) | the agent at work, `iteration`, `test_report`, attempts of the model call | planner, developer, designer, tester, reviewer; `retry_llm_call`; `_route_after_tester` | two implementations of one loop; bounds; retries; a timeout racing the answer; leftovers of the last run | delivered files were tested in this run, but for the reviewer's changes; rounds are spent exactly as promised; the run ends |
| Version store (`versioning/store.py`) | table `versions` | `create_version`, `get_next_version_number`, `checkout_version` | statements of concurrent transactions, row locks held while others are awaited, no uniqueness constraint | an append-only log: unique numbers without gaps, one current version |
| Preview server (`sandbox/preview_server.py`) | used ports, processes, directories, modes | start, stop, restart after an edit, shutdown | an old process still answers on a port already given away; failures half way; calls of one session overlap | a port has one holder; what is registered exists; a start reports its own server |
| Test runs (`sandbox/*_runner.py`, `gateway.py`, `sandbox_service/app.py`) | the runner's thread, the service's queue and future, the NDJSON answer | run tests, stream their terminal lines, report | a thread, an event loop and a connection that breaks, each at its own pace; a time limit at every level | a failure is never a pass; every line arrives before the verdict; every run has a verdict |
| Remote previews (`gateway.py`, `main.py`, `sandbox_service/app.py`) | `_remote_active`, the service's own tables | start, stop, restart after an edit or a rollback, proxy | two processes with a view of each other; late and lost requests | a preview shown as active is there, and shows the session's files |
| Event stream (`main.py`, `sandbox/base.py`, `static/js/app.js`) | one asyncio queue per run, the connections | put, SSE consumer | a replaced queue, runs that overlap, two consumers, puts from worker threads | every terminal event reaches the reader |
| Memories, provider keys (`memory/memory_store.py`, `db/keys_store.py`) | tables `memories`, `provider_keys` | look up, then insert or update; count reads; delete | others commit between the SELECT and the flush | one row per key, holding what was stored last |
| Chat (`chat.py`) | table `messages` | answer, and perhaps iterate | awaits between a check and an action | one pipeline at a time |
| Browser (`static/js/app.js`) | phase, SSE connection | buttons and events | answers after the user moved on | the page shows the session it names |

How they interact.  A handler creates a background task and answers; the task
calls a back end, which runs the agents, which put events on the session's queue
for the SSE consumer and call the gateway to run tests.  When the back end
returns, the task replaces the session's dict, updates its row and stores a
version.  Handlers of the same session meanwhile read and write the same dict.
An edit or a rollback also restarts an active preview through the gateway; an
iteration stops it first.

`PROJECT.json` lists every component with its status, and every hazard at its
line with the properties that cover it.

## The modules

### SessionLifecycle — `main.py`

One session, any number of clients.  asyncio runs one piece of Python at a
time, so an action is what a handler or a task does from one suspension point
to the next.  A suspended handler is a record in `calls` (what it holds in
local variables), a background task a record in `runs`.

| State | Code |
|---|---|
| `mem` | `_session_states[session_id]`: which dict, or `None` |
| `heap` | the fields `status`, plan present, `files` of every dict; LangGraph returns a new dict, CrewAI the one it was given, and handlers keep references, so the identity matters |
| `backend`, `history` | `_session_backends`, `_session_histories` |
| `row`, `versions`, `current` | the session's rows in `sessions` and `versions` (its snapshots as a set, and the current one) |
| `runs` | `asyncio.create_task(...)`: working (in the back end), persisting, committing, telling |
| `known`, `past` | history variables: the id was answered; remarkable events so far |

Every operation that changes the session is there: `Generate`,
`GenerateInserted` (`POST /generate`), `ApprovePlan`, `Iterate` …
`IterateKeyRead`, `Chat` … `ChatStopped`, `UpdateFiles`, `Checkout`,
`CheckoutApplied`, `CheckoutInMemory`, `Restore` … `RestoreInstalled`,
`Delete`, `DeletePopped`; and of the tasks `PlanReady`, `RunFailed`, `RunLost`,
`CrewWritesFiles`, `RunReturned`, `Prepare`, `Commit`, `PersistFailed`, `Tell`.
`Restart` kills the process at any point and leaves only the database.

Abstractions: file contents are model values; a plan is present or not; version
numbers are VersionHistory's; the agents at work are AgentLoop's.  `Recorded`
says which events `past` keeps: an event no checked property mentions only
multiplies states.  Database errors are taken where the code catches them and
goes on; an error that only turns into a 500 changes nothing.

### SessionContract — `main.py`

What whoever asks for a session's status is promised, in three variables: the
status shown, the pipeline at work, whether the session was deleted.  A
pipeline starts only where none works and the status invites it, and every end
of one is shown.  The one exception is named: the pipeline of a deleted session
ends unseen, or brings the session back with its result (`Return`).
SessionLifecycle implements it: the status is read from the dict in memory, and a
handler on its way to create a task counts as the task.  The contract holds where
pipelines do not overlap; with racing clients and a sandbox service the code
breaks it (`session_race`).

### VersionLog, VersionHistory — `versioning/store.py`

`VersionLog` is the promise: a sequence of file sets that only grows, and a
current version.  `VersionHistory` is the table under READ COMMITTED: a writer
(the build, an iteration, a rollback) counts (`Count`:
`get_next_version_number`), starts its UPDATE, which sees the rows committed by
then (`Mark`), locks them one after the other in any order, waiting for a row
another transaction holds while it keeps those it has (`Lock`), has them all
(`Marked`), and inserts and commits (`Commit`).  So writers may come to wait for
each other in a circle, which PostgreSQL detects and breaks by failing one of
them (`BreakCircle`).  `Abort` is any failure in between; it rolls back and gives
up the locks, because every session is opened with `async with`.  The build
stores number 1 without counting, as `main.py` does.  That `delete_session`
removes the rows is left to SessionLifecycle.  Rows are kept in the order
of their commits.  `CurrentNumber` is what `restore_session` shows,
`FilesByNumber` what `get_version` returns; they are the refinement mapping.

### BuildCycle, AgentLoop — `pipeline/graph.py`, `pipeline/crew_backend.py`, `agents/*`

`BuildCycle` is what a run promises whichever back end executes it.
`AgentLoop` is both back ends: the chain of agents, `iteration` and
`test_report` as they survive from run to run, the attempts of every model call
(`Retry`, `Attempts`, `GivesUp`), the exceptions that end a run (`Fail`) and the
analysis that falls back on the sandbox report (`FallBack`).  The two stages of
the tester are two steps: an exception of the first fails the run, one of the
second falls back, unless the model's answer is empty (`tester.py:85`), which
fails the run too.  The history variable `untested` says whose changes to the
files the sandbox has not run: the developer's and the designer's before the
tests, the reviewer's after them.  What a model answers is a free choice.

### PreviewServer — `sandbox/preview_server.py`

| State | Code |
|---|---|
| `reg` | `_allocated_ports`, `_active_pids`, `_preview_dirs`, `_build_roots`, `_preview_mode` of each session |
| `call` | the calls of `start_preview` in flight: building, spawning, binding (`_wait_for_port`), smoking (`_smoke_check`) |
| `proc` | spawned processes: booting, serving, dying (SIGTERM sent), dead |
| `disk`, `made` | temporary directories; a process is named by its directory |

`Start` and `Restart` are `start_preview` up to its first await (with
`allocate_port`), `Built` … `Fail` the rest of it, `Stop` is `stop_preview`,
`Shutdown` is `cleanup_all`.  `Bind` and `Exit` belong to the processes: two
cannot listen on one port, one that finds its port taken dies, one that was
terminated may answer a little longer.  The calls for a session in `Serialized`
follow each other, as those of a client that waits for its answers do; the calls
for the others overlap freely.  Which of the three kinds of preview the files
need is a free choice.

### RemotePreview — `sandbox/gateway.py` with `SANDBOX_URL`, `sandbox_service/app.py`

The same previews seen from the application when the service has them.  The
service serves a set of files or none (`served`; how is PreviewServer's), the
gateway remembers whether it does (`active`, `_remote_active`), the handlers of
`main.py` wait for one request at a time (`call`, `requests`).
`PreviewStart`, `PreviewStop`, `UpdateFiles`, `Checkout` and `Iterate` are the
handlers up to their first await; `StopReturns` and `StartReturns` what follows
each answer, with the gateway's handling of errors.  The service may refuse, or
register a preview and give it up; requests get lost (`Lose`), are handled after
their time limit (`TimeOut`), and either side restarts.

`overlapped` and `trusted` are history variables: what the two sides agree on
depends on what happened since they last agreed for certain, which is after a
stop that nothing else overlapped and that the service carried out (`Heals`).

### TestRun — `sandbox/*_runner.py`, `sandbox_service/app.py`, `sandbox/gateway.py`

One test run.  `CheckStatic` … `TestsCannotRun` are the three runners, branch by
branch, with the lines they emit; the report is reduced to whether it has a
critical bug, which is what `_route_after_tester` asks.  `NoticeReturn` …
`Disconnect` are the service's generator, whose look into the queue and look at
the future are two steps only for the thread: the loop runs no callback between
them.  `Call` … `RunnerReturns` are the gateway.  `Init` has every kind of
project, so no combination of features and runtime is left out.

### EventStream — `main.py`, `sandbox/base.py`

The queues of a session's runs, oldest first, and the connections of
`GET /stream`.  What the session is (`status`, `plan`) is kept as far as it
decides who creates a queue and what is put; the pipelines themselves are
SessionLifecycle's, here one task for each queue.  `call` holds the handlers that
await something: an iteration checks the status (`Iterate`), awaits the stop of
the preview, and only then creates its queue and starts its run
(`IterateStopped`), so several may pass the check at once and their runs overlap;
likewise a chat (`Chat`, `ChatIterates`, `ChatReplied`) and a restore (`Restore`,
`RestoreInstalled`).  Whether the dict such a handler holds is still the session's
is left open (`Outdated`).  asyncio's
`Queue.get` is taken apart: a connection that finds the queue empty
(`FindEmpty`) registers as a waiter (`Register`) without giving up the loop, so
only a worker thread, whose `put_nowait` respects no loop (`ThreadNote`), can get
in between; its event then wakes nobody.  `Cancel` passes a wake-up on to the
next waiter, as asyncio does.

### KeyedRows — `memory/memory_store.py`, `db/keys_store.py`, `main.py`

The tables with one row per key, all stored by the same select-then-write.
`Constrained` are the keys of the tables that have a unique constraint.
`Lookup` is the SELECT, `Insert` and `Update` the flush with its commit: a row
lock keeps the two together.  An update writes only the columns that changed
since they were loaded, which is why a value equal to the one loaded does not
overwrite another's (`Written`; encrypting gives a new ciphertext every time).
`GetRelevant` and `CountReads` are the read of memories for a prompt, which
writes their counters back.  Rows deleted since the SELECT make the flush raise
(`Gone`).  In `get_chat_response` that exception is caught, but it leaves the
database session unusable, so the chat that only meant to read fails later.

### The other files

`MC*.tla` add only the symmetry sets; `*Proofs.tla` hold the theorems.
Operators marked "Mutant" are faulty variants of the definition they precede:
putting one in place of that definition makes TLC report the property it is
paired with in `PROJECT.json`.

## What the runs check

| Run (configuration) | Instance | Shows |
|---|---|---|
| `session_serial` (`MCSessionSerial`) | 1 client, 2 tasks, 3 dicts, 2 file sets of which one is empty, both back ends, restarts, database errors | `ImplementsContract` (what clients see keeps SessionContract), `RunOwnsSession`, `DoneIsDurable`: with one request in flight at a time, whatever follows whatever |
| `session_concurrent` (`MCSessionConcurrent`) | 2 clients, sandbox service, restarts | `NoWedge`, `NoSilentDeath`, `BuildOnce`: what is left when requests interleave at every await and pipelines do overlap |
| `session_live` (`MCSessionLive`) | 2 clients, no restarts, fair | `OneRun`, `DoneMeansBuilt`, `RunningEnds`, `EveryCallAnswered`: with the sandbox in the same process a check and its mark are one step, and clients may race; done means a pipeline has returned |
| `event_stream` (`MCEventStream`) | 2 handlers, 1 connection, 3 queues, no progress events | `NoDeafStream`, `EndIsFinal`: also when runs overlap, nobody listens in vain and no queue holds an end while its run works |
| `event_stream_live` (`MCEventStreamLive`) | 1 handler, 2 connections, 2 queues, 1 buffered event, fair | `SleeperIsWoken`, `AnyStreamEnds` (`StreamEnds` for one connection, which may be any): connections that compete, sleep through a thread's event and are woken |
| `versions_concurrent` (`MCVersionsConcurrent`) | 3 writers, 3 versions, fair | `LastIsCurrent`, `NoGaps`, `AppendOnly`, `WritersEnd`: transactions interleaved statement by statement and lock by lock; until two overlap, `ImplementsLog` (the table implements VersionLog, where a number names one entry) and `OneCurrentAlone` |
| `agent_loop` (`MCAgentLoop`) | both back ends, `max_iterations` 1 to 5, run after run, fair | `Delivery`, `FeedbackIsFresh`, `ImplementsCycle`, `RunEnds` |
| `test_run` (`MCTestRun`) | every project and runtime, with and without the service, `IdleLimit` 120, fair | `NoFalsePass`, `LinesBeforeVerdict`, `FailuresAreReports`, `TestsEnd` |
| `preview` (`MCPreview`) | 3 sessions of which 2 are serialized, 2 calls, 2 ports, 3 directories, fair | `ServerHasItsPort` and `StartRegistered` of the serialized sessions, whatever the third does; `PortsDistinct`, `ServedDirExists`, `StartEnds` of all |
| `remote_preview` (`MCRemotePreview`) | 2 calls, 2 file sets, 1 late request, faults and restarts of both sides, fair | `GatewayAgrees`, `PageIsCurrent`, `CallsEnd`, and no deadlock |
| `keyed_rows` (`MCKeyedRows`) | 2 handlers, a key of each kind, 2 values, 3 rows, 2 reads | `LatestIsStored`, `OneRowPerKey`, `ReadsAreCounted` |
| `session_race` (`MCSessionRace`) | 2 clients, sandbox service | a counterexample to `OneRun`, [below](#where-the-code-disagrees-with-itself) |

Why the bounds are enough.  Two clients are what a race between a check and a
use takes, and a third party is there anyway, the background tasks.  A third
task could only be started by a third client or after one of the two has ended.
A dict is collected when nothing refers to it, so three identities serve for the
session, a task and a handler to hold three different ones; when a fourth is
wanted the step waits until one is free.  Two file sets tell an old from a new
one, and one of them is the empty set, which an edit may store and a developer may
return; where no checked property compares contents the empty one is enough.  Three
writers give a waiter behind a waiter; two committed rows (the third version is
the one being written) let two of them each hold a row the other wants.  File sets
would multiply those states; `MCVersionsSerial`, a configuration beside the runs, checks
`ImplementsLog` and `OneCurrent` with one writer, 2 file sets and 5 versions.  Five is
the largest `max_iterations` a request may ask for, so that run is not an
approximation.  With three sessions on two
ports the range runs out while another port comes free; `MaxDirs` bounds how
many previews are ever started, and 3 let a session start, fail or stop,
and start again while another holds a port.

A connection holds on to one queue and a newer one replaces it: two queues
(`MaxQueues`), and a third for two iterations that start after the same check,
which take two handlers.  Two connections compete for one event, or wait one
behind the other; that is the second configuration, because both at once are too
many states.  `MaxBuffer` is a guard on progress events only, so no outcome is ever
held back: with 1 a connection can miss one, and the first configuration, about
what is never told at all, does without them.
TestRun is bounded by nothing: a run has at most four lines.  `IdleLimit` is the
120 s the gateway waits, between the 60 s of an installation and the 180 s of a
front-end build; the theorems take any value.  Two calls of RemotePreview make
every overlap of two handlers, and one late request (`MaxLate`) meets a newer
one of the same session.  Three row ids (`Ids`) let a key lose its row and get
another while the other key has one, and two handlers can both find nothing and
insert; two reads (`MaxReads`) overlap, or follow one another.  The theorems
below do not depend on any of these numbers.

The type invariants are in no configuration: the first theorem of each proof
module is `Spec => []TypeOK`.

Symmetry is used in runs without liveness, over identities the specifications
only compare: clients, tasks, dicts, file sets but the empty one, handlers, values, row ids.
`CHECK_DEADLOCK FALSE` is set where the system may come to rest: clients
owe nothing, a deleted session has no more requests, a server that shut down
takes none, a test run ends, and the bounded counters of versions, directories,
queues, row ids and reads run out.  AgentLoop and RemotePreview never rest, so
their runs check deadlock.

## Fairness

Each `FairSpec` asks only for what the scheduling of the code guarantees.

- SessionLifecycle: `WF` of every resumption of a handler and every step of a
  task, taken together, so which outcome comes (success, error, another wait)
  stays free.  The event loop resumes whatever has been awaited, and every
  awaited operation ends: HTTP calls and tests have timeouts in the code, model
  calls those of their client library, and a database statement waits for a row
  lock at most, which `WritersEnd` shows is released.  Nothing is assumed of clients, and
  `CrewWritesFiles`, which the back end may skip, is not in it.
- VersionHistory: `WF` of every writer's next statement or, when it waits in a
  circle, of the failure PostgreSQL's deadlock detector sends one of them; `SF` of
  a lock being granted, because the transactions waiting for a row are served in
  the order they came.  That a failed writer gives up its locks is the code's.
- AgentLoop: `WF` of the agents' steps together: model calls, sandbox runs and
  back-off sleeps end.
- PreviewServer: `WF` of each call's steps: builds have a limit, the poll for
  the port gives up after 20 s, the smoke check has a timeout.  The processes
  are not assumed to bind or to exit.
- RemotePreview: `WF` of the service's work on a call's request and of a
  handler's return: `TimeOut` and `Lose` are not needed for `CallsEnd`, because
  the service answers; that no lost answer hangs a handler is what they add.
- TestRun: `WF` of the runner, of the service and of the gateway: every command
  has a time limit.  `SF` of `NoticeReturn`: the loop runs its callbacks while
  the generator sleeps, but the generator's polls disable it again and again.
- EventStream: `SF` of the outcome of each run and of each connection's turn.
  Both are disabled, over and over, by whichever connection is between finding
  its queue empty and registering, and asyncio serves its ready callbacks in
  turn.  Nothing is assumed of progress events, threads and clients.

## What is proved

All theorems are of `Spec`, for every value of the constants that satisfies
the module's assumption: `ConstantsAssumption` (the back ends are the two
there are; `None` is none of the values it stands apart from; `Empty` may be one of
the file sets),
`RowAssumption` (`None`, a missing row, is no row),
`VersionsAssumption`, `LoopAssumption`, `PreviewAssumption` (bounds are
naturals, `NoSession` is no session, `None` is no call and no files),
`RowsAssumption`, `TestRunAssumption`, `StreamAssumption`.

**SessionLifecycleProofs.**  `TypeCorrect`: `TypeOK` is not inductive, because
a handler or a task that resumes writes to the dict it held all along; `RefInv` adds that
whoever is under way holds a dict, and a row where it will need one.
`NeverWedged`: `NoWedge` with these is inductive, for any number of clients: the
status becomes running only together with a task or a handler that will create
one for the same dict, and a task leaves only by setting another status.
`OneRunAtATime` and `RunOwnsItsSession` are implications from
`Serial` (any two clients are the same): `SerialInv` says what each handler
read before it was suspended and still relies on — while it stops the preview
nobody works, while it asks the model the dict is still the session's or not
done, while it restores nobody works, while it deletes the row is gone — and
that a task works without a dict in memory only if the row is gone too, which
is what keeps a restore from putting a second dict beside it.

For any number of clients again, `OnceInv` says that before `POST /generate` has
answered there is nothing but its handler, that there is one planner task and it
has ended when the plan waits for approval, and that nobody works on, or is about
to start work on, a session missing from memory unless it was deleted: hence
`SilenceMeansDeleted` and `OneBuild`.  `BuiltInv` is about who marks a dict done:
only a task that returns, which adds its result to the history, and a restore; and
without a restart a session missing from memory has no row to restore.  Hence
`DoneIsBuilt`: done means that a pipeline has returned.  It says nothing about the
number of files, because an edit or a build may well leave none.

`OneRunLocally` trades the hypothesis: any number of clients, but the sandbox in
the same process and no restart (`Local`; `session_race` is why the first is
needed, and after a restart two restores can put a dict beside a pipeline's).
`LocalInv` then says that nobody is suspended between a check and its mark
(`Prompt`), that whoever is about to start a task (`LocalCall`), or works, does so
for the dict in memory, running, unless the session was deleted, and is the only
one (`LocalTask`), and that a dict with another status is the only such
dict, known to clients, with nobody at work (`LocalDict`).

`ContractKept` is the refinement of SessionContract, for `Serial` or `Local`.
There are too many actions to map one by one against three abstract variables,
so the proof goes through shapes: each action is first shown, once and without
any hypothesis on the clients, to move the session in one of ten ways
(`NextShape`: `Unmoved`, `Generated`, `Started`, `HandedOver`, `Ended`,
`EndedUnseen`, `Returned`, `Installed`, `Popped`, `Restarted`).  `Fit` collects
what the mapping relies on (one pipeline, it works for what is shown, a session
missing under a pipeline was deleted); both invariants imply it (`SerialFit`,
`LocalFit`), and `StepContract` takes each shape to a step of the contract.  The
history variable must record deletions, since `gone` is read from it.

`DeletionIsFinal` holds for one client, or for any number as long as the process
lives; with restarts and several clients, a restore that has read the row
outlives a delete.  In the contract the same promise is part of `Restore` and
`Generate`; the theorem keeps it where the contract as a whole fails, with clients
that race and a sandbox service.  `DoneSurvives` is for one client at a time; with several, two
pipelines persist over each other.  `DeletionIsFinal` needs `Deleted` (after a
delete the row is gone and no restore is half way) or, with several clients, that
nothing but a restart makes a session restorable.  `DoneSurvives` needs seven
parts at once, and only while the
past has no failed write, delete or overlap (`Undisturbed => Parts`): tasks do
not overlap (`Alone`), what is persisted is the session's dict (`Held`), a
session has its row (`Rowed`), the current version is what memory has unless
somebody under way is about to make it so or an edit was not saved (`Saved`), a
version about to be committed is a snapshot of the dict (`Snapped`), the row has
the plan once the build that stores it is over (`Planned`), and what a handler
read is what is there (`Reads`).  `Tracked` asks that the history variable records
the five events these refer to.

**VersionHistoryProofs.**  `TypeCorrect`, `NewestIsCurrent` and
`NumbersHaveNoGaps` for any number of writers; the strengthening `CountedTo(k)`
says that the numbers stored are 1 to k and that a writer that has counted holds
one of 1 to k + 1.  `HistoryIsAppendOnly` from the shape of an UPDATE that can
only take marks away.  The history variable `overlapped` records that a
writer began while another was at work; until then `SerialInv` holds: whoever is at
work is the only one (`Alone`), row i has number i, only the last is current, the
writer has counted the whole table.  It gives `OneIsCurrent`, `NumbersAreUnique` and
`StoreImplementsLog`, for any number of writers: the refinement mapping takes Commit
of a build or an iteration to a new entry, Commit of a rollback to a copy, every
other step to a stutter.

**AgentLoopProofs.**  `IInv` ties the counter the code decides on to the rounds
of this run (`Counted`), says why a round is begun (`Started`), what a round
under test and a review may rely on (`InRound`, `Tested`) and that nothing is
reported before the first round (`Untested`).  From it `TypeCorrect`,
`DeliversTested` (what is delivered has been run in the sandbox in this run's last
round but for the reviewer's changes, which are made after the tests),
`FeedbackOfThisRun` and `LoopImplementsCycle`, the last step
by step with retries, design and sandbox runs as stutters.

**PreviewServerProofs.**  `SlotsAreDistinct` and `ServedIsOnDisk`: no port
has two holders and what is served exists, however calls overlap.
`ServedDirExists` needs `Owned`: a directory's name belongs to one session's
registration or to one call that has not registered it, else a stop could remove
another session's files.  `ServersHavePorts` and `StartsKeepRegistration` hold
of every serialized session, from `SInv`: one call of it, a process implies the
port it was spawned for, mode server implies a process, a spawning call still has
the session's port, a waiting one still has its registration.  `PortsAreExclusive`
(no two servers for one port) needs every session to be serialized.

**RemotePreviewProofs.**  `IInv` says which requests a handler can have under
way (`Fits`), that a handler without company has the only one (`Lone`), that
nothing is active while a request may still change what is served (`Apart`),
that what is served to an active preview is current (`Current`), and what both
sides know when nothing made them disagree (`Trusted`).  `ShownIsCurrent` and
`SidesAgree` follow, for any number of handlers and late requests.

**TestRunProofs.**  `Progress` ties the stages of the three actors, `Reported`
says which lines and exit codes go with which result, `InOrder` that what was
emitted is, in order, what was shown, what is on the wire and what is queued.
`SuccessIsReal` and `LinesArrive` hold for every project and limit;
`FailuresReturn` assumes `IdleLimit >= 60`, the longest command of a project
without a front-end build, which is what the constant 120 of `gateway.py` is
for.

**EventStreamProofs.**  For any number of handlers, connections, queues and
overlapping runs.  `Runs` says that a run that is alive has not told its end;
`First` that the planner and the plan that waits for approval come before any
iteration; `Away` that a session missing without a deletion has neither queue nor
run; `AllFed` that a queue with a reader still gets its last event; `Awake` that a
single reader that sleeps beside an event has a run to wake it; `Room` and
`Counted` keep the books of queues and connections.  `NobodyListensInVain`,
`SleepersAreWoken` and `EndsAreFinal` follow.

**KeyedRowsProofs.**  `StoredAndLatest`, `KeysAreUnique` and `CountsAreExact`
for any number of handlers, keys and rows: what a handler found is a row that
existed, was deleted since, or still is there with the same key, and no count
read exceeds the reads acknowledged.

Only model-checked: the liveness properties (`RunningEnds`,
`EveryCallAnswered`, `WritersEnd`, `RunEnds`, `StartEnds`, `AnyStreamEnds`,
`TestsEnd`, `CallsEnd`), which are beyond the proof system, as is `ENABLED`.
Every safety property and every refinement a passing run checks is proved.

## Where the code disagrees with itself

One run is expected to find a counterexample; it checks a sentence of the
repository.  `session_race`: with `SANDBOX_URL` set, `iterate` awaits
`preview_stop` between its status check and the status change (`main.py:540`), so
two requests start two pipelines, which `main.py:541` ("Pipeline still running —
wait for completion") means to exclude.

Further configurations reproduce what else the modules found, one property
each (`tlc -config <configuration>.cfg` with the MC module of the same
component):

| Configuration | Property | What happens |
|---|---|---|
| `MCSessionNeverBuilt` | `DoneMeansBuilt` | a session whose server was killed while it was planned, awaited approval or was built is restored as done (`main.py:328`) and can be downloaded, empty, where `main.py:482` says "Pipeline not complete yet" |
| `MCSessionZombie` | `DeletedIsGone` | `main.py:763` says "Delete a session and its related data.", but a pipeline that returns after the deletion puts the session back into memory (`main.py:1173`) |
| `MCSessionLostPlan` | `RestoredKeepsPlan` | the first build fails, an iteration succeeds: the plan is never stored |
| `MCSessionEdit` | `EditIsVersioned` | a manual edit is in no version, and a restart loses it |
| `MCVersionsDuplicate` | `UniqueNumbers` | the number is read before the row is inserted (`store.py:84`) and nothing makes it unique: `get_version` then raises |
| `MCVersionsTwoCurrent` | `OneCurrent` | two overlapping writers leave two current rows |
| `MCPreviewWrongServer` | `ReportsItsServer` | `_wait_for_port` and `_smoke_check` accept whoever listens (`preview_server.py:264`): a start reports another server as its own |
| `MCPreviewSharedPort` | `PortExclusive` | a stop during a start gives the port away while the server is spawned for it |
| `MCPreviewOrphan` | `ShutdownKillsAll` | a failed start forgets its process without ending it |
| `MCPreviewSlots` | `ExhaustedMeansInUse` | a start whose runner raises keeps its slot |
| `MCPreviewLog` | `FailureExplained` | `_fail` drops the registration before it reads the log of the directory registered |

These bound what the passing runs say: `OneRun`, `OneCurrent`, `UniqueNumbers`
and `PortExclusive` are checked or proved for calls that do not overlap,
because the code does not have them otherwise.  Likewise the history variables of
the other modules name what the code leaves open:

- EventStream (`opened`): the events of a queue are divided among its
  connections, so a second connection to one queue may take the last event and
  leave the first without one.  What is promised is promised to a connection
  that stays its queue's only one.
- RemotePreview (`overlapped`, `trusted`): a start whose answer comes after an
  overlapping stop counts as active while the service serves nothing; a second
  start that fails leaves the first one's entry; an edit made while a start is
  under way is not shown.
- AgentLoop (`untested`): the reviewer's improved files are delivered without
  another test run (`reviewer.py:70`, `crew_backend.py:374`).
- KeyedRows (`overlapped`, `raced`): memories have no unique constraint, so two
  first stores of one key leave two rows, and every later store of it raises;
  two reads at a time count as one.
- TestRun: a front-end build may take longer than the gateway waits for the next
  line; then the run fails with an exception instead of a report.

## What is not modelled

- Wording, file contents, HTML rewriting, prompts, the line diff (`difflib`),
  encryption, token verification: pure data or libraries.
- `cache.py`: written, best effort, and never read.
- Users, their administration and schema creation: single statements, no protocol.
- Numbers and texts of a test report.  One fact about them: pytest's summary is
  matched in one order only, so "1 failed, 2 passed" counts no failures; the
  exit code decides all the same (`TestsReturn`).
- Which messages a chat shows the model: `get_chat_history` (`chat.py:52`) orders
  by age before it limits, so a long conversation shows its oldest messages.  It is
  one query, with nothing to interleave.
- The in-memory version history's own numbers, which drift from the table's after
  a rollback or a restart (`main.py:1264`); its checkout is in SessionLifecycle.
- What the browser shows; of its behaviour EventStream has the connection.
- That the service runs its stop handler on a worker thread (`app.py:95`), beside
  the event loop that runs its starts: PreviewServer takes `Stop` as one step.
- The decision which kind of preview the files need, the rewriting of HTML and
  the diff: pure functions of texts.
- Ownership checks of delete and list: they refuse requests, and change no state.
- In SessionLifecycle a generated session is one session: sessions share
  nothing but the process, except ports, which PreviewServer has.

## Plan

The order is by what a user loses when it goes wrong.

1. Sessions composed with previews: deleting a session leaves its preview and
   its port (`main.py:775`); with VersionHistory, the in-memory numbers beside
   the table's (`main.py:1264`).
2. The service's stop on a worker thread, statement by statement beside a start.
3. The chat history's window, the tiers of previews and the file diff against
   reference definitions.
4. The browser's phases.
