# A verification of jobsmith

jobsmith runs agents as background jobs: a job is a run of a graph (a planner,
waves of capabilities, a generation pipeline) that is persisted, leased to the
process that drives it, and can be cancelled, resumed, answered, amended and
recovered by any process that shares the database. What it ends with is written
to files, delivered to whoever asked, and read through a service, an HTTP API, a
command line and a terminal UI. This directory holds TLA+ models of the parts of
it that are hard to test, the TLC instances that check them, and proofs for
TLAPS. Every definition is translated from the code under `src/jobsmith` and
`src/evals`; `PROJECT.json` gives, for each, the lines it stands for.

```
tlc -workers 2 -config EngineStop.cfg MCJobEngine      # any .cfg and its MC module
for m in *Proofs.tla ; do tlapm $m ; done
```

## Inventory

| Component | State it keeps | Operations | Hard because | Modelled in |
|---|---|---|---|---|
| **JobManager** (`engine/manager.py`) | `_jobs`, `_tasks` in memory; a job's summary in the store | `create_job`, `run_job`/`start_job`, `run_for`, `start_resume`, `answer_job`, `amend_job`, `cancel_job`, `recover_interrupted`, `relaunch_interrupted` | several coroutines of several processes on one record, each await a chance for another | `JobEngine`, `Relaunch`, `Delivery`, `Course`, `Chat` |
| **Ownership** (`engine/ownership.py`) | a lease and a cancel request per job | `Heartbeat._loop`, `owner_is_gone`, `death_is_certain` | crashes, stalls past the TTL, takeovers that race a renewal | `JobEngine`, `Relaunch` |
| **Repository** (`engine/repository.py`) | summary, control, facts, in a LangGraph store | load, save, save_lease, request_cancel, ... | each operation is atomic, no two are | `JobEngine` |
| **Runner** (`engine/runner.py`) | the checkpoint | stream, `pending`, `update`, repair of half-written checkpoints | a stop between two writes of a superstep | `Course` |
| **Delivery** (`engine/delivery.py`, `adapters/langchain`) | the delivery stamps of a record, the thread's list of what it was told | push, pull, mark | retried pushes against a resume; read-modify-write over an await | `Delivery` |
| **Events** (`engine/events.py`) | bounded queues, a watermark | publish, subscribe, watch | dropped events, a watermark that skips a late save | `Feed`, `Events` |
| **Usage** (`engine/usage.py`) | a ledger per attempt, scopes in a context variable | seed, add, total | a resumed attempt's seed, steps that run together, a job launched by a step | `Ledger` |
| **DAG graph** (`dag/*.py`) | `AgentState` | the nodes of `builder.py` | waves, retries, refusals that cascade, the refine cycle, the order of the terminal's tests | `AgentGraph` |
| **Document** (`dag/document.py`, `deliver.py`, `report.py`, `artifacts/`) | formats asked and decided, files on disk and files declared | decide, declare, write, name | a decision told before its checkpoint, files written one by one, names made in three places | `Document`, `Named` |
| **DAG jobs** (`dag/jobs.py`) | the plan in a checkpoint | `drop_steps`, the readings of a job | facts that lag behind the checkpoint | `Course`, `Document` |
| **Default agent** (`agents/default`) | none; budgets of characters | load earlier jobs, read files, search, note, criticize, design a deck | what does not fit or cannot be read must be said | `FollowUp`, `Deck` |
| **Chat** (`chat/*.py`) | a session's thread, its jobs, a pending proposal | turn, approval, launch, promotion, endings told between turns | a turn racing an ending, an approval that runs the call again | `Chat` |
| **Service, API, clients** (`service.py`, `api`, `cli`, `tui`) | streams, a job list on screen | the port's operations, HTTP, reading back | status codes between two forms of one answer; a screen that follows a feed | `Doors`, `Screen` |
| **Evaluation** (`src/evals`) | none | checks of a run, tally, probe | a check that blames the wrong thing | `Scoring`, `ScoredRun`, `ScoredDocument` |
| **Persistence set-up, rendering, providers, other agents** | the database's tables; files | open, render, call | formatting and other systems' locks | not modelled, see below |

How they interact: a front-end calls the JobManager through the service; the
JobManager loads and saves the job through the Repository, drives the Runner,
which streams the DAG graph's updates back to it (`_apply` folds them into the
record), and keeps the lease with a Heartbeat for as long as it drives. Processes
meet only in the store: a cancel from elsewhere is a request recorded next to the
lease, heard by the owner's heartbeat, or, if the owner is gone, settled by the
canceller after a takeover. The graph knows nothing of the job but the facts it
publishes. Every save is an event; whoever follows a job reads it again.

## Modules

| Module | What it is |
|---|---|
| `JobRecord` | what a job's record promises whoever reads it: seven statuses, attempts, and who may move between them |
| `JobEngine` | JobManager, the lease and the heartbeat over a shared store, one job, any number of processes and calls; implements `JobRecord` |
| `Relaunch` | daemons that start over a job whose owner died: recover, claim, wait a heartbeat, resume |
| `Delivery` | one job's attempts, the processes that push its endings, the thread that is told of them |
| `Course` | a DAG run over its checkpoint while it is stopped, resumed and amended |
| `Ledger` | what that run spends (EXTENDS `Course`) |
| `Feed` | what `subscribe()` promises: whatever is saved after a subscription is followed by an event, or finds the queue full, or what announces it is lost |
| `Events` | the two watches and the bounded queue; implements `Feed` |
| `Screen` | the daemon's event stream, its client and the terminal UI, over any feed that keeps `Feed`'s promise |
| `Chat` | a conversation: the prompt, the gate, `launch_job`, the turn's stream, the endings it is told of |
| `AgentGraph` | one run of the planner DAG, from `validate_input` to a terminal |
| `Document` | the file a job hands back, and what each reader of the ended job says of it |
| `Scoring` | the evaluation suite as operators over an observation; `ScoredRun` puts it to `AgentGraph`, `ScoredDocument` to `Document` |
| `Doors` | the job's operations in process, through the API, read back by the client, as commands (EXTENDS `ScoredDocument`) |
| `FollowUp`, `Deck`, `Named` | over the same jobs: what a later request builds on them, the slide deck, and what files are called |
| `MCx` | the instance of x for TLC |
| `JobEngineProofs`, `AgentGraphProofs`, `RelaunchProofs`, `DeliveryProofs`, `EventsProofs`, `ChatProofs` | theorems about the module they are named for |
| `CourseProofs` | theorems about `Course` and, through it, `Ledger` |
| `DocumentProofs` | theorems about `Document` and what reads it in `Doors` and `Named` |

### JobEngine and the code

A *call* is one coroutine made on the job in one process, at most once; `KindOf`
and `ProcOf` say which. `pc[c]` is the store operation the coroutine awaits
next, so that **every await on the store is a step of its own**: the operation
takes effect and the coroutine runs to its next await. Between two of them
anything may happen: another call's step, a heartbeat, a crash, a lease that
expires. The writes of one process reach the store in the order they were
made, and a cancelled write lands in its order or not at all (the store is
LangGraph's batched one; `app/persistence.py` builds on it): that is why one
step per operation is enough, and why a task that is cancelled at an await is
two cases, `Goto` (the operation happened) and `Escape` (it did not).

* `rec` is the summary, abstracted to its status and attempt; `lease` and
  `cancelReq` the control record; `frontier` whether `runner.pending` finds nodes
  left. `job[c]` is the `Job` the call holds in memory, which is often older than
  the store's. `seen[c]` is the lease it read.
* `Create`, `LoadQueued`, `SaveLease`, `HearCancel`, `MarkRunning` are
  `create_job`, `run_job` and `_begin`; `LoadStopped`, `AskFrontier`, `ClearCancel`,
  `Spawn`, `EnterDrive` are `_begin_resume` and `start_resume`; `Apply`, `Finish`, `Raise`,
  `PersistEnding`, `Release` are `_drive`; `Tick` and `Renew` are the heartbeat;
  `CancelHere`, `Join` and `CancelElsewhere` .. `Deadline` are the two sides of
  `cancel_job`; `ListRunning`, `ReadOwner`, `Fence`, `SecondLook`, `Settle`,
  `WriteSettlement` are `recover_interrupted` and the takeover the canceller shares.
* A restart is another element of `Proc` on the same machine. `Host` decides
  which pids a process can ask about.

**Regimes.** Three constants separate what holds from what the code does not
rule out. `MayStall`: an event loop stalls past `LeasePolicy.ttl`, so that a live
run's lease expires. `MayCancelQueued`: a cancel from another process finds the job
QUEUED. `MayOvertake`: a resume or an answer is accepted while other calls are still
closing the last attempt. `engine_stop` and `engine_recover` take all three FALSE,
`engine_hear` lets the first two be, `engine_begin` the third; each is the door to
a disagreement recorded below. They are guards on when a call
begins (`LoadStopped`, `CancelElsewhere`) or on `Expire`, never on what it does.

### JobRecord and the refinement

`KeepsThePromise` says that `JobEngine` implements `JobRecord`: the record's
status and attempt are themselves, and "a run works on it" is "some driver is
alive between `spawn` and the persist of its ending". It rules out that a
canceller or a recovery ends a job somebody works on, that a stopped attempt
writes over a later one, and that a job starts twice in one attempt.

### AgentGraph and the code

A step is one superstep of LangGraph: a node and the conditional edge after it.
A wave is several steps: `Emit`, once per capability, in any order, and `Gather`,
which applies what they wrote together, as the channels' reducers do (`results`
merged, `completed_capabilities` appended: `runs` counts a step's occurrences
in it). What a model or a capability answers is nondeterministic; a program is
`[steps, inapplicable, refs, after, unfit]`, with `refs` and `after` its two ways
to depend, `unfit` the steps whose `input_model` refuses their arguments. A
reference always names a field that a "thin" result lacks. `Accepted` states
Kahn's loop by what it decides. `FailedBy` states dispatch's loop by its
result: a set that contains exactly what waits for nothing outside it and is
refused; for an accepted plan, one set is so. A node that raises or is stopped
runs again from its superstep's checkpoint, so nothing changes here; that is
the Runner's to keep, and `Course` is about it.

### Delivery, Course and Ledger, Relaunch and the code

These three look at what `JobEngine` takes in one piece. A resume or a recovery is
one step in them, and what is kept apart is what their own hazards tell apart.

* `Delivery`: a record read (`MarkRead`, `Look`) and the same record written back
  with its stamp (`MarkWrite`, `Stamp`); a push that may take for ever (`Post`); an
  amendment that stops the run, hides the stop, and goes on or is refused (`AmendStop`,
  `AmendGo`, `AmendRefused`); a turn that tells the ending in the thread (`Ask`,
  `Answer`, `Index`), may die, and marks it told after. A restart is `Stop` or `Crash`,
  then `Start`, which owes whatever is not stamped (`_push_pending`). A resume may fall
  between a read and its write-back, as it may in the code.
* `Course`: the checkpoint (`at`, `plan`, `done`, `task`) and the record's facts. A fact
  is published inside a node, persisted when the stream comes to it (`Persist`), and
  the node's writes become a checkpoint after. `Stopped` falls between any two of
  these; `Reentered` is what `_half_written`, `_repaired` and a resume make of it;
  `Check`, `StopToAmend`, `Amend`, `RunOn` are `drop_steps` over `amend_job`, by two
  callers. A wave's steps run in any order.
* `Ledger` books every model call of that run under the scope that made it, and follows
  the amounts through saves, stops, resumes and a job that a step launches.
  `made` and `kept` count the calls themselves, which is what the bill is held against.
* `Relaunch`: list, claim with a lease, wait one heartbeat, look, load, lease, RUNNING,
  each a step of a daemon that may die between two of them.

### Feed, Events, Screen

`Feed` is the promise of `subscribe()`: an event says that something moved, never
what. `Events` has the two watches as written (`Open`, `Look`, `Fold` over a watermark
and what was seen; SQLite polls a counter, Postgres is notified), a clock that may
stand still between two saves, and the bounded queue; `FeedIsKept` is `Feed`'s whole
specification, fairness included, under a refinement mapping. What announces a save may
be lost: a NOTIFY fails and nobody is told (`Drop`), the process dies between its commit
and the NOTIFY (`Die`), a look meets a busy file (`Fail`), a watch raises in its loop and
is over (`Break`) until somebody else subscribes (`Revive`). The history variable `lost`
names the jobs this happened to, until they are saved or told again; `Feed` promises an
event of the others, and "a later one repaints". There is one subscriber: another one
shares the watch and has its own queue, which looks the same. `Screen` extends `Feed`, not
`Events`: it runs over anything that keeps the promise, through the API's stream, the
client's queue with its end-of-stream marker, and the screen's coalesced refresh.

### Chat

The person, the model and the jobs' endings are any choice. A tool call that was
interrupted runs again from its start when it is answered, as LangGraph's does
(external). `Call`, `Check`, `Create`, `Announce`, `Promote`, `Drain`, `Settle`, `Tell`,
`Record` follow `launch_job` and the turn; `watch` is its subscription with a bounded
queue; `Submit`, `Answer`, `Cut`, `Reopen` are the prompt.

### Document and what reads it

A walk over the nodes that decide, declare and write, with a step for each fact, each
write, each checkpoint, and a stop or a crash between any two. A text is not modelled,
nor a byte: a file is its path, its format, its role, and whether it is on disk. In every
state this reaches, running, stopped, resumed, ended, or with a file gone since, the
modules above it evaluate what the code computes of it: `Doors` every operation of a job
in process and through HTTP; `ScoredDocument` the checks of the evaluation suite;
`FollowUp`, `Deck` and `Named` a later request that refers to it, from a list of scenarios
(`Asks`, `DeckReplies`, `Given`). There a text is its length, its words' length and whether
it is marked as cut, which is all a budget looks at.

`ScoredRun` puts the same suite to the ended runs of `AgentGraph`, and the probe to every
program the planner may be given.

## Runs

All instances use exact sets (no symmetry, no state constraint). Each takes about
a minute or two at most with two workers.

| Run | Instance | Shows |
|---|---|---|
| `engine_stop` | 3 processes on 2 machines; a run, a cancel in its process, one from its machine, one from the other; crashes anywhere | nobody settles a live run (`LiveRunLooksAlive`), no lease means it ended (`NoLeaseMeansFinal`), who is answered CANCELLED was told the truth (`CancelledMeansStopped`), no ending is written over (`KeepsThePromise`: implements `JobRecord`) |
| `engine_hear` | a run, a local and a remote cancel, stalls past the TTL, a cancel that may find the job QUEUED; fairness | a request stops the run it was made for (`CancelIsHeard`), and the canceller gets an answer (`CancelIsAnswered`) |
| `engine_recover` | a run that may crash, a process of its machine that starts and recovers, a resume there, an answer from the first; fairness | one run at a time (`OneRun`), no RUNNING record left behind (`CrashIsRecovered`) |
| `engine_begin` | a cancel during a resume's beginning | a violation, see Disagreements |
| `relaunch` | 4 daemons, 2 relaunches, deaths anywhere; fairness | the bound holds (`RelaunchIsBounded`), one driver, which the record names, and somebody to drive (`ClaimsAgree`), what is left is found (`LeftIsFound`) |
| `delivery` | 3 kinds of address, 2 attempts, 2 processes, a crash or a dead turn, resumes between a read and its write-back; fairness | a thread is told once (`ToldOnce`), a pushed ending is stamped when its receiver has that very ending (`PushIsEarned`), and an ending reaches its receiver: through the process that has it, if that stays up, or else through the next start (`NothingIsLost`) |
| `course` | 3 steps, one after another and one beside; a stop anywhere, 2 callers that drop steps; a launched job | every step of the plan is in the answer (`NothingLeftOut`), a stop leaves something to run (`StopsLeaveWork`), a dropped step never counts (`DroppedStaysOut`), the bill is the calls (`BillIsWhole`) |
| `events` | 2 jobs, one saved elsewhere; both databases; 3 saves, stamps that may be equal, a queue of 2; notifications that fail, processes that die, looks that fail, watches that end; fairness | a watch at rest missed only what was lost on the way (`OnlyLossIsMissed`), the events keep the promise (`FeedIsKept`: implements `Feed`) |
| `screen` | 2 jobs, a queue of 1, a daemon that may die, a screen that is left and mounted again; fairness | the screen shows the last save, unless what announces it is lost and no event comes later, or says it does not follow (`ScreenCatchesUp`) |
| `chat` | 3 jobs, 2 turns, a gate, prefixes that match one or several jobs, a queue of 2; fairness | what was approved is launched (`ApprovedIsLaunched`), notice, plan, answer in order (`SaidInOrder`), every turn ends (`TurnEnds`) |
| `document` | 7 requests, 5 replies, a plan of 2 steps that leave the same file, a stop or a crash anywhere, PDF engine present or not, a file that vanishes; 6 follow-ups, 10 names, 255 deck replies | `FilesAreFound`, `AskedIsAnswered`, `SameStory` (readers do not contradict each other), `DecisionStays` (only a second reading of the sentence takes a decision back), `ScoredAsAsked`, `BackingsAgree` (service and daemon, and the commands over them), `TwoRequestsAreOne` (what the client asks in two requests is what the service would have said at once, before or after the job's step between them), `MaterialIsWhole` (`NothingNamedIsLost`: what cannot be read is said, to every step and the generator; `BoundsHold`: within the budgets) |
| `agent_graph` | every way 3 steps may depend on one another, cycles, drops, refused arguments; 1 retry, 2 refinements; fairness | `OnlyWhatCanRun`, `RetriesAreSpent`, `NothingLeftOut`, `TerminalIsEarned`, `ResultsStand`, `NeverStuck`, `RunEnds`, `ScoredAsItRan` (the suite and the probe blame a run for what it did) |

Deadlock is not checked: everything here really may stop. A script of calls is over,
a machine park has crashed, a graph is at END, a conversation waits for a person; and
the bounds on saves, stops, jobs and attempts run out.

Each module has a type invariant (`TypeOK`); those of `JobEngine`, `AgentGraph`, `Relaunch`
and `Delivery` are proved as they stand, what the other proofs need of the types is
proved as `Typed` in their modules, and the rest is for those who change a module to check.

**Why these bounds.** Each hazard of the engine needs one driver and at most two
others around it: a canceller and the owner, a takeover and a renewal, a recovery
and the next attempt. Three processes on two machines give every relation between
two of them (same process, same machine with the pid to ask, another machine with
the clock only). Two attempts are enough for an ending to be written over by the
previous one, or told for the next. Four daemons are one more than the two
relaunches and the first run need. Three steps give chains, forks, joins, diamonds'
halves and cycles of two and three; one retry separates "failed, will be retried"
from "failed for good" and two refinements separate the first from the last. A queue
of two fills with one event to spare; two jobs are one whose saves are published and
one only the watch sees. In `document` the budgets of characters are scaled so that a
text fits, fits cut, or leaves no room for the mark of a cut.

**Fairness** is asyncio's: a call that has begun takes its next step
(`WF(Proceed)`), a heartbeat's timer fires (`WF(Tick)`, `WF(Renew)`), and the
deadline of a cancel loop is met in the end, although the loop is at the line that
checks it only now and then (`SF(Deadline)`: the clock moves on whatever the loop
does). A run's stream owes nothing: a model may think for ever, and no liveness
property relies on it ending. In the graph, `WF(Next)` says that a run that is
driven goes on; every node returns (calls to models are bounded by their timeouts).
In `Relaunch` a living daemon takes its next step. In `Delivery` a process carries on
with what it began (a push is retried for ever, `delivery.py:112`, so that the post is
fair), an amendment goes on or is refused, and a conversation that has an ending to hear
takes a turn that survives (`SF(Ask)`, `SF(Index)`; faults are bounded). Nobody need stop a
process or start one: `NothingIsLost` says what a process that stays up does with an
ending it has, and, under the premise `Restarts` stated in the property, that an ending
nobody has is found by a start. In `Events` a save that began commits and is published, or its process
dies, a NOTIFY that is sent arrives or fails, and a watch that is not over looks; in
`Screen` a living daemon tells what it owes and has not lost, and the stream, the client and the screen move on; in
`Chat` each step of the agent and `run_for`'s clock, and no job ever has to end.
`Document`, `Course` and `Ledger` state safety only.

## Disagreements

Where the code does not do what it says, a constant (a *regime*) keeps the runs on this
side of it, or a property states the promise and is left out of the runs (in the table,
a module with no constant: the property goes into its run's cfg). One is a
run that ends in a counterexample, `engine_begin`: `_begin_resume` drops the answer of
`_begin`, so a cancel heard while a resume begins is saved as CANCELLED and the run is
driven all the same. The others are seen by changing what the table says.

| To see it | What the code does | Against |
|---|---|---|
| `EngineHear` with `QueuedKind`, `QueuedProc`, `Proc = {"a","b"}`: `CancelledMeansStopped` | a remote cancel that read QUEUED writes CANCELLED from its old copy over a run that began in between (manager.py:577) | "Never answers CANCELLED for a run that carries on" (manager.py:544) |
| `EngineStop` with `LateKind`, `LateProc`: `EndingIsRecorded` | a local cancel during the persist of an ending stops the task before the write: the record may stay RUNNING (manager.py:411) | "from here on nothing can cancel this run" (manager.py:404) |
| `EngineBegin` with `HandoverKind`, `HandoverProc`: `LiveRunLooksAlive` | `release_lease` deletes the lease that an answer given at once has just taken (manager.py:428) | "the lease is written FIRST" (manager.py:228) |
| `EngineStop` with `TakersKind`, `TakersProc`: `EndingStands` | a canceller and a recovery that take over the same dead run settle it one over the other (manager.py:686) | "Never over an ending already written" (manager.py:675) |
| `AgentGraph`: `RefinedIsJudged` | the edge refine → generation writes another draft over the refined one before it is judged (builder.py:234) | "LLM call to fix a rejected draft" (generation.py:8) |
| `Relaunch` with `MayStraddle`: every invariant | a daemon that sleeps between its look and its lease, or lists before another claims, drives a job another drives, until a heartbeat (manager.py:777) | "a process that started at the same moment wrote after us, and the job is its to relaunch" (manager.py:769) |
| `Delivery`: `StampsLeaveTheRun` | a push or a mark that read the record before a resume writes it back whole after: the new attempt's record is overwritten by the ending it left (manager.py:854, :873) | "Stamped only while the record is still that ending" (manager.py:840) |
| `Delivery`: `StampIsEarned` | `mark_delivered` stamps whatever the record is by then: a job that was resumed and ended again since the turn's check is marked for an ending the thread does not have (manager.py:869) | "and so never ahead of it" (adapters/langchain/delivery.py:17) |
| `Delivery` with `MayOverlap = FALSE`: `StampIsEarned` | a job that pauses in the turn that launched it has that pause taken for the ending it will have | the same |
| `Delivery`: `EndingsArePushed` | an ending saved while an amendment hides it is not handed to a push, and nothing hands it over when the amendment is refused; nor one whose write a cancel cuts short. It waits for the next start (manager.py:137, :279) | "a daemon that runs for weeks would then leave an ending undelivered until it restarts" (docs/decisions/0166) |
| `Course` with `MayRace`: `NothingLeftOut` | a step is written between `drop_steps`'s reading of the facts and its update: a size that counts a dropped step closes the run early (jobs.py:407) | a step "that already finished" is refused (jobs.py:386) |
| `Course`: `EachPaysItsOwn` | `create_job` saves the child's record under the ledger of the run that launches it: a job that never runs shows its parent's bill (manager.py:182) | "a job launched from inside another run can never bill its parent" (manager.py:353) |
| `Events` with `MayCommitLate`: `OnlyLossIsMissed`, `FeedIsKept` | a save that commits after one stamped later was read is never seen (events.py:157) | |
| `Events`: `BusyLookIsMadeAgain` | a look that fails after the new `data_version` was noted is not made again until another commit (events.py:177) | "a busy file this tick: ask again next one" (events.py:179) |
| `Screen` with `MayOpenLate`: `ScreenCatchesUp` | the list is read before the daemon has the subscription: what is saved in between is shown with the next event only (tui/app.py:322) | |
| `Chat` with `MayStrand`: `ProposalFirst` | a proposal that another front-end of the session left is not known to this prompt: a message cuts it off (tui/app.py:461) | "a proposal is answered before anything else" |
| `Document`: `OnlyGoesFalse` | a stop between the decision's fact and its checkpoint: the sentence is read again, and may be read otherwise, so that a job said to expect no file expects one (document.py:176) | `deliverable_expected`, "it only ever goes True → False" (dag/jobs.py:161) |
| `Document` with `MayStopLate`: `AskedIsAnswered` | a stop after the files' facts leaves a main file on a job that did not answer (deliver.py:107) | docs/decisions/0041, "A job that did not answer has no `main`" |
| `Document` with `Given <- MCMoreGiven`: `FilesAreFound` | `document_stem` is applied twice and is not idempotent: "rapport.md.html" is shown as one file and written as another (chat/tools.py:629, jobs.py:344) | "what the user is shown is what will be written" (chat/tools.py:625) |
| `Document` with `Asks <- MCMoreAsks`: `NothingNamedIsLost` | a file past `max_files` is neither read nor refused (read_files.py:117) | "A refusal is material, not silence" |
| `Document` with `Note = 40`: `BoundsHold` | a share of the budget below the mark's length slices from the wrong end (research.py:238) | `max_material_chars` |
| `Document` with `MaxDeckMaterial = 15`: `CaveatsReachTheDeck` | the deck's material is cut at its end, where the critique's caveats are, and nothing says so (slides.py:262) | |
| `Document`: `DeliveredIsScored` | the harness reads a binary main file as text, which raises: a run that delivered is scored as one that broke (harness.py:174) | "a broken harness must not look like a bad prompt" |
| `AgentGraph` with `OpOf <- OneOp`: `ScoredAsItRan` | the suite keys steps by capability: of two steps of one op it sees one (scoring.py:147) | |
| `Doors`, stated in `CommandsAgree` | a resume that is granted differs by backing: in process the command follows the job and exits by how it ended, through the daemon it exits 0 at once (cli/main.py:224) | by design: the job would end with the command |
| `Document`: `CancelsAlike` | a cancel of an unknown job is an answer in process and an exception through the daemon (client.py:203) | "the two backings must stay indistinguishable to a front-end" |

## Proofs

Nothing is assumed but the named assumptions of the modules (constants have their
shape, bounds are numbers), and, where a theorem says so, the regime: the constant that
keeps the code on the side of its word, as in Disagreements. Each regime is the one that the
runs of that module are in.
Every invariant below was put to TLC before it was proved.

**`JobEngineProofs`**, for every set of processes and calls:

* `TypeCorrect`, in every regime: `TypeOK` is inductive as it stands.
* `NoLeaseIsFinal`: with one run driving the job (`OnlyRun(r)`), and any number of
  cancels and recoveries, crashes and stalls, a canceller that read no lease then
  reads a record that is not RUNNING. `NoLeaseMeansFinal` is not inductive. `IInv(r)`
  adds why it is true: the lease is in the store whenever the record says RUNNING
  (`RunningIsLeased`), the driver is then at a place before its release
  (`RunningWhen`, `EndingsEnd`), a takeover leaves a lease behind instead of none
  (`Leased`), what a canceller holds is never ahead of the run (`CancelsFollow`),
  and no lease seen means the run was over already (`SeenNoneIsOver`). It uses the
  order of writes in `_begin` and `_drive`, which is what the mutant
  `PersistEndingLast` swaps.
* `LiveRunsLookAlive` (no stalls): nobody is told that a run that is alive is gone.
  `Steady(r)`: from `save_lease` to `release_lease` a living run has its live lease
  (`KeepsItsLease`), any other lease, and any that somebody saw, came after the
  run (`OthersComeAfter`), so that a takeover begins only when it is gone
  (`TakersComeAfter`).
* `CancelledIsStopped` (no stalls, no remote cancel that finds QUEUED): CANCELLED is
  answered when the run writes nothing any more. It needs `EndingsComeAfter`: an
  ending that the record shows, or a canceller is about to write, came after the
  run persisted its own or died.
* `RecordIsPromised` (the same, and nobody recovers): every step is a step of
  `JobRecord` under the refinement mapping, or a stutter. `Promised(r)` says what the
  record reads at each place of the run and that a canceller's copy agrees with it.
  With recoveries, TLC finds two settlers (`TakersKind`).

  The same, of any number of runs, resumes, answers, cancels and recoveries, where no
  heartbeat stalls, no takeover falls between a settler's reads and its write, and no
  remote cancel finds QUEUED. These theorems are `Safety /\ []Apart => ...`: `Apart` is
  about who meets whom, and says that nobody begins the job while another begins or
  buries it. The code has no such lock: two resumes made at once both drive the
  job, which the disagreement on the lease (manager.py:228) is one form of.

* `RunsAreAlone` (`OneRun`) and `ResumedRunsLookAlive`. `Many` is `Orderly` (who stands
  where, and whose tasks can be cancelled) and `Owned`: one driver at most is at
  work (`Alone`); from `save_lease` on, the record and the lease are what its place
  says (`Stands`); whoever is deciding to settle saw what was then so and no run has
  begun since (`Decides`). The lease is a token: a resume takes it only when nobody
  is at work, and a recovery only from an owner that is gone.
* `OneOfEachIsAlone`, `OneOfEachIsStopped`, `OneOfEachKeepsThePromise` ask for no `Apart`:
  a job with one run, one resume and one answer at most keeps it by the order of its
  own steps, as long as no cancel meets an answer and, for the last two, cancels do not
  meet recoveries (a cancel and a recovery that settle together do not agree, see
  `TakersKind` above). `Truthful` adds to `Many` what each settler is about to write over
  and that an answer of CANCELLED is about an attempt that is over (`Claims`, `Answered`).

**`AgentGraphProofs`**, for every set of programs and all bounds, all
the safety properties the run checks of the graph: `RunTypeCorrect`, `SendsWhatCanRun`,
`TerminalsAreEarned`, `NoStepIsLeftOut`, `RetriesAreCounted`, `ExecutorNeverStuck`,
`ResultsAreFinal`. One invariant carries them: a plan in the state is acyclic and
closed (`PlanIsSound`), a step that ran is the plan's and what it depends on is
over (`Counted`), the steps of a wave are not over but what they depend on is
(`Waves`), and what holds at each node (`Places`). The lemma at its heart is
`SomethingIsReady`: the steps that are not over are a subset of an acyclic plan,
so one waits for none of the others. `SizesTell` needs that a step that is over is
one of the plan's; `Course` is where `drop_steps` puts that to the test.

`RunsAreScoredAsTheyRan` is what the suite and the probe say of a run, where a step goes
by its op's name (`ByName`; where it does not, see Disagreements). `plan_acyclic`, the
probe's sort, `_downstream_of` and the words an op is handed are each a fold of a
set that grows. A fold is unfolded without induction, by a least counterexample
(`Least`, from the well-foundedness of the strict subsets of a finite set), into
`Rounds`; a set that grows in a finite one is still after as many rounds as that has
members (`RoundsSettle`), and still means closed: no cycle is left, or nothing
downstream is. `TheProbeAgrees` is then the probe's sort against `Accepted` for every
program, and the rest puts `IInv` through each check: an answered run has a result of
each step and of no other (`Counted`), which is what the suite counts.

**`RelaunchProofs`**, for any daemons and bound, none of which sleeps through the others'
claims: `RelaunchTypeCorrect`, `RelaunchesAreBounded`, `ClaimsAlwaysAgree`. Claims agree
because the one daemon past its look finds the record as it looked and whoever else
still has its claim could only be that daemon (`ClaimsHold`); the half that says
somebody has the job is `SomebodyWill`, which follows the lease from the dead owner
to whoever claimed last.

**`DeliveryProofs`**, for any processes, attempts and faults. In every regime:
`DeliveryTypeCorrect`; `ThreadToldOnce`, because a turn looks in the channel before it
speaks and the channel names the last attempt the thread was told of; `PushesAreEarned`,
because a push is of one attempt, looks at the record's before it stamps, and what a
late stamp writes back is a record whose receiver has its ending (`Free`). Where no
resume falls between the reading of a record and its stamp, and no job pauses in the turn
that launched it: `StampsAreEarned`, of a thread as well. A copy about to be written
back is then the record itself, stamped (`PushesAreHonest`, `TurnIsHonest`, `ThreadIsTold`).
TLC finds both regimes needed (Disagreements).

**`CourseProofs`**, for any plan, dependencies, callers and stops:

* `NoStepIsLost`, `StoppedCanResume`, `DropsAreFinal`, where nothing moves on while
  `drop_steps` decides: what is done or under way is the plan's and nothing dropped
  is (`WorkIsPlanned`), a plan exists once the planner's checkpoint does and its fact
  was persisted before (`PlanIsDrawn`), one caller decides at a time on the plan that
  the record holds (`OneDecides`), and its step leaves a plan (`DropsAreSound`).
  `_all_done` compares sizes: `FS_Subset` and `WorkIsPlanned` make that equality.
* `LedgerOnlyWatches`: a run with its bill is a run, so all this holds of `Ledger`.
* `NoCallIsForgotten`, in every regime: every call a run that ended made was saved.
* `EveryCallIsBilled`, in every regime and for any prices: the record's usage is the
  sum of what the calls that a save held cost (`BillOf(kept)`). The sum is a fold over
  the steps and the ledger an increment of one entry; `BillCalled` says what one more
  call adds to the sum, and `BInv` that every entry and every step's bill is a number
  of equal calls, no more than were made or saved (`Counted`, `InTheBook`, `OfTheStep`).
* `TheBillIsWhole`, in every regime: the steps' own bills never add up to more than
  the record's. It asks that no price be negative (`NoNegativePrice`), which
  `_load_overrides` does not refuse: the calls that are in the record's bill and in no
  step's, or not yet, must not have cost less than nothing.

**`EventsProofs`**, for any jobs, stamps, queue and either database, where saves commit
in the order of their stamps:

* `OnlyLossIsMissedAtRest`: a row that was not seen as it is is at the watermark or past it,
  and is read, or committed after the version the watch waits on (`Watermarked`), or what
  would have announced it was lost; with Postgres, a NOTIFY on its way names it
  (`Notified`). `Timed` relates every stamp to the clock.
* `FeedKeepsPromise`: the initial states and every step, the losses included, are
  `Feed`'s under the mapping that `FeedIsKept` uses. This is its safety half.

**`ChatProofs`**, for any jobs, turns and queue:

* `WhatRunsWasApproved`, in every regime: a reference that was shown to a person as one
  job may match more jobs when the call runs again, but never another instead
  (`Vouching`), and the second check refuses what matches several.
* `JobsAreSaidInOrder`, in every regime: a plan that nothing shed is in the subscription's
  queue before its end, or was said (`Watched`), and what was shown is about known
  jobs, each once (`Shown`).

**`DocumentProofs`**, for any request, reply, plan, files, stops and crashes:

* `DecisionsStay`, in every regime, wherever the run is stopped: outside the intent node
  the job has heard the decision and the state holds what was asked, or what the step
  decided where nobody spoke; at the node, the decision may have been heard by a run that
  was stopped before its checkpoint, and is then read again (`ReadAgain`), which is the one
  step that may take it back (`Settling`).
* Where no stop falls between the files' facts and the run's end: `AskedIsAlwaysAnswered`,
  `TheSameStoryIsTold`, `TheDeliverableIsOne` and `NoFileIsLost` (the first two parts of
  `FilesAreFound`), `TheBackingsAgree`, `TwoRequestsAnswerAsOne`, and, where no given name has two extensions
  (`OneExtension`; a name that has them is a disagreement above), `FilesAreAlwaysFound`.
  `Writing`: what is written is exactly the formats' places that are no longer to do,
  the first place first and as `main`, no path twice, each on disk while the job
  runs. `Telling`: the facts declared are of what was written and told, or of files that
  the steps' results name, and a job that stopped told nothing: this is the part
  that `MayStopLate` breaks. `Ending`: a job is DONE when there was nothing to write or
  all was told. The lemma `TheRunRanksFirst` is what makes the readers agree: the
  run's main file comes before any annex of a step's in every order they use.
  `WhatIsMain` and `WhenDone` reduce each reader to the run's own files. For two requests
  with a step between them, a job that ended keeps what its readers say
  (`AlikeAfter`, `DoneStays`), and one that had not ended has no report to give, before or
  after (`ReportInTwo`, `FileInTwo`, `CancelInTwo`).
* `FilesAreScoredFairly`, in every regime: the suite looks only at runs that nothing
  stopped, and in those `Telling` holds whatever the regime (`FirstTry`), so that a run
  is blamed for its file only when the write failed or the file is gone.
* `EarlierRunsFit` and `TheNotesFit`, for any list of blocks and any sizes: the two readers
  that share a budget out block by block (`_fit`, `_retrieved`) keep every block, whole or
  marked as cut, and spend their budget and the marks. `_fit` floors a share at zero
  and needs nothing else; `_retrieved` does not, and does what `Note = 40` shows above
  unless what is left stays above the marks. `UnflooredStep` gives a budget that is
  enough: n(n - 1) marks for n documents (22 documents, with the code's 32000 characters
  and a mark of 64). The recursive `fit` and the sum are unfolded by least counterexamples.

**Only model-checked**, because it is out of the prover's reach: the liveness
properties (`CancelIsHeard`, `CancelIsAnswered`, `CrashIsRecovered`, `RunEnds`,
`NothingIsLost`, `LeftIsFound`, `ScreenCatchesUp`, `TurnEnds`), with them the fairness half
of `FeedIsKept`; and `MaterialIsWhole`. Its budgets are proved above, block by block; what
picks the blocks and the slides is `SelectSeq`, which `tlapm` does not expand and knows
no fact of, so that nothing follows about the lists it returns.

## Not modelled, and why

* Rendering (`report_html.py`, `report_pdf.py`, `pptx_deck.py`), prompts, wording, colours and
  widgets: a text in, a text or bytes out, and no state that another component reads.
* `app/persistence.py`: opening a database is retries on SQLite's own lock and Postgres's
  advisory lock; its correctness is the database's. Its batched store's order of writes
  is an assumption of `JobEngine`, said above.
* `app/agent.py`, `app/providers.py`, `dag/profile.py`, `registry.py`, `clients.py`: wiring,
  configuration, and calls to a provider, which answer anything in the models.
* The process-local store: the models are about the shared one.
* LangGraph is not part of the repository. What a resume and an interrupt do is taken
  from how `runner.py`, `chat/` and `dag/` use them and from docs/decisions 0177, 0191,
  0196 and 0202; such definitions are marked external in `PROJECT.json`.
* The banking and react agents: capabilities over services whose answers are the
  nondeterministic results of `AgentGraph`.
* What the regimes of the runs cut off, besides the disagreements they are named for:
  `MayOvertake` FALSE, a job that is resumed between a recovery's listing of the
  summaries and its reading of the control records (manager.py:729); `MayRace` FALSE, any lag between
  the facts that `drop_steps` reads and the checkpoint it writes.
* `Course` takes the checkpoint of END and the job's ending in one step (`Dispatch`): what a
  stop between the two leaves to resume is not looked at.
* `Doors` evaluates the requests of an operation in one state, but for the two of
  `TwoRequestsAreOne`, between which the job takes one step. A refused resume is left out
  there: either backing reads the record after the refusal.
* A crash between `save_fact` and `save_summary` (manager.py:490) loses what that
  fact's calls cost: `Ledger` takes the two saves as one.
* Hazards known and left without a property: two `launch_job` calls that interrupt in one
  superstep (chat/runner.py:360); a `_cancel` worker that is exclusive and drops a cancel
  in flight (tui/app.py:779); a turn cut while a tool call waits for its answer
  (tui/app.py:522); a default format named by an alias (app/agent.py:118); two deck steps
  that write one file (slides.py:477); a report route that reads the record, then the
  file (api/app.py:345).

## Plan

Done: the engine and the graph; then delivery, events, relaunch, the course of a run with
its bill, the chat, the document with everything that reads it. Proofs: every safety
property that a run checks, but for `MaterialIsWhole`.

Next: `Screen`'s safety over any feed, composed with `FeedKeepsPromise`; type correctness in
every regime where it is now proved in one; what can be promised of several settlers of
one dead run, who do not agree; the summaries that a recovery lists, kept apart from the
control records it reads; `MaterialIsWhole` from `TheNotesFit`, once a list that is picked
from another can be reasoned about.
