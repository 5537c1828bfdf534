# A verification of the CampusPilot core

CampusPilot ("Jarvis") is a personal assistant for one Mac. Several processes
share one agent core: the Streamlit chat and dashboard (`app.py`, `pages/`),
the menu-bar voice app (`ui/menu_bar.py`), the scheduler, Telegram and Alexa
daemons. Each of them calls `agent.executor.execute_task_stream`, which runs a
request: it picks model providers, calls them, runs the tools they ask for, and
falls back to another provider when one fails. The processes have no server in
common; they meet in files, `flock`s and a few in-memory registries.

The hard part of this program is not a computation. It is what happens when a
provider fails after a tool has acted, when a user cancels between two checks,
when two processes poll the same task file, when a process dies between an
action and the note that it happened. That is what the modules here model.

## Inventory

| Component | State it keeps | Operations | Talks to | What makes it correct |
|---|---|---|---|---|
| Request executor (`agent/executor.py`, `execution_state.py`, `retry_policy.py`) | status, cancel flag, provider in charge, iteration, batch of tool calls with attempts, committed flag, text sent | prelude, model call, tool batch, gate, retry, fallback, finish, cleanup | tools, providers, cancellation, confirmation ledger, status slot | one provider speaks; a side effect is never repeated by a fallback; a cancel is seen; every request ends |
| Tool policy (`agent/autonomy.py`, `tools/registry.py`) | none (tables) | verdict on one call | executor | a hard-gated tool never runs unattended, whatever the autonomy level |
| Confirmation ledger (`agent/autonomy.py`) | pending question and its expiry, one dictionary per process | ask, pop | executor, user | one run for one question, inside its window |
| Cancellation (`agent/cancellation.py`, `jarvis_state.py`, registry in `execution_state.py`) | registry per process, marker files, one shared status slot | `request_cancel`, `clear_cancellation`, `set_status`, `reset_to_idle` | every process | a cancel reaches the request it names, and no other, and leaves nothing behind |
| Scheduler (`scheduler_daemon.py`, `scheduler_lock.py`, `scheduled_tasks.py`, `menu_bar.py`) | task file, lock, each poller's snapshot, busy lock | poll, run, mark, add, remove | executor, voice | a task runs once on its day; edits survive; speech never overlaps |
| Agent manager (`agent/agents/manager.py`) | coworker subprocess or batch in flight | launch, poll, kill, retry | executor, cancellation | a cancelled parent stops its child; each task of a batch has one result |
| Coding coworker (`agents/coding.py`, `coding_checkpoint.py`) | checkpoint refs, restore lock, files written | snapshot, edit loop, test, rollback, prune | git | a rollback restores what the coworker wrote and nothing else |
| Telegram bridge (`telegram_*.py`) | offset in memory and on disk, batch, conversation, lifetime lock | long poll, handle, save offset, reply | executor, Bot API | nothing is skipped; only a crash makes a message run twice |
| Alexa bridge (`alexa_*.py`) | run lock, last result | task, last | executor, Telegram | one task at a time; the last result is the newest |
| Two-step tools (`tools/messaging.py`, `tools/autofill.py`) | one pending draft or login | draft and send, fill and confirm | Mail, browser | what is sent is what the user approved |
| Routing, health, budget (`model_router.py`, `provider_*.py`, `task_classifier.py`) | cooldowns, spend | build the chain | executor, usage | no provider over its budget or in cooldown is used first |
| Usage (`usage.py`) | bounded record file | record, count for a request | executor, budget | the calls of a request beyond its limit are bounded |
| Voice session (`voice_session.py`, `quiet_mode.py`, `tts_control.py`) | watcher threads, quiet state, speech pid | run with watch, confirm, interrupt | executor, audio | a spoken stop reaches the request; no speech in quiet mode |
| Memory (`agent/memory/*`, `database/memory.py`) | one JSON file, an access log | remember, update, forget | executor | a reader finds a whole file; no update of another process is lost |
| History (`history_*.py`, `execution_history.py`, `conversation_store.py`) | SQLite and JSON files | capture, search, append | executor, interfaces | the turns of a request are together; a process has one session; a broken file does not stop a conversation |
| Browser (`tools/browser.py`, `browser_lock.py`) | profile lock, context of each process | acquire, launch, get page, close | Chrome | a running Chrome belongs to the process that has the profile, and the lock is not kept for nothing |
| OpenClaw (`openclaw_*.py`) | device tokens in the keychain | validate, connect, send | Gateway program | at most one transmission for a call; a report is true |
| Code graph, research, skills, other tools, audio, interfaces, configuration | files, devices | text processing, one external call each | – | not concurrent; outside the model |

How they interact: an interface calls the executor as a generator and may
abandon it. The executor calls tools on a thread pool, asks the ledger before a
tool that needs a yes, writes the shared status slot, and looks for a cancel at
its check points. `request_cancel` is called by a tool in any process or by the
dashboard, and reaches the request either through the registry of its own
process or through the slot and a marker file. Schedulers call the executor with
the source `scheduled`, which no human watches.

## Modules and how they correspond to the code

### `ToolPolicy`
Operators only: the tables of `autonomy.py` (`AutonomyThreshold`, the ambient and
non-interactive sources), `ShouldRequestConfirmation`, the order of the gates of
`_run_tool` (`Verdict`) and `should_retry`. Tools are model values with the flags
of `ToolSpec` as constants.

### `RequestExecutor` (abstract: `RequestLifecycle`)
One request. `pc` follows `execute_task_stream`: `new`, `planned`, `registered`,
`opened`, the two reads of the greeting prefetch, then per candidate `looping`
(the head of a provider loop), `model` (the call is out), `batch` (tools are
running), `ended` / `raised`, and at the end `finally` and `closed`; `escaped` is
a prelude that raised before the `try`. A batch has a slot for each call with a
`phase` (queued, asked, ready, running, delay, done, raised); calls marked parallel
run together, as in `_run_tool_batch`. One action for a step of the code:
`CallModel`, `StreamChunk`, `ModelFails`, `ModelAnswers`, `ModelAsksForTools`,
`GateSkips`/`GateAsks`/`GatePasses` (the gates in their order), `Dispatch`,
`ToolReturns`/`ToolRaises` with `AfterError` (the retry decision), `BatchReturns`/
`BatchRaises`, `CheckOutcome`, `FallBack`, the ways to finish, and `Cleanup`.
The world cancels in process or by a marker, lets a question expire, and the
caller may abandon the generator wherever it yields.

Abstracted: text (a chunk is "this provider has spoken"), tool results (acted,
returned, raised, which error kind), which providers (a chain of kinds), the
request limits (a choice to stop with a notice), `transition_to` and `cancel` as
single steps.

`RequestLifecycle` is what the executor promises its caller: a request is new,
then live, then over; one voice; one outcome, recorded before it is over.
`ImplementsLifecycle` instantiates it with a mapping of `pc`, `speakers` and
`recorded`.

### `ConfirmationLedger`
The dictionary `_pending` with the clock, and the calls of several conversations
of one process. `Ask` stores an expiry, `Pop` removes an entry whatever the
answer, `Confirmed` compares with the window. `Answer` is the user's yes or no,
which the ledger never learns.

### `Cancellation`
Requests of two processes, each from `Enter` (the cleanup of an old marker)
through `Register`, the statuses it advertises in the shared slot, the check
points (`See`, `Consult`), an optional coworker subprocess (`Launch`, `Poll`), and
the three steps of the `finally` block in their order (`Unregister`, `ClearMarker`,
`ResetToIdle`). `request_cancel` is taken apart as in the code: registry, slot
id, busy status, marker, each a step, because each is a read of something another
process may change. `Escape` is a prelude that raises; `Crash` loses a process
with its registry and keeps the slot and the markers.

Abstracted: a torn or unreadable status file, the outcome of a coworker.

### `Scheduler`
Time is minutes in days. Each poller: `Poll` (`try_acquire` and the clock),
`ListTasks` (the one read of the file and the three tests), `StartTask` or `Defer`,
`TaskReturns`, `MarkRun`, `Release`. The menu-bar poller also takes and frees the
busy lock of `voice_state`, speaks after marking, and leaves its loop on an
exception; the daemon turns an exception into a result. Users add and remove
tasks, conversations come and go, processes crash (the kernel frees the lock) and
restart. `Tick` lets a minute pass once each poller that is not inside a task has
had its turn (the poll interval is 30 s).

Abstracted: the order of the tasks in the file, the notification, `enabled` (no
code sets it to false).

### `TelegramDaemon` (abstract: `TelegramInbox`)
Updates are numbered as they arrive. The Bot API is modelled from the way
`get_updates` uses it: a poll carries an offset, the server forgets everything
below it (`Receipt`) and answers with the rest (`Answer`). A daemon takes the
lifetime lock and the saved offset (`Start`), polls (`Request`), and backs off when
a poll fails (`PollFails`), which includes every idle poll with the configured
50 s and 15 s (`IdlePoll`). Of a batch it takes the updates in order: `Take` moves
the offset in memory and begins the handling, by kind of message; the agent
returns or raises; `Reply` never fails the loop; `Save` writes the offset, or fails
to. `Crash` loses the memory and frees the lock.

Abstracted: the owner check and the empty message (both "ignored"), the text, the
chunks of a reply, the length of the conversation (counted in turns of two
messages).

`TelegramInbox` is what the owner of the messages may rely on: one message at a time,
each in its turn, and only a crash goes back. `ImplementsInbox` maps its `turn` to the
message at hand, or else to the first one the next poll can bring: at the offset in
memory, or at the saved one while no daemon is up, but never below what the server
has forgotten. Polls, their failures, replies and saves that fail are stutters or the
end of a message; which daemon it is, batches and files are not seen.

### `EmailDraft`
The one pending draft of the process (`_pending_email`) and Mail's outgoing
messages in their order. `Draft` shows a message, `Pend` notes it; a send reads the
record for the recipient (`MatchRecipient`), for its age (`CheckExpiry`), for the
subject (`TakeSubject`), clears it, and `RunScript` lets Mail send the first
outgoing message of that subject: each read is a step, because tools of several
conversations run on threads of one process. Two sends at once that both took the record
before either cleared it do send twice (`raced`). `CloseByHand` is the person at the
draft's window.

### `Browser`
The Chrome profile of all processes: the flock of `browser_lock.py`, the
`_playwright` and `_context` each process keeps between calls, launches, a Chrome
that dies or is closed, and a `_get_page` that raises, which it may do with Chrome alive
too (`GetPage`). `Discard` then gives up context and lock, whether `Stop` has ended the
Chrome of the process or raised and left it running (`stranded`), and the tool tries
once more. On its page runs the login of `autofill.py`: the preview of `fill_login`, the
domain test of `confirm_login`, and what is typed. Where a page leads is any site.

### `OpenClaw`
One `_call` is a thread: configuration and validation, then for each of the tokens
left in `attempts` a connection, `connect`, the reply, a token rotated in that
reply (`stored`), the request and the wait for its answer, each wait with the
budget of the call. The Gateway accepts or rejects a token, rotates it, refuses,
delivers, answers late or with something that is no object, or dies. Frames are
abstracted to these outcomes.

### `CodingAgent`
The working tree, the committed tree, the refs, the restore lock, and the runs of
the coworker. A checkpoint is taken in three steps (`ReadStatus`, `TakeSnapshot`,
`UpdateRef`); `Write` is a whole file, which may fail half-way; the suite gives a
verdict (`Diff`, `CheckCollected`); a rollback looks at each path under the lock
(`Inspect`) and then changes them one by one (`Restore`, `RestoreRaises`); `Prune`
keeps the newest refs. `Kill` is the manager's. A person edits and commits at any
time. Subtasks and retries of a batch carry their parent's request id, so two runs
may have one ref.

### `AgentBatch`
`execute_agents_parallel`: `Submit`, a thread per subtask that launches its worker,
waits, times out, sees a cancel, gives the grace period and kills; the results in
the order they come; then retries one by one, and `Finish` with the `BatchStatus`. A
worker may have a test suite as a process of its own.

### `Providers`
`classify`, `Chain` (preferences, capabilities, configured, healthy, within budget,
or the static two), the loops of one request that walk it as providers fail, the
cooldowns, the usage file cut at its limit, and the test of the request limits
before each call of a loop. The planner's call (`Prelude`) and those that the tools of an
answer make (`ToolCalls`, at most `MaxBatch` for one answer) are recorded under the
request's id and look at no limit. A `Kept` of zero keeps every record, as in the code.
Spoken audio, recorded outside the request, is left out. Prices are those of the table in
`usage.py`.

### `History`
The SQLite file as committed, the open transaction, the session cache and its
lock of each process, `_request_sessions`, and for each request its turns and its
search. A transaction is one step, but for the one that makes the tables. A
process ends, a transaction fails, the file is damaged or removed from outside.

### `Stores` (abstract: `SavedLog`)
A JSON file that several threads and processes append to, in its five forms: the
request history, the usage records, the access log and the shared conversation
under a lock and through a temporary file of their own; the memories with
neither. A save is taken apart into lock, load, open, two writes and rename, so a
reader or a crash comes between any two. A limit of zero keeps every entry, as in the code
(`records[-0:]`).

`SavedLog` is a log with an atomic append that keeps its last entries. `ImplementsLog`
(in `Services`, of the four kinds with a lock) maps it to what a reader who takes no
lock finds in the file at that moment, so the rename is the append and every other
step, a crash among them, changes nothing. Whole files, order and no lost entry all follow.

### `AlexaBridge`
Each post is served by a thread (the token, the busy test, the lock); its task runs
on another, writes its record, sends it over Telegram and gives the lock back. The
process may end and start again.

### `Voice`
The callers of the core in the menu-bar process: the voice loop and "Ask
CampusPilot" (`People`) and the scheduler's thread. `Turn` takes the busy lock, runs
the exchanges of `_run_conversation_turn` with its 300 s limit, the confirmation
turn and the spoken reply; a listener for "Jarvis, stop" runs beside a request, one
for the wake word beside a reply, and both may still be transcribing when what they
listened for is over (`late`). `OthersSpeak` is another process that uses the same
`tts.pid`. The microphone is not modelled as a resource.

### Sum modules: `Coordination`, `Services`, `Coworkers`
The components above share no state with each other, and a state of each is small.
A sum module instantiates several of them over one set of variables: `part` names
the component whose behaviour this is, `Init` chooses it, every step is a step of
that component, and the variables of the others are `None`. Its properties are
`part = "x" => X!Property`. One run then explores all of them, and a theorem about the
sum is a theorem about the component, whose assumptions the sum restates.
`Coordination` has `Cancellation`, `ConfirmationLedger`, `EmailDraft` and `Browser`: what
threads, processes and people share. `Services` has `OpenClaw`, `Stores`, `AlexaBridge`
and `Voice`: what must come back to rest. `Coworkers` has `CodingAgent`, `AgentBatch`,
`Providers` and `History`: what requests do side by side.

### MC modules
`MCRequestExecutor`, `MCScheduler`, `MCTelegramDaemon`, `MCCoordination` and
`MCCoworkers` give the constants small values (functions over model values, and
symmetry sets); `Services` needs none.

## Runs

| Run | Checks | Bounds and why they are enough |
|---|---|---|
| `executor_safety` | `TypeOK`, `OneVoice`, `HarmlessFailure`, `LateAttempts`, `CancelIsVisible`, `CancelledIsNeverCompleted` | two candidates (a fallback and a last one) of the two kinds of loop, three iterations (enough for a retry, a second batch and the notice at the limit), batches of two, three tools: one parallel and harmless, one with a side effect, one that also needs a yes |
| `executor_unattended` | `HardGatesHold`, `EventuallyOver`, `ImplementsLifecycle` | source `scheduled` (the only one the hard gates of `_run_tool` test) at the highest autonomy level, where the soft gates are open but for the one tool that is always confirmed; three candidates, a research chain, so that a fallback falls back again |
| `scheduler_safety` | `TypeOK`, `AtMostOncePerDay`, `EditsSurvive` | two tasks, two days of two minutes, one conversation, two faults; the view leaves out a history variable nothing here reads |
| `telegram` | `TypeOK`, `NothingSkipped`, `ImplementsInbox`, `ArrivedIsFinished` | two daemons, three updates (a batch with something before and after the one at hand), a conversation of one turn, one crash |
| `coordination` | `TypeOK`, `EndedIsNotAdvertised`, `CancelIsKept`, `OneRunPerQuestion`, `OneSendPerDraft`, `ChromeIsOwned`, `FilledWhereItBelongs` | two processes with a request each and one crash; two keys, two conversations, a window of one tick, two questions; two drafting threads, two recipients, two subjects, two messages; three threads in two processes, one site, two launches, one death; threads of one process are symmetric, and the two requests with their processes |
| `services` | `TypeOK`, `OneTransmission`, `ReportsAreTrue`, `EveryCallReturns`, `NothingIsLost`, `ImplementsLog`, `LastIsTheNewest`, `OneRequestAtATime`, `BusyIsGivenBack` | two sends over two issued tokens (a rotation and the use of the old one); two writers, three saves with a limit of two (so that the file is cut) and a crash, on each of the five kinds of store; three posts and a restart; the voice loop beside the scheduler, one late listener |
| `coworkers` | `TypeOK`, `RollbackSparesOthers`, `RolledBackLeavesNothing`, `StatusIsTrue`, `WorkersAreBounded`, `CallsAreBounded`, `OneSession`, `TurnsTogether` | two coding runs over an old and a new path, with one or two request ids and one ref kept; up to three subtasks, two at once, one retry; two loops with a limit of one call, one tool call for an answer, one kind of task, a file of five records (the four calls of the bound and one more), one lost; three requests in two processes (two of the chat, one scheduled), one fault, one crash, one damage; runs and ids are symmetric |

In `coworkers` one trouble (an edit or commit by a person, a failing git call or
write) is enough: a git call that fails ends its run and a write that fails only
leaves a file, the same as the kill, which is not bounded, and of a person's edits
the properties tell apart only whether the last writer of a path is the run.

Five more runs end in a violation. They show where the code departs from what the
repository says (quoted in `PROJECT.json`, "findings"):

| Run | What it shows |
|---|---|
| `cancellation_stops_child` | a cancel from the parent's own process is not seen by the wait for a coworker |
| `scheduler_deferred_is_begun` | a task put off for a conversation is due only in its own minute |
| `sent_to_the_one_asked` | an older open draft of the same subject is what `send_email` sends, whoever it is for |
| `coding_rolls_back` | a second run of the request moved the ref: the first one's rollback restores its own edits and reports success |
| `history_search_never_raises` | on a file that is no database the search raises what `build_history_context` does not catch |

Other departures were met while modelling. The models contain the behaviour, and
no run is spent on them:

- a tool acted and its bookkeeping raised: the request goes on to the next provider
  (`NoCandidateAfterSideEffect`; `executor.py:413`, against `registry.py:47-50`);
- the model's own second call of a tool runs though nobody answered the question
  (`RunsOnlyAfterYes`; `autonomy.py:223`, against `autonomy.py:205-209`);
- a side-effect tool that was only asked about or refused counts as committed, so
  a later failure is reported as a partial execution (`executor.py:413`, against
  `executor.py:67`);
- a cancel between `register_active` and the first status sets the flag and not the
  status, which then never becomes terminal (`executor.py:783`, against
  `execution_state.py:40-42` and `282-283`);
- a prelude that raises there leaves the request in the registry (against
  `execution_state.py:300-301`) and its session in `_request_sessions`
  (`MappingIsInFlight`; against `history_capture.py:47-50`);
- a cancel during the retry delay does not stop the retry (`executor.py:172`,
  against `cancellation.py:12-13`);
- an identical call of another conversation runs on this one's question
  (`autonomy.py:216`, against `autonomy.py:224-227`);
- a marker written after the request's cleanup stays (`cancellation.py:75`, against
  `cancellation.py:88`);
- a running request is reported as no longer active while another one has the slot
  (`cancellation.py:76`, against `pages/1_Dashboard.py:66`);
- a task whose minute passes while another one runs is skipped for the day
  (`scheduler_daemon.py:58`, against `scheduled_tasks.py:45-46`);
- a restart of the Telegram daemon reprocesses the message a crash interrupted
  (against `telegram_bridge.py:46-47`), and an idle poll always ends as an error
  (`telegram_bridge.py:44`, against `settings.py:432-434`);
- two first launches in one process: the one that fails gives back the profile lock
  that the other one needs (`browser.py:86`, against the docstring of
  `browser_lock.py`); the second screen of a login is filled in without a look at the
  page, and a page may move between the look and the first screen (`autofill.py:125`);
- a `stop()` that raises is swallowed: Chrome runs on, no process drives it and the lock
  is free, and every launch fails until it is closed (`stranded`; `browser.py:134-141`,
  against `browser.py:131-132`);
- the calls of the planner, `deep_reason`, `analyze_image` and `computer_locate` look at no
  limit, so the tools of the last permitted call still go beyond it (`planner.py:162`,
  `deep_reasoning.py:27`, `vision.py:13-83`, `computer_use.py:102`); `usage.py:307-318`
  calls the limit a net between iterations, and `CallsAreBounded` says how wide it is;
- two `send_email` at once send one draft twice (`messaging.py:74`);
- the slot keeps the request of a process that died while it was advertised, until the
  next status is written (`jarvis_state.py:83`);
- a Gateway answer that is no object is reported as a failure though the message was
  delivered (`FailedWasNotDelivered`, against `openclaw_messaging.py`);
- a file whose write failed half-way is not in `files_written` and is not rolled back;
  a person's edit to a file the coworker also wrote is overwritten by its rollback;
  an edit between `git status` and the snapshot counts as the checkpoint's
  (`coding_checkpoint.py`);
- a retry in a batch whose `Popen` raises escapes `execute_agents_parallel`; a suite that
  a killed worker had started goes on (`NothingOutlivesTheBatch`, `manager.py`);
- over its budget, routing may begin with a dearer provider
  (`BudgetPicksNothingDearer`, against `provider_budget.py:18-19`); an unreadable
  `usage_history.json` makes `check_request_limits` raise;
- the memories are saved through one temporary file by everybody, without a lock: a
  reader may find half a file (`MemoriesAreWhole`, against `access_log.py:99-101`), an
  update may be lost, and the migration may run twice (`MigratedOnce`);
- `log_action` gives its flock back before the buffered line is flushed
  (`audit.py:52-75`);
- when `history.db` is removed, a cached session id is used that the new file does not
  have;
- a listener still transcribing when its request ends cancels whatever runs by then
  (`StopsOnlyItsRequest`, `voice_session.py:144-147`), and a reply stopped between two
  sentences goes on with the next one;
- in the Alexa bridge, a thread that cannot be started leaves `_run_lock` taken, and a
  JSON body that is no object gets no answer.

### Fairness
`RequestExecutor`: weak fairness of `ProgramStep`. The caller drives the
generator, a model call and a tool return or raise (each has a timeout in the
code). Nothing is assumed of the world: no cancel, no expiry, no abandonment has
to come.

`TelegramDaemon`: weak fairness of the loop of a daemon that is up, and strong
fairness of `Request` and `Answer`, because a poll may fail any number of times, the
daemon tries again each time, and the network is assumed to let one through at
last; no fairness of `Start`, of crashes or of arrivals.

`OpenClaw`: weak fairness of the step of each call, whose every wait has a timeout;
none of the Gateway. `Voice`: weak fairness of `Progress`, that is, a request ends or
times out, a question is answered or given up, a sentence begins and a killed
playback ends; of `ScheduledEnds`, and of the late listeners, whose recording has a
bounded length. Strong fairness of `LastSentence`: a reply has finitely many
sentences, and an interruption may disable the end of this one. None of a person
who speaks.

The other runs assume none.

## Theorems

| Module | Theorems |
|---|---|
| `RequestExecutorProofs` | `TypeCorrect`, `OneVoiceHolds`, `HarmlessFailureHolds`, `CancelIsVisibleHolds`, `LateAttemptsHold`, `CancelledIsNeverCompletedHolds`, `HardGatesAlwaysHold`, `UnattendedNeverWaitsHolds`, `ExecutorImplementsLifecycle` |
| `ConfirmationLedgerProofs` | `OneRunPerQuestionHolds`, `RunsWithinWindowHolds` |
| `CancellationProofs` | `MarkersWereAdvertisedHolds`, `EndedIsNotAdvertisedHolds`, `CancelIsKeptHolds` |
| `SchedulerProofs` | `TypeCorrect`, `AtMostOncePerDayHolds`, `MarkedMeansBegunHolds`, `RemovedBeginsAtMostOnceHolds`, `EditsSurviveHolds`, `VoiceAloneHolds` |
| `TelegramDaemonProofs` | `TypeCorrect`, `NothingSkippedHolds`, `StartedAgainOnlyByCrashHolds`, `HistoryIsAnsweredHolds`, `DaemonImplementsInbox` |
| `CoordinationProofs` | `TypeCorrect`, `EndedIsNotAdvertisedHolds`, `CancelIsKeptHolds`, `OneRunPerQuestionHolds`, `OneSendPerDraftHolds`, `ChromeIsOwnedHolds`, `FilledWhereItBelongsHolds` |
| `ServicesProofs` | `TypeCorrect`, `OneTransmissionHolds`, `ReportsAreTrueHolds`, `NothingIsLostHolds`, `FilesAreWholeHolds`, `StoreImplementsLog`, `LastIsTheNewestHolds`, `OneRequestAtATimeHolds` |
| `CoworkersProofs` | `TypeCorrect`, `RollbackSparesOthersHolds`, `RolledBackLeavesNothingHolds`, `StatusIsTrueHolds`, `WorkersAreBoundedHolds`, `CallsAreBoundedHolds`, `OneSessionHolds`, `TurnsTogetherHolds`, `SchemaIsWholeHolds` |

They hold for every number of candidates, tools, slots, requests, processes,
threads, runs, writers, posts and subtasks, and every window and bound, from the
named assumptions of each module (bounds are naturals, tables have their types, a
set that is counted is finite, a name such as `Nobody` is nobody's). The theorems of
`CancellationProofs` and `ConfirmationLedgerProofs` carry their module's assumption as
an ASSUME ... PROVE; those of `CoordinationProofs` about the same components discharge
it. The theorems `MarkersWereAdvertisedHolds`, `RunsWithinWindowHolds`,
`UnattendedNeverWaitsHolds`, `MarkedMeansBegunHolds`, `RemovedBeginsAtMostOnceHolds`,
`VoiceAloneHolds`, `HistoryIsAnsweredHolds`, `StartedAgainOnlyByCrashHolds`,
`FilesAreWholeHolds` and `SchemaIsWholeHolds` state properties that no run repeats; the
properties of every run that passes are theorems, but for liveness.

Proving types found two assumptions the models had left out: `Runs` is a finite set
(the bound on checkpoints counts it), and the device token is numbered from one,
zero being no token: a Gateway has at least one to issue. `Among` in `Providers` picks
from a sequence by position, because the sequences of providers have at most four
elements and the recursive `SelectSeq` is out of the provers' reach.

The arguments. *Executor*: `TypeOK` is inductive with `AttemptsCounted`, which
bounds an attempt by its phase. `OneVoice` needs `Voice`: whoever has spoken is the
current candidate, and `started` says so, so the fallback's guard excludes a second
voice. `HarmlessFailure` needs `Harmless`: while the loop is between batches, an
act at this candidate implies the committed flag. `CancelIsVisible` needs
`Cancellable`: while the loop runs the status is one with a way to cancelled.
`LateAttempts` needs `Exclusive` (two sequential calls are never in flight together)
and `Late` (what a late attempt was before it). `CancelledIsNeverCompleted` needs
`Doomed` and `Undecided`: a request cancelled in its loop reaches the final check
with the flag set. The refinement follows from the same facts, action by action.
*Ledger*: `Placed` and `Spent` tie each run to the question it used. *Cancellation*:
`Advertised` ties slot and markers to requests that were advertised, `Shown` ties
the busy slot to a request that has not finished its cleanup, or to a later one.

*Scheduler*: `SchedulerInv` adds to the properties that only the holder of the lock
is at work (`Alone`), that no task is marked for a day later than the poll's
(`Dated`), and `Counted`: a task that is neither marked for a day nor running for
it was begun on it only as often as a run went unrecorded, which holds in
particular of all that is still due. `Dated` is what turns "not marked for this
day" into "marked for none since". `Backed` and `Edited` carry the other two.
*Telegram*: `TelegramInv` says what each offset means (`Below`): under the server's
and the saved one everything is finished, under the one in memory everything but
the update at hand; `InOrder` says it of a batch. `Fresh` says that at and above
the offset in memory only earlier lives of the daemon began anything, which needs
`Alone`. `Answered` places the one unanswered turn at the end of the conversation. The
refinement needs two more facts: a batch has no gap from the offset on, and the server
keeps all of it while it is handled (`Gapless`), so the next of the batch is the next in
turn; and what is saved is never ahead of the message at hand (`Behind`), so a crash goes
back and never forward.

The sum modules' proofs have an invariant of the form `part = "x" => Parts` for each
component, and one lemma (`PartIsKept`) that says no step leaves a component.
*E-mail*: nobody has taken a draft that has no record yet (`Drafted`, `Unmade`), and a
record that was taken is still being cleared by who took it, or two raced for it
(`Pending`). *Browser*: a thread on its way to the page holds a launch that took place (`Handled`);
`Owned` adds to the property, unless two threads of a process launched or discarded at
once, that a launch on its way has the lock and finds no context, and that the Chrome of
the lock's owner is the one its playwright drives: so what `Stop` ends is its own, and
what it fails to end is all that is `stranded`; what `confirm_login` looked at is still there unless it was seen to
move (`Seen`). *OpenClaw*: `Tried`
bounds the connections by what is left of `attempts`, and only the device token can
be rejected as one; `Written` ties the frame written to the place in the call, `Told`
ties the report to what the Gateway did. *Stores*: only the holder of the lock saves
(`Held`), to an inode that is not the file (`Opened`; there is a free one because there are
more inodes than writers, a counting argument), and what it is going to write
is the file as it will still be with its entry added (`ReadExactly`, `Filled`); that
trimming commutes with appending (`TrimTwice`) makes the file exactly the trimmed
list of all saves (`Exact`), and it makes the refinement of `SavedLog`: the entries of the file
are the log, and an entry is newer than all before it because its number was drawn under
the lock. *Alexa*: only the lock's holder is at work (`Locked`), and
tasks are numbered in the order of their ends (`Numbered`), with the cardinality of
the ended ones. *Voice*: whoever waits for a request, asks or speaks its reply has the
busy lock (`Waits`, `HasBusy`).

*Coding runs*: `Owned` (only a path the run wrote is looked at) gives the first
theorem. The second needs that nothing a run writes is in a snapshot older than its
first write (`Before`), that its ref is its own until it is replaced (`OwnRef`), that
who restores has the lock (`Restoring`), and `ToDo`: a path that has the run's edit
had it when it was looked at, so the comparison cannot skip it. *Batch*: `Waited` and
`Phased` say who may be running in which phase, `Collected` that a result is
collected before its subtask goes on; the bound on workers is a cardinality argument
(`FewWorkers`). *Models*: as long as no record was pushed out, the request's records and
the lost ones are its calls, and these together with the calls that may still come without
a check (`Left`: of a loop that calls, its call and a batch; of one whose tools run, the
rest of the batch) are at most `MaxCalls + Most - 1` (`Counting`), where `Most` is a
call and a batch for every loop: a check that lets a call through has just counted fewer than the limit. The
planner's call is the first of all (`PreludeFirst`). *History*: the first transaction has the write lock and adds
no row (`Writing`); who is about to make a session has the session lock (`Making`); `Remembered`, `Cached` and
`Recorded` tie mapping, cache and rows to the request's own process and source. For
`SchemaIsWhole`, tables without a version exist only inside the transaction that is making
both (`Half`), which a crash or an error takes back whole.

*Types*. `TypeOK` of a sum is not inductive, and each component needs a few facts of
its own beside it (the conjuncts of `RestInv`). A mail thread knows its recipient from
its first step to its last and its message between taking and sending (`Informed`). A
writer has opened an inode before it writes and read an entry before it saves one
(`HasOpened`, `HasEntry`). The chain of a loop is not empty while it may still call a
provider (`ModelsRest`). The checkpoints are no more than the runs that have made one,
which bounds their order by the number of runs (`RefsTyped`).

Only model-checked: liveness (`EventuallyOver`, `ArrivedIsFinished`, `EveryCallReturns`,
`BusyIsGivenBack`), because the prover does not reason about fairness. What the two
refinements say of safety is proved; that the daemon and a store get anywhere at all is
left to those properties.

## Not modelled, and the plan

Modelled and proved: `RequestExecutor`, `ToolPolicy`, `RequestLifecycle`,
`ConfirmationLedger`, `Cancellation`, `Scheduler`, `TelegramDaemon`, `EmailDraft`,
`Browser`, `OpenClaw`, `Stores`, `AlexaBridge`, `Voice`, `CodingAgent`, `AgentBatch`,
`Providers`, `History`, `TelegramInbox`, `SavedLog`. What would come next:

1. `ExecutionState`: `transition_to` and `cancel` read by read on two threads, with the
   plan's steps (`execution_state.py:208`, `planner.py:19-21`). The executor takes each of
   them as one step.
2. An abstract specification of the scheduler's day: what a user sees of a task,
   without polls and locks.
3. The executor's chain taken from `Providers`, its tools from the modules of
   `Coordination`.

Left out for good: the tools that are one call of an external program, prompts,
context and configuration, the code graph, skills and their loading, the ranking of
history searches, dashboards and menus, the audit log's format, and audio devices:
sequential text processing or external programs, with no state shared between
steps.
