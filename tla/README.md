# A verification project for OptiDev / T3 Code

TLA+ models of the server of OptiDev (`src/ui/apps/server`) and of the part of its web client that keeps a copy
of the server's state (`src/ui/apps/web`), the TLC runs that check them on small instances, and theorems about
them that TLAPS checks for every value of the constants. Paths below are
relative to `src/ui/apps/server/src/` unless they start with `src/`. `PROJECT.json` maps every definition to
the lines it translates and lists components, runs, hazards, findings and theorems; this file explains them.

Contents: [the system](#1-the-system), [the modules](#2-the-modules), [the runs](#3-the-runs),
[fairness](#4-fairness), [findings](#5-findings), [proofs](#6-proofs), [limits](#7-limits),
[plan](#8-plan).

## 1. The system

OptiDev starts coding agents ("providers", here the codex app-server) in the user's repositories and shows
them in a web or desktop client. The server is event sourced. A client or a reactor dispatches a *command*;
the engine decides it, appends *events* to a log in SQLite, updates the projections in the same transaction
and publishes the events. *Reactors* subscribe to them and act: they start provider sessions, send turns,
capture git checkpoints. What the provider reports comes back through the *ingestion*, which dispatches more
commands.

```
 client --ws--> wsServer --dispatch--> OrchestrationEngine --tx--> SQLite: log, receipts, projections
   ^                                        |  ^
   |                    published events    |  |  commands
   +----------------------------------------+  |
                                            v  |
              ProviderCommandReactor, CheckpointReactor, ProviderRuntimeIngestion
                     |  calls                 | git         ^ runtime events
                     v                        v             |
              ProviderService --> CodexAdapter --> CodexAppServerManager --> codex processes
                     |
                     v
              provider_session_runtime (bindings)          TerminalManager --> pty processes
```

The components, with what they keep, what they do, what is hard about them, and what makes them correct:

| Component | State | Operations | Hard | Correct when |
|---|---|---|---|---|
| Orchestration engine | command queue, in-memory read model, event log, receipts | dispatch, decide, commit, publish, reconcile, start up | retries, crashes between any two steps, rollback, one worker for all | a command takes effect once and completely; answers are durable; events are published once and in order; every dispatch is answered |
| Decider, command invariants | none (a function of the read model) | one case per command type | it decides by a copy of the log's state | it sees the state of the whole log |
| Projection pipeline | SQL tables and a cursor per projector | project one event; bootstrap by replay | new projectors, crashes during replay, reads with a limit | tables hold every event; a cursor claims nothing that was not applied |
| Projections of a thread, in SQL and in memory | messages, turns, plans, activities, approvals; thread in the read model | one command's events; revert | three fibers report about one turn; reverts cut four tables and a list in memory | counts are unique, a message starts one turn, reverts remove exactly the later turns, no late report undoes what is settled |
| Provider command reactor | its queue | turn, interrupt, approval, answer, mode, stop | decides by a read model the ingestion writes too | the session it keeps is the one the user asked for |
| Provider service and session directory | binding per thread | start, route, recover, send, stop, stop all, restore | crash between start and binding; recovery while something is asked | what is stored is what runs |
| Codex app-server manager | map of sessions, pending requests | start, resume, turn, stop; exits | exits and failures while something is open; restarts over a running session | no process escapes, nobody waits for ever |
| Provider runtime ingestion | its queue, buffers of text | one handler per runtime event | reads, then writes; late events | late reports do no harm; buffers lose nothing |
| Checkpoint reactor and store | its queue, git refs | baseline, capture, revert | files change while git is waited for; failures half way through a revert | every turn has a checkpoint; files, conversation and thread agree |
| Terminal manager | table of sessions, processes, timers | open, restart, clear, close, eviction, polling, dispose | per-thread locks, awaits, late exits, kill escalation | what is shown as running runs; every process can be reached and dies when told |
| WebSocket server, client store and transport | sockets, snapshots, sequence watermark | requests, pushes, reconnects, refetch | lost pushes, stale snapshots | the client's state never goes back and catches up |
| Telegram bridge | lock, configuration and state file, offset, remembered messages | poll, filter a backlog, dispatch, relay, hand over the lock, configure | two writers of one file, deaths between steps, retries, refusals with a receipt, engines that do not know what others committed | a text is handled, or skipped as a backlog, before it is confirmed; no server echoes what it took |
| Workspace start-up, plugins, keybindings, attachments, git services, desktop shell, scripts | files, caches | read, write, watch | caches and watchers, partial failure of command sequences | not modelled, see section 7 |

Components that are not modelled, each with the reason, are in `PROJECT.json` with status `not_modelled`.

## 2. The modules

| Module | Models | EXTENDS |
|---|---|---|
| `Decider` | `decideOrchestrationCommand`, `commandInvariants.ts`, and of `projectEvent` what the decider reads | |
| `EventLog` | the event log with receipts; `StateOf`, the state a whole log adds up to | `Decider` |
| `CommandService` | abstract: one log, one receipt per command, answers; no worker, transaction or restart | `EventLog` |
| `OrchestrationEngine` | queue, worker, transaction, read model, publication, reconciliation, bootstrap, crash | `EventLog` |
| `ThreadProjections` | the projections of one thread, hot path, in SQL and in memory | `Lists` |
| `Checkpoints` | checkpoint reactor and store, with the ingestion and the provider as far as they matter to it | `Lists` |
| `Lists` | what a filter leaves of a list | |
| `TerminalManager` | sessions and processes of all terminals | |
| `ProviderSessions` | command reactor, provider service, session directory, session map and processes, and the session part of the ingestion | |
| `RuntimeIngestion` | the ingestion's handlers of text, plans, requests and ends of turns with their buffers, the lines and pending requests of the codex process, and the answers on their way back | |
| `RuntimeInvariants` | what is inductive of `RuntimeIngestion`, for its proofs | `RuntimeIngestion` |
| `LogFollower` | abstract: a log that grows and a client that shows a prefix of it and never goes back | |
| `ClientSync` | the client's snapshot and watermark, the transport's requests, the composer's send, and the server's sockets and fibers; refines `LogFollower` | |
| `TelegramBridge` | poll loop, lock, relays, configuration and state file of the bridges of several servers, and what the engine of each knows of their shared log | |
| `*_proofs` | theorems, see section 6 | the module and `TLAPS` |
| `MC*` | constants for TLC | the module |

**OrchestrationEngine.** `log`, `receipts`, `cursor` and `applied` are SQLite and survive `Crash`; the rest is
memory. `worker` is the program counter and the locals of `processEnvelope`: `TakeEnvelope` (Queue.take),
`AnswerFromReceipt` or `DecideCommand`, `AppendEvent` for each event in the transaction, `Commit` (receipt and
COMMIT), `AdoptReadModel`, `PublishEvent` for each event, `AnswerAccepted`. `PersistenceFailure` may strike
the lookup and the transaction; then come `Reconcile` or `ReconcileFails`, `RecordRejection` or
`RejectionNotRecorded`, `AnswerFailure`. Start-up is `BootstrapEvent` and `BootstrapNextProjector` (each event
in a transaction of its own, the read stops after `ReadLimit` events), `ReplayEvent` and `StartWorker`.
`applied` is not in the code: it is the set of events whose effect a projector's tables hold.

**ThreadProjections.** One action is one command with all its events, since the engine commits them together.
The tables are functions by key, or sequences where the order is used; texts and timestamps are left out.
`Reverted` applies the cut of each table in the order of the projectors, and the in-memory one. The rows of
`approvals` name a turn too; no projector cuts them.

**Checkpoints.** `reactor` is where `CheckpointReactor` waits: `Capture`, `Restore`, `Rollback`, `DeleteRefs`
are one step each, because git, the provider or the engine are awaited between them, and `EditFiles` may come
at any time. Turns and contents of files are numbers. The provider is external.
A revert that cannot be done is answered by an activity (`TellFailure`), which may fail as well (`LoseFailure`):
the code swallows that or logs it, and `unanswered` counts it.

**TerminalManager.** A stretch of code without `await` is one action, written with operators on a record of
the whole state (`Stop`, `Kill`, `Evict`, `UpdatePolling`), which follow the methods of those names. `ops` is
the lock of each thread with what its holder waits for. Session objects are numbered, because code holds on to
them after they have left the table.

**ProviderSessions.** One thread, two workers. `reactor` is where `ProviderCommandReactor` and the calls below
it wait: `Take` reads the read model, `Start`/`Recover` spawn a process and put its context in the map
(`current`), `Opened` or `OpenFails` end `thread/start` or `thread/resume`, `Upsert` stores the binding, `Bind`
dispatches the session, `Route` and `Send` are `resolveRoutableSession` and `turn/start`, `Record` the second
upsert. `IngestRead` and `IngestWrite` are `processRuntimeEvent` with the window between `getReadModel` and the
dispatch that takes effect: both workers dispatch to the engine's queue, so a dispatch of one may be in it when
the other reads. `servers` are the processes; `Exit` removes the thread's entry from the map, whichever context
it holds, as the code does. `End` kills the program or shuts it down (`runStopAll`), `Boot` restores.

**RuntimeIngestion.** A handler of the ingestion is a list of operations (`Handler`), each with what it does to the
ingestion's memory (`Memory`) and the command it dispatches (`Dispatched`). `Perform` does the next one,
`DispatchFails` ends the handler there, as `processInputSafely` does. The text of a message is the sequence of
its chunks, numbered as codex said them, so that a lost, repeated or reordered piece shows. `pending` are the
approvals and user inputs in the contexts of the manager, `asked` what codex was answered. A question the adapter
cannot read (`scope.unreadable`) becomes pending there and maps to no event (`Mapped`).

**ClientSync.** A snapshot is the number of log entries it adds up, its `snapshotSequence`. `fibers` are requests on
their way to, or in, a fiber of the server; `down` is what the socket still carries to the client. `Drop` loses
the socket with what it carries and any requests the server has not taken; `Crash` loses the server's fibers and
the publications it owed. `syncing`, `resync` (`pending` in the code), `latest` and `fetching` are the locals of
`EventRouter`; `prompt`, `optimistic`, `sending` those of `ChatView`. Ids of requests and messages are fresh in the
code; in the model an id that nothing refers to any more may stand for a new one.

**TelegramBridge.** `tick[s]` is where the poll loop of a server waits, with the lock it read, the rest of its batch
and the write under way; `flows[s]` are the domain events being relayed, each by a call of its own. `mem` is
`persistedState`, which both change, `file` what is on disk; a file that is being written reads as unparsable,
hence as the initial state (`Readable`). Telegram drops the updates below the offset it is asked from. `Receive`
decides by the offset the runtime has whether the batch may be a backlog, and by the configuration it has read
which updates are too old; `StartConfig` and `EndConfig` rewrite that file, with the reload that follows. Time is
counted in configurations: `dates` says how many there had been when an update was written.
`engine[s]` is what the read model of a server's engine has of the log the servers share: the target thread or not,
and messages of others it has missed. `Commits` goes on from the end of the log, as `projectEvent` does, so what was
missed stays missed; `Reconciles`, after a failed command, reads it and publishes it. A dispatch on a server that does
not know the thread is refused (`DispatchRefused`) and its receipt makes every later attempt fail.

Composition: `OrchestrationEngine` is decided by `Decider` and refines `CommandService`. The other modules take
a command as atomic, which is what `EffectOnce` and `ReadModelCurrent` justify; they take published events as
delivered once and in order within the life of a process, which is `PublishedInOrder` for one server per database;
and `TelegramBridge`, where several share one, answers a repeated command id from its receipt, accepted or rejected,
which is `ServiceSpec`. `ClientSync` composes the client with the server's
sockets, and its `log` is the engine's. `Checkpoints`, `ProviderSessions` and `RuntimeIngestion` share the
ingestion; each has the part of it that its own state depends on.

## 3. The runs

Passing runs visit every action of their modules. States are distinct states. Where a module has `Scopes`, a
behaviour keeps to one of several bounds: interactions that need two of one thing and none of another are
explored together without their product.

**engine** (287,481 states). Five commands with conflicting effects (two create one thread, a turn start has two
events), four dispatches of any of them with repeats, two crashes, a database an earlier release wrote, one
projector the release added, a read limit as long as that log.
- `EffectOnce`: retries, failures and crashes never apply a command twice, in part, or after a rejection that was
  recorded.
- `ReadModelCurrent`: decisions see the whole log.
- `PublishedInOrder`; `ProjectionsComplete` and `CursorsSound` for a log within the read limit.
- `ServiceSpec`: the engine implements `CommandService`, with `log`, `receipts` and `answers` mapped to
  themselves; answers stay true with it.
- `DispatchesResolve`, `StartUpTerminates`: liveness.

Two crashes let a start-up be cut off and the next one too; four dispatches allow a command, its repeat, a
conflicting one and the repeat of that; a third command adds no interaction, since the worker is sequential.

**engine_backlog** violates `CursorsSound` with a log longer than the read limit, see section 5.

**threads** (209,802 states). Five commands on two turns, two user messages, one assistant message, plan,
activity and request; two counts; two messages kept in memory. Five commands are enough to start a turn,
complete two with the same count, revert, and report late on what was removed. `TurnCountsUnique`, `StartedOnce`,
`CheckpointsAgree` (table and memory name one turn for a count), and of steps `RevertIsExact` (what a revert
removes and keeps in the tables of turns, messages, plans and activities, and in memory; approvals keep their rows),
`SettledStaysSettled` (late sessions, messages and diffs do not undo the end of a turn; a request to interrupt does,
and after it a session may show the turn as running) and `AnsweredStaysAnswered`. User messages and turns are
symmetric.

**checkpoints** (522,469 states). Two scopes. A patient user (no request while the reactor is busy), four turns, two
reverts, no failures: `ThreadAgrees` (files, conversation and thread agree once all is quiet) and
`CheckpointHoldsTurn`. The second revert may go to before or after the target of the first, and a turn may
follow each. An impatient user, a failure of any step, a reported diff: `StoredRefsExist` (what was captured can
be restored), and the liveness of `RevertsAnswered` (unless the append of the failure activity failed, each of which
costs one of the failures).

**checkpoints_diff** violates `EveryTurnCaptured`, see section 5.

**terminals** (548,534 states). Three terminals in two threads, two session objects, two processes, limits of
one and of three inactive sessions. `StatusIsTrue`, `ProcessesReachable` (while nothing has to be evicted),
`InactiveBounded`, `BusyIsMeasured`, and the liveness of `StoppedProcessesDie`. Two processes are enough for one to
replace the other and to exit or be measured late.

**sessions** (1,817,388 states). A thread created as supervised, three requests (turn, mode, stop, other call)
in any order, one fault, one end of the program, two reports unhandled at most when a process goes on.
- `RecoversWhatRan`: whenever no session is being opened, the stored binding has the mode and conversation of
  the session in the map. A program killed at any moment resumes the right conversation in the right mode.
- `NoGhostTurn`: when all reports are handled and no process has a turn, the thread shows none.
- `OnlyRestartsStrand`: a process outside the map comes only from a session started over another.
- `ConversationKept`: the stored conversation changes only for the reasons its comment names.
- `IntentsTaken`: the reactor never stays with a request.

Three requests give a session, a change to it and a use of the changed session; one fault before, between or
after; a crash too. The safety properties also hold with two faults (5.7 million states, not kept as a run).

**sessions_mode** violates `SupervisedStaysSupervised`, see section 5.

**runtime** (213,375 states). Six scopes: text that is buffered, with two turns and a failing command; text of which
the delivery mode changes; proposed plans; a process that is stopped or dies in the middle; an approval and a
question with three answers; a question the adapter cannot read. The buffer holds two chunks and messages have
three, so that it spills; one unread
line and two untaken events are enough for the process, the manager, the ingestion and the user to overtake each
other.
- `MessagesComplete`: a completed message has all that codex said of it, in order and once if it was buffered.
- `PlanKept`: a finished turn shows the last plan codex proposed in it.
- `TurnsSettle`: a finished turn leaves no message open and nothing in memory, though commands failed.
- `DecisionsAgree`: codex gets one answer to a request, the one the thread shows.
- `RequestsEnd`: what codex waits for is shown or over, if it can be read, and what the user answers ends.

**runtime_stale** violates `StaleCleared`, see section 5.

**client** (896k states). Two sends, or three commits of others, with one fault; one commit with two faults. A fault
is a lost socket, a server restart, a failing request, one that times out though it is being handled, or a
remount. Two sends let the first be in doubt while the second is typed; three commits let one be in the snapshot,
one pushed and one neither.
- `FollowerSpec`: the client implements `LogFollower`.
- `CatchesUp`: it ends up with everything committed, unless its last snapshot request failed.
- `TextKept`, `SentOnce`: no text the user sent vanishes, and none is there twice unless its failure was reported.

**telegram** (623,464 states). Thirteen scopes. One server: with three updates; that dies and fails; that reloads;
that is configured again, with a batch or with a death; whose target comes and goes; that relays more messages than
it remembers (`MaxRemembered` is 1 here, 2048 in the code), fails, reloads and dies; that has an update and a message
at once. Two servers: that hand over the lock; of which one creates the thread the other has to start a turn on; of
which one commits messages that the other publishes when a command of its own fails.
- `NothingLost`: an update Telegram was told to forget had its turn accepted or no thread to go to, or it was skipped
  as a backlog and is then older than a configuration of the bridge.
- `NoEcho`: a server sends nothing back that it has itself given to the thread, and no message twice between two
  restarts unless it has forgotten it.
- `EventuallyHandled`: every text is handled in the end, unless it was skipped or it, or one before it, was refused.

Deadlock is not checked: all the bounded models stop when their bounds are used up, and the program itself may
be idle for ever.

Every property has a mutant, a plausible bug in one mapped definition, that breaks it under the same
configuration. The mutated forms stand before the definitions they change ("Mutated form: ...") and nothing
else uses them.

## 4. Fairness

Only what the code schedules by itself is fair, and weakly.
- `OrchestrationEngine`: `Boot` and `ProcessEnvelope`. The Effect runtime runs the fibers it has. Nobody has to
  dispatch, fail, crash or restart.
- `Checkpoints`: `Reactor`. Its worker is forked for good and catches whatever a handler fails with; git
  commands have timeouts. Turns need not end.
- `TerminalManager`: the SIGKILL timers. Spawns, transcripts and exits are not fair.
- `ProviderSessions`: `ReactorStep` and `Boot`. Each wait of the reactor ends by a timeout of `sendRequest` at
  the latest: `Timeout`, or an `OpenFails` of a process that died. A live process that is asked to open a
  session answers in the model unless a fault is spent.
- `RuntimeIngestion`: the manager's reading, and the steps of the two workers, which are forked for good. Codex and
  the user need not do anything.
- `ClientSync`: the server's fibers and its broadcast, the socket's delivery, reconnection (`scheduleReconnect`
  tries for ever), the timer that sends what waits for a socket, and the timeout of a request whose answer is
  lost. That a request times out while it is still being handled is a fault and not fair.
- `TelegramBridge`: the tick and the relays of each server that runs; `setInterval` starts ticks, and what they await
  ends. Calls need not fail, the lock need not age and servers need not die.

## 5. Findings

Each is a run that violates one property, with the line of documentation it contradicts in `PROJECT.json`.

1. **A projector that is new misses events** (`engine_backlog`). `bootstrapProjector` reads with the default
   limit of 1000 events. A projector without a row in `projection_state` therefore applies the first 1000 events
   only, and the next live event moves its cursor over the rest.
2. **A reported diff suppresses the checkpoint** (`checkpoints_diff`). For every `turn.diff.updated` the
   ingestion adds a checkpoint with a placeholder ref, and the checkpoint reactor then takes the turn as
   captured. A revert to it is answered as unavailable.
3. **A supervised thread on a full-access server** (`sessions_mode`). The ingestion writes back the mode it read
   before the reactor bound a restarted session; the reactor then sees no change when the user sets the mode
   back.
4. **A refused approval stays on the screen** (`runtime_stale`). The client hides it when the failure mentions an
   unknown pending *permission* request; the server says *approval*.

Other behaviour the models show and no document of the repository speaks about (the notes of the hazards have
most of it):
- A turn overtaken by the next has no checkpoint: the reactor compares the completed turn with the one that is
  active when it gets to the event.
- Eviction takes terminals that are being started for inactive ones, when there are more of those than the limit.
- A displaced provider session that nobody can stop, and whose exit removes the entry of its successor; a turn
  that a killed program had shown and that stays; a failed first start that leaves a thread with a session in
  error and no binding; a baseline that may contain the turn's own changes.
- A message that spilled from the buffer, or was streamed, and whose completion repeats its text, is shown twice;
  a delivery mode changed by another thread's turn reorders the text of a running message.
- When the command that would show a request fails, or the adapter cannot read the questions of one, codex waits for
  an answer nobody can give.
- A request to interrupt that comes after the end of its turn makes the turn interrupted, and a session report that
  comes later still shows it as running.
- The approvals of removed turns stay in `projection_pending_approvals` after a revert.
- A revert that fails, and whose failure activity fails too, ends without a word to the user.
- A Telegram text may be skipped as a backlog when the state file could not be read, or no update was consumed yet,
  and the bridge was configured after the text was written.
- A Telegram text that comes to a server which does not know the target thread is refused for good, and with it all
  texts behind it. A server that takes over the lock may send a text of the chat back to it as `You: ...`, when
  its engine reconciles after a failed command and publishes what the former owner committed.
- A text whose send timed out, and which the user sends again, may be in the thread twice.
- A turn requested just before the process dies, after its commit and before its publication, is never started.

## 6. Proofs

TLAPS checks the theorems of eight modules, with no step left unproved. The assumptions are those of the modules
(`EngineAssumption`, `ProjectionAssumption`, `ClientAssumption`, `BridgeAssumption`, `SessionsAssumption`,
`TerminalAssumption`, `CheckpointAssumption`, `BoundsAssumption`, `NoneAssumption`, and those of `Decider` and
`EventLog`), which TLC evaluates in the runs. They say that bounds are numbers and that the sets of ids are what
their names say; the one that asks for more is `ProjectionAssumption`, by which a thread has finitely many turns,
so that its checkpoints can be counted.

**OrchestrationEngine_proofs.** `StateOf` describes the state of a log by its *last* relevant events;
`StateOfAppend` shows that `projectEvent`, applied event by event, computes the same. It is what lets the engine be
specified over the log alone. `Invariance`: `Spec => []IInv`. Neither the safety properties nor their
conjunction is inductive. `EffectOnce` is preserved by `Commit` only if the receipt is still absent and the
events in `worker` are those `Decide` gives for the log as it is; that is `TransactionDecided`, which needs the
read model to have been current at the decision (`ReadModelCurrent`), which needs `worker.next` to be the state
of the log plus the events appended so far (`TransactionDecided`, `CommittedVisible`), which rests on
`StateOfAppend`. `RejectedForGood` says that a rejection in hand is still one by the time it is recorded;
`PublishedCount` counts published events step by step; `ReplayedPrefix` and `NothingInMemory` cover start-up and
crashes; `StartIsLogEnd` gives `ReconcileFindsNothing`. From it: `EffectOnceHolds`, `AnswersDurableHolds`,
`ReadModelCurrentHolds`, `PublishedInOrderHolds`, `ReconcileFindsNothingHolds`, and `EngineImplementsService`:
every step is an `Accept`, `Reject` or `AnswerDispatch` of `CommandService`, or a stutter.
`CursorsSoundHolds` and `ProjectionsCompleteHolds` assume that the log an earlier release left fits in one read of the
event store (run `engine_backlog` shows what happens otherwise). Then no projector ever lags by more than one
read, and one that is being bootstrapped by no more than what is left of its read (`LagBounded`), so the end of
the read is the end of its lag, and a live event moves its cursor by one. A crash in between only starts the
read again.

**ThreadProjections_proofs.** `TurnTable /\ StartersRequested /\ TurnCountsUnique /\ StartedOnce` is inductive:
the message that waits must have been requested and must not be in a row yet, or two rows could come to share
it. `TurnCountsUniqueHolds`, `StartedOnceHolds`, and the step facts `SettledStaysSettledHolds`, whose cases are the
sessions, messages and diffs that name an ended turn, and `AnsweredStaysAnsweredHolds`, for all numbers of turns,
messages and commands.
The lists need more than the tables: `MemInv` says that no message is in one twice and that checkpoints are in the
order of their counts (`ListsOK`), and that every turn with a count has its checkpoint in memory (`Agree`). A revert
cuts a list to the elements at some positions (`Keep`), and what a cut preserves follows from the positions kept
being increasing (`KeepMap`). No two checkpoints have the same turn, so there are at most as many as turns, and none
is dropped for `MAX_THREAD_CHECKPOINTS` while there are no more turns than that. From it: `CheckpointsAgreeHolds`,
`RevertIsExactHolds`, and `TypesHold`.

**ClientSync_proofs.** `FollowsLog`: the client implements `LogFollower`, for any numbers of texts, ids and faults.
That a snapshot never takes the store back rests on ids: the id of the awaited request is carried by no other
request, answer or message, and whatever may still be answered under it was read, or will be read, from a log at
least as long as the one that is shown (`IInv`). The watermark plays no part in it, it only saves requests.
`TextNeverLost` has an invariant of its own (`Composed`): the optimistic copy of what is in flight is there, and a
snapshot removes it only when it shows the message. `SentOncePerReport` counts the copies of a text: those in the
thread, in the composer and in requests the server has yet to handle. Every step moves a copy; only a reported failure,
which puts the text back while its request may still be under way, makes one more, and `reported` counts it.

**TelegramBridge_proofs.** `NothingIsLost` rests on `OffsetsAlwaysSafe`: call an offset safe if every update up to it
was handled or skipped; then the offsets in the memory of every server, in the file, in every write under way and in
every state a relay has read are safe, and the batch of a tick continues where its server's offset ends
(`OffsetsSafe`, `TickSafe`). An old state that is written last, or a state read back as the initial one, can therefore
only repeat updates, which receipts answer, or skip what is older than a configuration (`SkippedOld`), never pass
anything else. `NothingEchoed` has two parts. `OriginInv`: what a server gave to the thread is never ahead of its
own engine's read model, so it is published there once, and the one relay of it finds its origin still remembered;
a start begins with a read model that has it. `SendInv`: a message is remembered before the one relay that sends it goes
on, so that a server sends it once between two restarts, unless it has remembered so many since that this one
is forgotten.

**ProviderSessions_proofs.** `SessionsConsistent`: `Spec => []IInv`. `RecoversWhatRan` says nothing while a session is
being opened, so the invariant has to say what the reactor then knows: the map holds the session it started, or
nothing when its process has exited (`StartedIsCurrent`), and the conversation it goes on with is the stored one
unless that is given up (`GoesOn`); a program that has ended runs nothing (`NothingRuns`), so the one that starts
again finds an empty map. From it: `RecoversWhatRanHolds`, `OnlyRestartsStrandHolds`, `ConversationKeptHolds`.
`NoGhostTurnHolds` is about what is left when the queue has run empty; `TurnsEnd` says why nothing can be: a turn that
is shown, or that a report still under way starts, is run by a live process or its end is queued behind.

**TerminalManager_proofs.** `InvHolds`: sessions and processes refer to each other. A session has a process exactly
while it is shown as running, that process lives, was not stopped and tells this session of its exit; a process
nobody listens to is the process of no session (`Linked`). While there are no more terminals than the limit, no
session is evicted and every process that runs is the one of its terminal's session (`Reach`). Every handler is made
of a few operations on one record of state, with a lemma for each. From it: `StatusHolds`, `ReachableHolds`,
`BusyHolds`, `TypesHold`. `BoundHolds` is about eviction, which removes the sessions that were updated first: every set
of sessions has an oldest one (`Ordered`), so those that stay are at most as many as the limit. `CloseAll` is a
recursive function, a step for each session; what it leaves is shown by induction on how many it went through.

**Checkpoints_proofs.** `StoredRefsHold` says that each checkpoint whose ref the reactor made has it in the store. Refs
are named by counts, so the invariant only has to add that the step before a report has set the ref, and that a
revert under way goes to a count of the thread, above which it deletes. `CheckpointsHold` and `ThreadHolds` speak of
a thread whose user waits for the reactor while nothing fails (`Undisturbed`); for it the invariant tells five phases
apart (`Asked`, `Running`, `Ended`, `Resting`, `Reverted`) and what files, conversation and refs are in each.

**RuntimeIngestion_proofs.** `DecisionsHold`. A request is on its way to the manager, pending in it, or answered, and
each of these at most once (`UnreadOnce`, `PendingOnce`, `Unanswered`). What tells the thread of an answer is in one
place of three: an event nobody took, an operation of the handler under way, or an activity of the thread
(`ToldOnce`), and it carries the decision that was written to codex (`Outcome`). Every step but an answer moves one of
these or loses it; the answer removes the request from the pending ones in the step that makes the event, so no
second answer finds it. A process that is resumed has a new number, so what a former one was asked is never taken
for its own.
`TurnsSettleHolds` needs the order of what waits. An event or line has a position, before or behind others (`Ahead`),
and a step is seen as moving positions: at most one entry is new, the others keep their order (`Moved`). So the end
of a turn waits behind all of its messages (`InOrder`), and the exit of a process before whatever its successor says
(`ExitsFirst`): when the handler of an end begins, nothing of the turn comes any more (`Over`). What is left to do is
always the rest of one of a few handlers (`TodoForm`); in that of a turn, whatever is still open of it has its flush and
its completion before the turn is forgotten (`Swept`). All that is open of the process the thread has is remembered
(`OpenRemembered`), so nothing is open when the turn is forgotten, whichever commands failed before.

`MessagesCompleteHolds` and `PlanKeptHolds` follow the chunks of a message. Those that the ingestion has not worked in
are in the lines that wait (`Left`) or in hand of the handler under way (`InHand`); together (`Coming`) they are always
an end of the message (`Remaining`), and in the order in which codex spoke (`InSequence`, `Successive`). The
operations under way agree with what was said: the one that takes a chunk has the next one, and a flush or a
completion comes only when nothing more of the message does (`TodoAgrees`). As long as no command failed, every chunk is
shown, in the buffer or to come, and a message is complete only when none is in the buffer or to come (`Kept`). One
that is buffered throughout is a beginning in the buffer and the rest to come (`Fresh`), or it is shown as a whole
and nothing can append to it any more (`Settled`). Of a plan, a beginning is in the cache, the rest is to come, and so
is what proposes it, its own completion or the end of its turn (`Flows`); or it was proposed and, when it is the last
of its turn, is what the thread shows (`Proposed`). A line that maps to no event is
dropped, and since it is a request nothing of a message goes with it (`SpokenStay`).
All of this is said of the process the thread has now: a new one has
said nothing that has begun until the exit of the last one is handled (`ExitsBefore`). The steps outside the ingestion
are seen as adding a line to what is heard (`Heard`), those of the ingestion as working in one chunk or leaving what
is to come as it is (`Stays`). The invariants are in `RuntimeInvariants`.

Only model-checked: all liveness (`DispatchesResolve`, `StartUpTerminates`, `RevertsAnswered`,
`StoppedProcessesDie`, `IntentsTaken`, `RequestsEnd`, `CatchesUp`, `EventuallyHandled`), which the prover cannot do
under fairness. Every invariant and action property of a passing run is a theorem. Induction over numbers and the
recursion of `Keep` and `CloseAll` are not out of reach: a set of numbers that is not empty has a least element,
and a recursive function that is defined by CHOOSE is what its equation says once one such function is shown
to exist.

## 7. Limits

- Engine: SQLite transactions are atomic and durable. A failing COMMIT, which is a defect and would end the
  worker, is not modelled. Payloads are the ids and modes the decider reads.
- Projections: one thread, on the hot path. `latestTurn` and timestamps are left out; `CheckpointsAgree` is stated
  up to `MAX_THREAD_CHECKPOINTS`. System messages are never sent. The rows that a replay writes projector by
  projector are not modelled. Attachments are files that are deleted from inside the command's transaction: a
  rollback after that restores the rows and not the files.
- Checkpoints: one thread in a git workspace. Fibers that only forward events are not steps. Auxiliary turns,
  session restarts and the cut of the list at `MAX_THREAD_CHECKPOINTS` are left out. What a rollback during a
  running turn does depends on the provider.
- Terminals: transcripts, `write`, `resize`, ties of `updatedAt` and a kill that throws are left out.
  `dispose` may leave a process whose spawn was under way; no property forbids it.
- Sessions: one thread, one provider. Models and working directories, sessions started from `optidevRunner.ts` and
  rollbacks from the checkpoint reactor are left out. Turn starts are published once, so the cache of handled
  ones is not modelled. `SupervisedStaysSupervised` is about the mode the reactor reads when it takes the turn.
- Runtime events: one thread. The caches of the ingestion do not expire (120 minutes) or overflow. Activities that
  one event turns into one command, titles and collaboration receivers are left out, and so is
  `beginFollowingResumedThread`, which polls a resumed thread and emits what it finds there.
- Client: one client and one thread; of the requests only snapshots and the start of turns; the welcome, of which
  there is one per connection, has no thread to open. Threads that exist as local drafts are left out.
- Telegram: one bot, one chat and at most one attached thread, which comes and goes as a whole; a change of token or
  chat is left out. A lock ages by a step of its own, so two servers may each take it for the other's: that both
  then poll is in the model. An update has a date in seconds and a configuration one in milliseconds, so an update may
  look older than the configuration it follows: `UpdateArrives` gives it either date at any time. A reconciliation
  reads all that lies ahead, not the first 1000 events. Texts are
  left out: of a message that is streamed the relay sends the text of the first event it sees, and no more of it.
- Terminals: a spawn either throws or gives a process; a throw after the process was spawned, while its handlers are
  registered, upon which `Manager.ts:667-669` kills it, is left out.

Not modelled:
- Queries (checkpoint diff, workspace entries), loggers, health probes, pty wrappers, schemas, wiring and
  command-line parsing change no state the rest depends on.
- Git services are sequences of git and gh commands for one request; their state is git's own, and a model of them
  would be one of git.
- Keybindings, browser-local drafts and attachments are single-writer files and stores.
- The workspace life cycle (`optidevRunner.ts`, `optidevLifecycle.ts`) is run by hand from a command line, one step
  at a time, and acts through commands to the engine.
- The desktop shell supervises the backend process and the updater. Two things were seen while reading it: when
  `quitAndInstall` fails, the backend it stopped is not started again; and after an `error` event of the updater
  that no check or download caused, the button offers a retry that `installDownloadedUpdate` and
  `downloadAvailableUpdate` refuse.
- The user interface apart from sending a message and answering requests renders state and dispatches one command
  per handler.

## 8. Plan

What would add most from here:

1. *DesktopShell*: supervision of the backend process, the update machine and quitting, with a property for each of
   the two observations in section 7.
2. The replay of thread projections projector by projector, with attachments, as a second way through
   `ThreadProjections`.
3. *TerminalHistory*: the debounced writes of transcripts against clear, close and eviction.
4. *WorkspaceLifecycle*: the active session in its file against starts and stops that fail half way.
