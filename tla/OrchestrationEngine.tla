------------------------- MODULE OrchestrationEngine -------------------------
(***************************************************************************)
(* The orchestration engine of the server: a queue of dispatched commands, *)
(* one worker that decides each command against an in-memory read model    *)
(* and commits its events, the projector cursors and its receipt in one    *)
(* SQL transaction, a hot stream of committed events, and a start-up that  *)
(* brings projections and read model up to date with the log.              *)
(*                                                                         *)
(* Source: orchestration/Layers/OrchestrationEngine.ts, the event store    *)
(* and receipt repository under persistence/Layers, and the generic part   *)
(* (cursors, bootstrap, order of projectors) of ProjectionPipeline.ts.     *)
(*                                                                         *)
(* The process may die between any two steps.  SQLite keeps committed      *)
(* transactions and forgets the open one; everything else is memory.       *)
(***************************************************************************)
EXTENDS EventLog, SequencesExt

CONSTANTS
  ProjectorOrder,  \* the projectors, in the order the pipeline runs them
  NewProjectors,   \* projectors this release added: no projection_state row yet
  ReadLimit,       \* DEFAULT_READ_FROM_SEQUENCE_LIMIT
  NoCommand,
  MaxDispatches,   \* bound: dispatch calls in a behaviour
  MaxCrashes       \* bound: process deaths in a behaviour

Projectors == {ProjectorOrder[i] : i \in DOMAIN ProjectorOrder}

ASSUME EngineAssumption ==
  /\ ProjectorOrder \in Seq(Projectors)
  /\ ReadLimit \in Nat
  /\ NoCommand \notin CommandIds
  /\ MaxDispatches \in Nat
  /\ MaxCrashes \in Nat

VARIABLES
  \* SQLite
  log,        \* orchestration_events: the event with sequence n is log[n]
  receipts,   \* orchestration_command_receipts, by command id
  cursor,     \* projection_state.last_applied_sequence, 0 for a missing row
  applied,    \* the sequences whose effect a projector's tables contain
  \* memory
  phase,      \* "down", "bootstrap", "replay" or "running"
  booting,    \* bootstrap: position in ProjectorOrder, events left of the read
  queue,      \* commandQueue
  readModel,  \* the in-memory read model
  published,  \* what eventPubSub carried in this lifetime, as sequences
  base,       \* readModel.snapshotSequence when the worker started
  worker,     \* where processEnvelope is, and its locals
  \* what the outside has seen
  answers,    \* every answer given to a dispatch of the command so far
  dispatches, \* number of dispatch calls
  crashes     \* number of process deaths

durable  == <<log, receipts, cursor, applied>>
boot     == <<phase, booting, base>>
outside  == <<answers, dispatches, crashes>>
vars == <<durable, boot, queue, readModel, published, worker, outside>>

-----------------------------------------------------------------------------
Service == INSTANCE CommandService

(* Where the worker can be in processEnvelope. *)
WorkerStep == {"idle", "lookup", "transaction", "committed", "publish",
               "failed", "refuse", "answer"}

Worker == [step   : WorkerStep,
           cmd    : CommandIds \cup {NoCommand},
           start  : Nat,                      \* dispatchStartSequence
           events : Seq(Event(CommandIds)),   \* eventBases
           done   : Nat,                      \* events appended, then published
           next   : ReadModel,                \* nextReadModel
           error  : {"none", "invariant", "persistence"}]

IdleWorker == [step |-> "idle", cmd |-> NoCommand, start |-> 0, events |-> << >>,
               done |-> 0, next |-> EmptyReadModel, error |-> "none"]

Min2(m, n) == IF m <= n THEN m ELSE n

-----------------------------------------------------------------------------
(* The projector state an earlier release left behind: every projector it *)
(* had is level with the log, those it did not have never ran.            *)
Init ==
  /\ log = LegacyLog
  /\ receipts = LegacyReceipts
  /\ cursor = [p \in Projectors |-> IF p \in NewProjectors THEN 0 ELSE Len(LegacyLog)]
  /\ applied = [p \in Projectors |-> 1 .. cursor[p]]
  /\ phase = "down"
  /\ booting = [index |-> 1, left |-> ReadLimit]
  /\ base = 0
  /\ queue = << >>
  /\ readModel = EmptyReadModel
  /\ published = << >>
  /\ worker = IdleWorker
  /\ answers = [c \in CommandIds |-> {}]
  /\ dispatches = 0
  /\ crashes = 0

-----------------------------------------------------------------------------
(* Start-up: projectionPipeline.bootstrap, then the replay of readAll().  *)

Start ==
  /\ phase = "down"
  /\ phase' = "bootstrap"
  /\ booting' = [index |-> 1, left |-> ReadLimit]
  /\ UNCHANGED <<durable, base, queue, readModel, published, worker, outside>>

(* Mutated form: the cursor is stored once, at the end of the read. *)
BootstrapEvent_CursorAhead ==
  /\ phase = "bootstrap"
  /\ booting.index <= Len(ProjectorOrder)
  /\ booting.left > 0
  /\ LET p == ProjectorOrder[booting.index] IN
       /\ cursor[p] < Len(log)
       /\ cursor' = [cursor EXCEPT ![p] = Len(log)]
       /\ applied' = [applied EXCEPT ![p] = @ \cup {cursor[p] + 1}]
  /\ booting' = [booting EXCEPT !.left = @ - 1]
  /\ UNCHANGED <<log, receipts, phase, base, queue, readModel, published, worker, outside>>

(* runProjectorForEvent, from a projector's own cursor: each event in a   *)
(* transaction of its own.  The read stops after ReadLimit events.        *)
BootstrapEvent ==
  /\ phase = "bootstrap"
  /\ booting.index <= Len(ProjectorOrder)
  /\ booting.left > 0
  /\ LET p == ProjectorOrder[booting.index] IN
       /\ cursor[p] < Len(log)
       /\ cursor' = [cursor EXCEPT ![p] = @ + 1]
       /\ applied' = [applied EXCEPT ![p] = @ \cup {cursor[p] + 1}]
  /\ booting' = [booting EXCEPT !.left = @ - 1]
  /\ UNCHANGED <<log, receipts, phase, base, queue, readModel, published, worker, outside>>

(* Mutated form: the read ends with its first event. *)
BootstrapNextProjector_Early ==
  /\ phase = "bootstrap"
  /\ booting.index <= Len(ProjectorOrder)
  /\ booting.left < ReadLimit \/ cursor[ProjectorOrder[booting.index]] = Len(log)
  /\ booting' = [index |-> booting.index + 1, left |-> ReadLimit]
  /\ UNCHANGED <<durable, phase, base, queue, readModel, published, worker, outside>>

(* Mutated form: the read waits for a full page. *)
BootstrapNextProjector_FullPage ==
  /\ phase = "bootstrap"
  /\ booting.index <= Len(ProjectorOrder)
  /\ booting.left = 0
  /\ booting' = [index |-> booting.index + 1, left |-> ReadLimit]
  /\ UNCHANGED <<durable, phase, base, queue, readModel, published, worker, outside>>

BootstrapNextProjector ==
  /\ phase = "bootstrap"
  /\ booting.index <= Len(ProjectorOrder)
  /\ booting.left = 0 \/ cursor[ProjectorOrder[booting.index]] = Len(log)
  /\ booting' = [index |-> booting.index + 1, left |-> ReadLimit]
  /\ UNCHANGED <<durable, phase, base, queue, readModel, published, worker, outside>>

(* The read model is then replayed from the whole log, event by event.    *)
BootstrapEnds ==
  /\ phase = "bootstrap"
  /\ booting.index > Len(ProjectorOrder)
  /\ phase' = "replay"
  /\ UNCHANGED <<durable, booting, base, queue, readModel, published, worker, outside>>

ReplayEvent ==
  /\ phase = "replay"
  /\ readModel.seq < Len(log)
  /\ readModel' = ProjectEvent(readModel, log[readModel.seq + 1], readModel.seq + 1)
  /\ UNCHANGED <<durable, boot, queue, published, worker, outside>>

(* Mutated form: the replay uses the default read limit. *)
StartWorker_Limited ==
  /\ phase = "replay"
  /\ readModel.seq \in {Len(log), ReadLimit}
  /\ phase' = "running"
  /\ base' = readModel.seq
  /\ UNCHANGED <<durable, booting, queue, readModel, published, worker, outside>>

(* readAll() has no limit.  The worker is forked and dispatch works. *)
StartWorker ==
  /\ phase = "replay"
  /\ readModel.seq = Len(log)
  /\ phase' = "running"
  /\ base' = readModel.seq
  /\ UNCHANGED <<durable, booting, queue, readModel, published, worker, outside>>

-----------------------------------------------------------------------------
(* dispatch: offer the envelope and wait for its Deferred. *)
Dispatch(c) ==
  /\ phase = "running"
  /\ dispatches < MaxDispatches
  /\ queue' = Append(queue, c)
  /\ dispatches' = dispatches + 1
  /\ UNCHANGED <<durable, boot, readModel, published, worker, answers, crashes>>

(* Queue.take *)
TakeEnvelope ==
  /\ phase = "running"
  /\ worker.step = "idle"
  /\ queue # << >>
  /\ worker' = [IdleWorker EXCEPT !.step = "lookup", !.cmd = Head(queue),
                                  !.start = readModel.seq]
  /\ queue' = Tail(queue)
  /\ UNCHANGED <<durable, boot, readModel, published, outside>>

Resolve(answer) ==
  /\ answers' = [answers EXCEPT ![worker.cmd] = @ \cup {answer}]
  /\ worker' = IdleWorker

FailWith(error) ==
  worker' = [worker EXCEPT !.step = "failed", !.error = error]

(* A receipt of the command id answers a repeated dispatch. *)
AnswerFromReceipt ==
  /\ worker.step = "lookup"
  /\ receipts[worker.cmd] # NoReceipt
  /\ Resolve(receipts[worker.cmd])
  /\ UNCHANGED <<durable, boot, queue, readModel, published, dispatches, crashes>>

(* Mutated form: an accepted command id is not recognised. *)
DecideCommand_NoDeduplication ==
  /\ worker.step = "lookup"
  /\ receipts[worker.cmd] # Rejected
  /\ IF Legal(Commands[worker.cmd], readModel)
     THEN worker' = [worker EXCEPT
            !.step = "transaction",
            !.events = Decide(Commands[worker.cmd], worker.cmd, readModel),
            !.next = readModel]
     ELSE FailWith("invariant")
  /\ UNCHANGED <<durable, boot, queue, readModel, published, outside>>

(* decideOrchestrationCommand, against the in-memory read model. *)
DecideCommand ==
  /\ worker.step = "lookup"
  /\ receipts[worker.cmd] = NoReceipt
  /\ IF Legal(Commands[worker.cmd], readModel)
     THEN worker' = [worker EXCEPT
            !.step = "transaction",
            !.events = Decide(Commands[worker.cmd], worker.cmd, readModel),
            !.next = readModel]
     ELSE FailWith("invariant")
  /\ UNCHANGED <<durable, boot, queue, readModel, published, outside>>

(* One turn of the loop in the transaction: append, projectEvent in       *)
(* memory, projectionPipeline.projectEvent.  Nothing is visible yet.      *)
AppendEvent ==
  /\ worker.step = "transaction"
  /\ worker.done < Len(worker.events)
  /\ worker' = [worker EXCEPT
       !.done = @ + 1,
       !.next = ProjectEvent(@, worker.events[worker.done + 1], Len(log) + worker.done + 1)]
  /\ UNCHANGED <<durable, boot, queue, readModel, published, outside>>

(* The accepted receipt and COMMIT.  Every projector ran for every event  *)
(* and moved its cursor, from wherever it was, to the last one.           *)
Commit ==
  /\ worker.step = "transaction"
  /\ worker.done = Len(worker.events)
  /\ log' = log \o worker.events
  /\ receipts' = [receipts EXCEPT ![worker.cmd] = Accepted(Len(log'))]
  /\ cursor' = [p \in Projectors |-> Len(log')]
  /\ applied' = [p \in Projectors |-> applied[p] \cup (Len(log) + 1 .. Len(log'))]
  /\ worker' = [worker EXCEPT !.step = "committed"]
  /\ UNCHANGED <<boot, queue, readModel, published, outside>>

(* The receipt lookup, an append, a projector or the receipt upsert fails: *)
(* the transaction, if there is one, is rolled back.                       *)
PersistenceFailure ==
  /\ worker.step \in {"lookup", "transaction"}
  /\ FailWith("persistence")
  /\ UNCHANGED <<durable, boot, queue, readModel, published, outside>>

(* Mutated form: the count of events to publish is not reset. *)
AdoptReadModel_NoReset ==
  /\ worker.step = "committed"
  /\ readModel' = worker.next
  /\ worker' = [worker EXCEPT !.step = "publish"]
  /\ UNCHANGED <<durable, boot, queue, published, outside>>

(* readModel = committedCommand.nextReadModel *)
AdoptReadModel ==
  /\ worker.step = "committed"
  /\ readModel' = worker.next
  /\ worker' = [worker EXCEPT !.step = "publish", !.done = 0]
  /\ UNCHANGED <<durable, boot, queue, published, outside>>

PublishEvent ==
  /\ worker.step = "publish"
  /\ worker.done < Len(worker.events)
  /\ published' = Append(published, Len(log) - Len(worker.events) + worker.done + 1)
  /\ worker' = [worker EXCEPT !.done = @ + 1]
  /\ UNCHANGED <<durable, boot, queue, readModel, outside>>

AnswerAccepted ==
  /\ worker.step = "publish"
  /\ worker.done = Len(worker.events)
  /\ Resolve(Accepted(Len(log)))
  /\ UNCHANGED <<durable, boot, queue, readModel, published, dispatches, crashes>>

-----------------------------------------------------------------------------
(* The catch handler. *)

(* reconcileReadModelAfterDispatchFailure reads what the log holds after   *)
(* dispatchStartSequence, up to the read limit.                            *)
Persisted == [i \in 1 .. Min2(Len(log) - worker.start, ReadLimit) |-> worker.start + i]

(* What it finds is replayed into the read model and published.           *)
Reconcile ==
  /\ worker.step = "failed"
  /\ readModel' = IF Persisted = << >> THEN readModel
                  ELSE FoldLeft(LAMBDA m, i : ProjectEvent(m, log[i], i), readModel, Persisted)
  /\ published' = published \o Persisted
  /\ worker' = [worker EXCEPT !.step = "refuse"]
  /\ UNCHANGED <<durable, boot, queue, outside>>

(* Its own failure is logged and swallowed. *)
ReconcileFails ==
  /\ worker.step = "failed"
  /\ worker' = [worker EXCEPT !.step = "refuse"]
  /\ UNCHANGED <<durable, boot, queue, readModel, published, outside>>

(* An invariant error is recorded as a rejected receipt; a failure to     *)
(* record it is swallowed.                                                *)
RecordRejection ==
  /\ worker.step = "refuse"
  /\ worker.error = "invariant"
  /\ receipts' = [receipts EXCEPT ![worker.cmd] = Rejected]
  /\ worker' = [worker EXCEPT !.step = "answer"]
  /\ UNCHANGED <<log, cursor, applied, boot, queue, readModel, published, outside>>

RejectionNotRecorded ==
  /\ worker.step = "refuse"
  /\ worker' = [worker EXCEPT !.step = "answer"]
  /\ UNCHANGED <<durable, boot, queue, readModel, published, outside>>

(* Mutated form: every failure is answered as a rejection. *)
AnswerFailure_AlwaysRejected ==
  /\ worker.step = "answer"
  /\ Resolve(Rejected)
  /\ UNCHANGED <<durable, boot, queue, readModel, published, dispatches, crashes>>

(* Mutated form: only invariant errors are answered. *)
AnswerFailure_OnlyInvariant ==
  /\ worker.step = "answer"
  /\ worker.error = "invariant"
  /\ Resolve(Rejected)
  /\ UNCHANGED <<durable, boot, queue, readModel, published, dispatches, crashes>>

AnswerFailure ==
  /\ worker.step = "answer"
  /\ Resolve(IF worker.error = "invariant" THEN Rejected ELSE Failed)
  /\ UNCHANGED <<durable, boot, queue, readModel, published, dispatches, crashes>>

-----------------------------------------------------------------------------
(* The process dies, or the layer's scope closes: the worker is cut off   *)
(* wherever it is, an open transaction is rolled back, and dispatchers    *)
(* never get an answer.                                                   *)
Crash ==
  /\ phase # "down"
  /\ crashes < MaxCrashes
  /\ crashes' = crashes + 1
  /\ phase' = "down"
  /\ base' = 0
  /\ queue' = << >>
  /\ readModel' = EmptyReadModel
  /\ published' = << >>
  /\ worker' = IdleWorker
  /\ UNCHANGED <<durable, booting, answers, dispatches>>

Boot ==
  \/ BootstrapEvent
  \/ BootstrapNextProjector
  \/ BootstrapEnds
  \/ ReplayEvent
  \/ StartWorker

ProcessEnvelope ==
  \/ TakeEnvelope
  \/ AnswerFromReceipt
  \/ DecideCommand
  \/ AppendEvent
  \/ Commit
  \/ AdoptReadModel
  \/ PublishEvent
  \/ AnswerAccepted
  \/ Reconcile
  \/ ReconcileFails
  \/ RecordRejection
  \/ RejectionNotRecorded
  \/ AnswerFailure

Next ==
  \/ Start
  \/ Boot
  \/ \E c \in CommandIds : Dispatch(c)
  \/ ProcessEnvelope
  \/ PersistenceFailure
  \/ Crash

Spec == Init /\ [][Next]_vars

(* The runtime keeps running the fibers it has: bootstrap and the forked  *)
(* worker go on as long as the process lives.  Nobody has to dispatch,    *)
(* nothing has to fail, and nobody has to restart a dead process.         *)
FairSpec == Spec /\ WF_vars(Boot) /\ WF_vars(ProcessEnvelope)

-----------------------------------------------------------------------------
(* The shape of the state. *)
TypeOK ==
  /\ log \in Seq(Event(CommandIds))
  /\ receipts \in [CommandIds -> Receipt]
  /\ cursor \in [Projectors -> Nat]
  /\ applied \in [Projectors -> SUBSET Nat]
  /\ phase \in {"down", "bootstrap", "replay", "running"}
  /\ booting \in [index : 1 .. Len(ProjectorOrder) + 1, left : 0 .. ReadLimit]
  /\ base \in Nat
  /\ queue \in Seq(CommandIds)
  /\ readModel \in ReadModel
  /\ published \in Seq(Nat)
  /\ worker \in Worker
  /\ worker.step # "idle" => worker.cmd \in CommandIds
  /\ answers \in [CommandIds -> SUBSET Answer]
  /\ dispatches \in 0 .. MaxDispatches
  /\ crashes \in 0 .. MaxCrashes

(* However often a command is dispatched, and wherever the process died in *)
(* between, the log holds its events at most once, all of them or none,    *)
(* and its receipt says which.                                             *)
EffectOnce == \A c \in CommandIds : ReceiptMatches(log, c, receipts[c])

(* A dispatcher that was told a sequence can rely on it: the receipt with  *)
(* that sequence is in the database and stays there through every later    *)
(* failure and restart.                                                    *)
AnswersDurable ==
  \A c \in CommandIds : \A answer \in answers[c] :
    answer.status = "accepted" => receipts[c] = answer

(* The worker decides against the state the log adds up to: the read model *)
(* lags the log only between COMMIT and the assignment that follows it.    *)
ReadModelCurrent ==
  phase = "running" /\ worker.step # "committed" => readModel = StateOf(log)

(* Once the server is running, the tables of every projector contain the   *)
(* effect of every event, also for a projector that a release added.       *)
ProjectionsComplete ==
  phase = "running" => \A p \in Projectors : applied[p] = 1 .. Len(log)

(* A cursor never claims more than was applied: a later bootstrap that     *)
(* resumes from it misses no event.                                        *)
CursorsSound ==
  \A p \in Projectors : applied[p] = 1 .. cursor[p]

(* s counts on from n. *)
Consecutive(s, n) == s = [i \in 1 .. Len(s) |-> n + i]

(* Subscribers see committed events only, each once, in log order and      *)
(* without a gap, and an idle worker has published everything it wrote.    *)
PublishedInOrder ==
  phase = "running" =>
    /\ Consecutive(published, base)
    /\ base + Len(published) <= Len(log)
    /\ worker.step \in {"idle", "lookup", "failed", "refuse", "answer"}
         => base + Len(published) = Len(log)

(* With a transactional event store the catch handler finds nothing to     *)
(* replay: a failed command has left no event behind.                      *)
ReconcileFindsNothing ==
  worker.step = "failed" => Persisted = << >>

(* The engine keeps the promise of CommandService. *)
ServiceSpec == Service!Spec

(* Every dispatch in the queue is taken from it and resolved, or the       *)
(* process dies: no failure of a command stops the worker.                 *)
Outstanding(c) == worker.cmd = c \/ \E i \in DOMAIN queue : queue[i] = c
DispatchesResolve == \A c \in CommandIds : Outstanding(c) ~> ~Outstanding(c)

(* Start-up finishes unless the process dies first. *)
StartUpTerminates == phase \in {"bootstrap", "replay"} ~> phase \in {"running", "down"}
-----------------------------------------------------------------------------
(* What every step relies on.  The parts together are inductive; none of   *)
(* the safety invariants above is without them.                            *)

(* A process that is not running has no command in memory. *)
NothingInMemory ==
  phase # "running" => worker = IdleWorker /\ queue = << >> /\ published = << >>

(* The replay has reached the state of a prefix of the log. *)
ReplayedPrefix ==
  /\ phase \in {"down", "bootstrap"} => readModel = EmptyReadModel
  /\ phase = "replay" => /\ readModel.seq <= Len(log)
                         /\ readModel = StateOf(SubSeq(log, 1, readModel.seq))

(* What the worker's locals say at each step of processEnvelope. *)
StartIsLogEnd ==
  worker.step \in {"lookup", "transaction", "failed"} => worker.start = Len(log)
LookupClean ==
  worker.step = "lookup" => worker.done = 0 /\ worker.error = "none"
TransactionDecided ==
  worker.step = "transaction" =>
    /\ receipts[worker.cmd] = NoReceipt
    /\ Legal(Commands[worker.cmd], StateOf(log))
    /\ worker.events = Decide(Commands[worker.cmd], worker.cmd, StateOf(log))
    /\ worker.done <= Len(worker.events)
    /\ worker.next = StateOf(log \o SubSeq(worker.events, 1, worker.done))
CommittedVisible ==
  /\ worker.step = "committed" => worker.next = StateOf(log)
  /\ worker.step \in {"committed", "publish"} =>
       /\ receipts[worker.cmd] = Accepted(Len(log))
       /\ worker.done <= Len(worker.events)
       /\ Len(worker.events) <= Len(log)
RejectedForGood ==
  worker.step \in {"failed", "refuse", "answer"} /\ worker.error = "invariant" =>
    /\ ~Legal(Commands[worker.cmd], StateOf(log))
    /\ \/ receipts[worker.cmd] = NoReceipt
       \/ receipts[worker.cmd] = Rejected /\ worker.step = "answer"

(* How many of the committed events are published, at each step. *)
PublishedCount ==
  phase = "running" =>
    /\ Consecutive(published, base)
    /\ worker.step = "committed" => base + Len(published) = Len(log) - Len(worker.events)
    /\ worker.step = "publish" =>
         base + Len(published) = Len(log) - Len(worker.events) + worker.done
    /\ worker.step \notin {"committed", "publish"} => base + Len(published) = Len(log)

(* A projector lags the log by no more than one read, unless an earlier    *)
(* release left it further behind; once the bootstrap has passed it, it    *)
(* does not lag, and until then the rest of its read is enough.            *)
Lag(p) == Len(log) - cursor[p]
LagBounded ==
  /\ \A p \in Projectors : /\ Lag(p) \in 0 .. ReadLimit
                           /\ phase \in {"replay", "running"} => Lag(p) = 0
  /\ phase = "bootstrap" => \A i \in DOMAIN ProjectorOrder :
       /\ i < booting.index => Lag(ProjectorOrder[i]) = 0
       /\ i = booting.index => Lag(ProjectorOrder[i]) <= booting.left

IInv ==
  /\ TypeOK
  /\ EffectOnce
  /\ AnswersDurable
  /\ ReadModelCurrent
  /\ NothingInMemory
  /\ ReplayedPrefix
  /\ StartIsLogEnd
  /\ LookupClean
  /\ TransactionDecided
  /\ CommittedVisible
  /\ RejectedForGood
  /\ PublishedCount
=============================================================================
