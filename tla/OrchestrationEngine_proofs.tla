---------------------- MODULE OrchestrationEngine_proofs ----------------------
(***************************************************************************)
(* Theorems about OrchestrationEngine, for every value of its constants.   *)
(* First what the decider produces and what a log adds up to: StateOf is   *)
(* defined over a whole log, and StateOfAppend says that projectEvent      *)
(* computes it event by event.  Then the inductive invariant IInv, from    *)
(* which the properties follow.                                            *)
(***************************************************************************)
EXTENDS OrchestrationEngine, TLAPS, WellFoundedInduction

-----------------------------------------------------------------------------
(* The decider and the read model. *)

LEMMA EventTypes ==
  ASSUME NEW type \in ProjectCommand \cup SimpleThreadCommand
  PROVE  EventTypeOf(type) \in EventType
BY DEF EventType

LEMMA DecideType ==
  ASSUME NEW command \in Command, NEW id \in CommandIds, NEW model \in ReadModel
  PROVE  /\ Decide(command, id, model) \in Seq(Event(CommandIds))
         /\ Len(Decide(command, id, model)) =
              (IF command.type = "thread.turn.start" THEN 2 ELSE 1)
         /\ \A i \in DOMAIN Decide(command, id, model) : Decide(command, id, model)[i].cmd = id
<1>1. CASE command.type = "thread.turn.start"
  <2> DEFINE first  == TurnStartEvents(command, id, model)[1]
             second == TurnStartEvents(command, id, model)[2]
  <2>1. TurnStartEvents(command, id, model) = <<first, second>>
    BY DEF TurnStartEvents
  <2>2. /\ first = [type |-> "thread.message-sent", entity |-> command.thread,
                    cmd |-> id, mode |-> NoMode]
        /\ second = [type |-> "thread.turn-start-requested", entity |-> command.thread,
                     cmd |-> id, mode |-> model.mode[command.thread]]
    BY DEF TurnStartEvents
  <2>3. command.thread \in Threads /\ model.mode[command.thread] \in RuntimeModes \cup {NoMode}
    BY DEF ReadModel, Command
  <2>4. first \in Event(CommandIds) /\ second \in Event(CommandIds)
    BY <2>2, <2>3 DEF Event, EventType
  <2>5. first.cmd = id /\ second.cmd = id
    BY <2>2
  <2>6. Decide(command, id, model) = <<first, second>>
    BY <1>1, <2>1 DEF Decide
  <2> HIDE DEF first, second
  <2>. QED
    BY <1>1, <2>4, <2>5, <2>6
<1>2. CASE command.type # "thread.turn.start"
  <2> DEFINE only == SingleEvent(command, id)[1]
  <2>1. command.type \in ProjectCommand \cup SimpleThreadCommand
    BY <1>2 DEF Command, ThreadCommand
  <2>2. EventTypeOf(command.type) \in EventType
    BY <2>1, EventTypes
  <2>3. only = [type   |-> EventTypeOf(command.type),
                entity |-> IF command.type \in ProjectCommand
                           THEN command.project ELSE command.thread,
                cmd    |-> id,
                mode   |-> IF command.type \in {"thread.create", "thread.runtime-mode.set"}
                           THEN command.mode ELSE NoMode]
    BY DEF SingleEvent
  <2>4. command.project \in Projects /\ command.thread \in Threads /\ command.mode \in RuntimeModes
    BY DEF Command
  <2>5. only \in Event(CommandIds)
    BY <2>2, <2>3, <2>4 DEF Event
  <2>6. only.cmd = id
    BY <2>3
  <2>7. Decide(command, id, model) = <<only>>
    BY <1>2 DEF Decide, SingleEvent
  <2> HIDE DEF only
  <2>. QED
    BY <1>2, <2>5, <2>6, <2>7
<1>. QED  BY <1>1, <1>2

LEMMA ProjectEventInReadModel ==
  ASSUME NEW model \in ReadModel, NEW event \in Event(CommandIds), NEW sequence \in Nat
  PROVE  ProjectEvent(model, event, sequence) \in ReadModel
<1>1. event.mode \in RuntimeModes \cup {NoMode}
  BY DEF Event
<1>2. [t \in Threads |->
         IF SetsMode(event, t) /\ (event.type = "thread.created" \/ t \in model.threads)
         THEN event.mode ELSE model.mode[t]] \in [Threads -> RuntimeModes \cup {NoMode}]
  BY <1>1 DEF ReadModel
<1>3. /\ model.projects \cup {p \in Projects : /\ event.type = "project.created"
                                               /\ event.entity = p} \in SUBSET Projects
      /\ model.threads \cup {t \in Threads : /\ event.type = "thread.created"
                                             /\ event.entity = t} \in SUBSET Threads
  BY DEF ReadModel
<1>. QED
  BY <1>2, <1>3 DEF ProjectEvent, ReadModel

LEMMA EmptyReadModelType == EmptyReadModel \in ReadModel
BY DEF EmptyReadModel, ReadModel

-----------------------------------------------------------------------------
(* Sets of naturals: the well-ordering principle, and its mirror image. *)

LEMMA LeastNatural ==
  ASSUME NEW S \in SUBSET Nat, S # {}
  PROVE  \E m \in S : \A k \in S : m <= k
<1> DEFINE R == OpToRel(<, Nat)
<1>1. IsWellFoundedOn(R, Nat)
  BY NatLessThanWellFounded
<1>2. \A k, m \in Nat : k < m => <<k, m>> \in R
  BY DEF OpToRel
<1> HIDE DEF R
<1>3. PICK m \in S : \A k \in S : ~(<<k, m>> \in R)
  BY <1>1, WFMin
<1>4. \A k \in S : ~(k < m)
  <2> TAKE k \in S
  <2>1. k \in Nat /\ m \in Nat
    OBVIOUS
  <2>. QED  BY <1>2, <1>3, <2>1
<1>5. \A k \in S : m <= k
  <2> TAKE k \in S
  <2>1. k \in Nat /\ m \in Nat /\ ~(k < m)
    BY <1>4
  <2>. QED  BY <2>1
<1>. QED  BY <1>5

LEMMA LastExists ==
  ASSUME NEW n \in Nat, NEW S \in SUBSET (1 .. n), S # {}
  PROVE  \E i \in S : IsLast(i, S)
<1> DEFINE T == {n - i : i \in S}
<1>1. T \in SUBSET Nat
  <2>. \A i \in S : n - i \in Nat
    OBVIOUS
  <2>. QED OBVIOUS
<1>5. T # {}
  OBVIOUS
<1>2. PICK m \in T : \A k \in T : m <= k
  <2> HIDE DEF T
  <2>. QED BY <1>1, <1>5, LeastNatural
<1>3. PICK i \in S : m = n - i
  OBVIOUS
<1>4. \A j \in S : j <= i
  <2> TAKE j \in S
  <2>1. m <= n - j
    BY <1>2
  <2>. QED BY <1>3, <2>1
<1>. QED  BY <1>4 DEF IsLast

-----------------------------------------------------------------------------
(* StateOf, defined over a whole log, is what replaying the log computes. *)

LEMMA StateOfEmpty == StateOf(<< >>) = EmptyReadModel
BY DEF StateOf, EmptyReadModel, ProjectsIn, ThreadsIn, ModeIn, ModeSetters

LEMMA ModeSettersAppend ==
  ASSUME NEW evs \in Seq(Event(CommandIds)), NEW e \in Event(CommandIds), NEW t \in Threads
  PROVE  ModeSetters(Append(evs, e), t) =
           IF SetsMode(e, t) /\ (e.type = "thread.created" \/ t \in ThreadsIn(evs))
           THEN ModeSetters(evs, t) \cup {Len(evs) + 1}
           ELSE ModeSetters(evs, t)
<1> DEFINE all == Append(evs, e)
           n   == Len(evs)
<1>1. n \in Nat /\ DOMAIN all = 1 .. n + 1 /\ DOMAIN evs = 1 .. n
  OBVIOUS
<1>2. all[n + 1] = e /\ \A i \in 1 .. n : all[i] = evs[i]
  OBVIOUS
<1> HIDE DEF all, n
<1>3. \A i \in 1 .. n : i \in ModeSetters(all, t) <=> i \in ModeSetters(evs, t)
  <2> TAKE i \in 1 .. n
  <2>1. \A j \in 1 .. i : all[j] = evs[j]
    BY <1>1, <1>2
  <2>. QED  BY <1>1, <1>2, <2>1 DEF ModeSetters
<1>4. n + 1 \in ModeSetters(all, t)
        <=> SetsMode(e, t) /\ (e.type = "thread.created" \/ t \in ThreadsIn(evs))
  <2>1. (\E j \in 1 .. n + 1 : Creates(all[j], "thread.created", t))
          <=> Creates(e, "thread.created", t) \/ t \in ThreadsIn(evs)
    BY <1>1, <1>2 DEF ThreadsIn
  <2>2. n + 1 \in ModeSetters(all, t)
          <=> SetsMode(e, t) /\ (\E j \in 1 .. n + 1 : Creates(all[j], "thread.created", t))
    BY <1>1, <1>2 DEF ModeSetters
  <2>. QED  BY <2>1, <2>2 DEF SetsMode, Creates
<1>5. ModeSetters(all, t) \subseteq 1 .. n + 1 /\ ModeSetters(evs, t) \subseteq 1 .. n
  BY <1>1 DEF ModeSetters
<1>6. CASE SetsMode(e, t) /\ (e.type = "thread.created" \/ t \in ThreadsIn(evs))
  <2>1. ModeSetters(all, t) = ModeSetters(evs, t) \cup {n + 1}
    BY <1>1, <1>3, <1>4, <1>5, <1>6
  <2>. QED  BY <1>6, <2>1 DEF all, n
<1>7. CASE ~(SetsMode(e, t) /\ (e.type = "thread.created" \/ t \in ThreadsIn(evs)))
  <2>1. ModeSetters(all, t) = ModeSetters(evs, t)
    BY <1>1, <1>3, <1>4, <1>5, <1>7
  <2>. QED  BY <1>7, <2>1 DEF all, n
<1>. QED  BY <1>6, <1>7

LEMMA ModeInAppend ==
  ASSUME NEW evs \in Seq(Event(CommandIds)), NEW e \in Event(CommandIds), NEW t \in Threads
  PROVE  ModeIn(Append(evs, e), t) =
           IF SetsMode(e, t) /\ (e.type = "thread.created" \/ t \in ThreadsIn(evs))
           THEN e.mode ELSE ModeIn(evs, t)
<1> DEFINE all == Append(evs, e)
           n   == Len(evs)
           S   == ModeSetters(evs, t)
           T   == ModeSetters(all, t)
           new == SetsMode(e, t) /\ (e.type = "thread.created" \/ t \in ThreadsIn(evs))
<1>1. n \in Nat /\ S \in SUBSET (1 .. n) /\ all[n + 1] = e /\ \A i \in 1 .. n : all[i] = evs[i]
  BY DEF ModeSetters
<1>2. T = IF new THEN S \cup {n + 1} ELSE S
  BY ModeSettersAppend
<1>3. /\ ModeIn(all, t) = IF T = {} THEN NoMode ELSE all[CHOOSE i \in T : IsLast(i, T)].mode
      /\ ModeIn(evs, t) = IF S = {} THEN NoMode ELSE evs[CHOOSE i \in S : IsLast(i, S)].mode
  BY DEF ModeIn
<1> HIDE DEF all, n, S, T, new
<1>4. CASE new
  <2>1. T = S \cup {n + 1}
    BY <1>2, <1>4
  <2>2. IsLast(n + 1, T) /\ \A i \in T : IsLast(i, T) => i = n + 1
    BY <1>1, <2>1 DEF IsLast
  <2>3. (CHOOSE i \in T : IsLast(i, T)) = n + 1
    BY <2>1, <2>2
  <2>4. ModeIn(all, t) = e.mode
    BY <1>1, <1>3, <2>1, <2>3
  <2>. QED  BY <1>4, <2>4 DEF new, all
<1>5. CASE ~new
  <2>1. T = S
    BY <1>2, <1>5
  <2>2. CASE S = {}
    <3>1. ModeIn(all, t) = ModeIn(evs, t)
      BY <1>3, <2>1, <2>2
    <3>. QED  BY <1>5, <3>1 DEF new, all
  <2>3. CASE S # {}
    <3>1. (CHOOSE i \in S : IsLast(i, S)) \in S
      <4>1. \E i \in S : IsLast(i, S)
        BY <1>1, <2>3, LastExists
      <4>. QED  BY <4>1
    <3>2. all[CHOOSE i \in S : IsLast(i, S)] = evs[CHOOSE i \in S : IsLast(i, S)]
      BY <1>1, <3>1
    <3>3. ModeIn(all, t) = ModeIn(evs, t)
      BY <1>3, <2>1, <2>3, <3>2
    <3>. QED  BY <1>5, <3>3 DEF new, all
  <2>. QED  BY <2>2, <2>3
<1>. QED  BY <1>4, <1>5

(* One more event changes the state of a log the way projectEvent does. *)
LEMMA StateOfAppend ==
  ASSUME NEW evs \in Seq(Event(CommandIds)), NEW e \in Event(CommandIds)
  PROVE  StateOf(Append(evs, e)) = ProjectEvent(StateOf(evs), e, Len(evs) + 1)
<1> DEFINE all == Append(evs, e)
           n   == Len(evs)
<1>1. Len(all) = n + 1 /\ n \in Nat /\ DOMAIN all = 1 .. n + 1 /\ DOMAIN evs = 1 .. n
  OBVIOUS
<1>2. all[n + 1] = e /\ \A i \in 1 .. n : all[i] = evs[i]
  OBVIOUS
<1>3. [t \in Threads |-> ModeIn(all, t)] =
        [t \in Threads |->
           IF SetsMode(e, t) /\ (e.type = "thread.created" \/ t \in ThreadsIn(evs))
           THEN e.mode ELSE ModeIn(evs, t)]
  BY ModeInAppend
<1> HIDE DEF all, n
<1>4. ProjectsIn(all) = ProjectsIn(evs) \cup {p \in Projects : /\ e.type = "project.created"
                                                                /\ e.entity = p}
  <2>1. \A p \in Projects : p \in ProjectsIn(all)
                             <=> p \in ProjectsIn(evs) \/ Creates(e, "project.created", p)
    BY <1>1, <1>2 DEF ProjectsIn
  <2>. QED  BY <2>1 DEF ProjectsIn, Creates
<1>5. ThreadsIn(all) = ThreadsIn(evs) \cup {t \in Threads : /\ e.type = "thread.created"
                                                             /\ e.entity = t}
  <2>1. \A t \in Threads : t \in ThreadsIn(all)
                            <=> t \in ThreadsIn(evs) \/ Creates(e, "thread.created", t)
    BY <1>1, <1>2 DEF ThreadsIn
  <2>. QED  BY <2>1 DEF ThreadsIn, Creates
<1>6. StateOf(all) = ProjectEvent(StateOf(evs), e, n + 1)
  BY <1>1, <1>3, <1>4, <1>5 DEF StateOf, ProjectEvent
<1>. QED  BY <1>6 DEF all, n

LEMMA StateOfType ==
  ASSUME NEW evs \in Seq(Event(CommandIds))
  PROVE  StateOf(evs) \in ReadModel
<1>1. ASSUME NEW t \in Threads
      PROVE  ModeIn(evs, t) \in RuntimeModes \cup {NoMode}
  <2> DEFINE S == ModeSetters(evs, t)
  <2>1. S \in SUBSET (1 .. Len(evs)) /\ Len(evs) \in Nat
    BY DEF ModeSetters
  <2>2. CASE S = {}
    BY <2>2 DEF ModeIn
  <2>3. CASE S # {}
    <3> HIDE DEF S
    <3>1. \E i \in S : IsLast(i, S)
      BY <2>1, <2>3, LastExists
    <3>2. (CHOOSE i \in S : IsLast(i, S)) \in 1 .. Len(evs)
      BY <2>1, <3>1
    <3>4. evs[CHOOSE i \in S : IsLast(i, S)] \in Event(CommandIds)
      BY <3>2
    <3>3. ModeIn(evs, t) = evs[CHOOSE i \in S : IsLast(i, S)].mode
      BY <2>3 DEF ModeIn, S
    <3>. QED  BY <3>3, <3>4 DEF Event
  <2>. QED  BY <2>2, <2>3
<1>. QED  BY <1>1 DEF StateOf, ReadModel, ProjectsIn, ThreadsIn

-----------------------------------------------------------------------------
(* Facts about sequences, numbers and records the steps rely on. *)

LEMMA AppendPrefix ==
  ASSUME NEW E, NEW s \in Seq(E), NEW t \in Seq(E), NEW k \in Nat, k < Len(t)
  PROVE  /\ s \o SubSeq(t, 1, k + 1) = Append(s \o SubSeq(t, 1, k), t[k + 1])
         /\ Len(s \o SubSeq(t, 1, k)) = Len(s) + k
         /\ s \o SubSeq(t, 1, k) \in Seq(E)
         /\ t[k + 1] \in E
  OBVIOUS

LEMMA PrefixNext ==
  ASSUME NEW E, NEW s \in Seq(E), NEW k \in Nat, k < Len(s)
  PROVE  /\ SubSeq(s, 1, k + 1) = Append(SubSeq(s, 1, k), s[k + 1])
         /\ SubSeq(s, 1, k) \in Seq(E)
         /\ Len(SubSeq(s, 1, k)) = k
         /\ s[k + 1] \in E
  OBVIOUS

LEMMA WholePrefix ==
  ASSUME NEW E, NEW s \in Seq(E)
  PROVE  SubSeq(s, 1, Len(s)) = s /\ SubSeq(s, 1, 0) = << >>
  OBVIOUS

LEMMA IdleWorkerType == IdleWorker \in Worker
BY EmptyReadModelType DEF IdleWorker, Worker, WorkerStep

(* A read after the end of the log is empty. *)
LEMMA NothingPersisted ==
  ASSUME TypeOK, worker.start = Len(log)
  PROVE  Persisted = << >>
<1>1. Len(log) \in Nat /\ ReadLimit \in Nat
  BY EngineAssumption DEF TypeOK
<1>2. Min2(Len(log) - worker.start, ReadLimit) = 0
  BY <1>1 DEF Min2
<1>. QED  BY <1>2 DEF Persisted

-----------------------------------------------------------------------------
(* The initial state satisfies the invariant. *)
THEOREM InitIInv == Init => IInv
<1> SUFFICES ASSUME Init PROVE IInv
  OBVIOUS
<1>1. TypeOK
  <2>1. log \in Seq(Event(CommandIds)) /\ receipts \in [CommandIds -> Receipt]
    BY LegacyAssumption DEF Init
  <2>2. Len(LegacyLog) \in Nat
    BY LegacyAssumption
  <2>3. cursor \in [Projectors -> Nat] /\ applied \in [Projectors -> SUBSET Nat]
    BY <2>2 DEF Init
  <2>4. booting \in [index : 1 .. Len(ProjectorOrder) + 1, left : 0 .. ReadLimit]
    BY EngineAssumption DEF Init
  <2>. QED
    BY <2>1, <2>3, <2>4, EngineAssumption, IdleWorkerType, EmptyReadModelType
    DEF Init, TypeOK, IdleWorker
<1>2. EffectOnce /\ AnswersDurable
  BY LegacyAssumption DEF Init, EffectOnce, AnswersDurable
<1>3. worker.step = "idle" /\ phase = "down"
  BY DEF Init, IdleWorker
<1>. QED
  BY <1>1, <1>2, <1>3 DEF Init, IInv, ReadModelCurrent, NothingInMemory, ReplayedPrefix,
     StartIsLogEnd, LookupClean, TransactionDecided, CommittedVisible, RejectedForGood,
     PublishedCount

-----------------------------------------------------------------------------
(* Every step preserves the types. *)
LEMMA TypeStep == IInv /\ [Next]_vars => TypeOK'
<1> SUFFICES ASSUME IInv, [Next]_vars PROVE TypeOK'
  OBVIOUS
<1>1. TypeOK
  BY DEF IInv
<1> USE DEF durable, boot, outside
<1>2. CASE Start
  BY <1>1, <1>2, EngineAssumption DEF Start, TypeOK
<1>3. CASE BootstrapEvent
  <2>1. ProjectorOrder[booting.index] \in Projectors
    BY <1>1, <1>3, EngineAssumption DEF BootstrapEvent, TypeOK
  <2>2. cursor' \in [Projectors -> Nat] /\ applied' \in [Projectors -> SUBSET Nat]
    BY <1>1, <1>3, <2>1 DEF BootstrapEvent, TypeOK
  <2> DEFINE left == booting.left - 1
  <2>3. left \in 0 .. ReadLimit /\ booting' = [booting EXCEPT !.left = left]
    <3>1. booting.left \in 0 .. ReadLimit /\ booting.left > 0 /\ ReadLimit \in Nat
      BY <1>1, <1>3, EngineAssumption DEF BootstrapEvent, TypeOK
    <3>2. booting' = [booting EXCEPT !.left = left]
      BY <1>3 DEF BootstrapEvent
    <3>. QED  BY <3>1, <3>2
  <2> HIDE DEF left
  <2>4. booting' \in [index : 1 .. Len(ProjectorOrder) + 1, left : 0 .. ReadLimit]
    BY <1>1, <2>3 DEF TypeOK
  <2>. QED  BY <1>1, <1>3, <2>2, <2>4 DEF BootstrapEvent, TypeOK
<1>4. CASE BootstrapNextProjector
  BY <1>1, <1>4, EngineAssumption DEF BootstrapNextProjector, TypeOK
<1>5. CASE BootstrapEnds
  BY <1>1, <1>5 DEF BootstrapEnds, TypeOK
<1>6. CASE ReplayEvent
  <2>1. readModel.seq \in Nat /\ readModel.seq < Len(log)
    BY <1>1, <1>6 DEF ReplayEvent, TypeOK, ReadModel
  <2>2. log[readModel.seq + 1] \in Event(CommandIds)
    BY <1>1, <2>1 DEF TypeOK
  <2>3. readModel' \in ReadModel
    BY <1>1, <1>6, <2>1, <2>2, ProjectEventInReadModel DEF ReplayEvent, TypeOK
  <2>. QED  BY <1>1, <1>6, <2>3 DEF ReplayEvent, TypeOK
<1>7. CASE StartWorker
  BY <1>1, <1>7 DEF StartWorker, TypeOK, ReadModel
<1>8. ASSUME NEW c \in CommandIds, Dispatch(c) PROVE TypeOK'
  BY <1>1, <1>8, EngineAssumption DEF Dispatch, TypeOK
<1>9. CASE TakeEnvelope
  <2>1. Head(queue) \in CommandIds /\ Tail(queue) \in Seq(CommandIds) /\ readModel.seq \in Nat
    BY <1>1, <1>9 DEF TakeEnvelope, TypeOK, ReadModel
  <2>2. worker' \in Worker /\ worker'.cmd \in CommandIds
    BY <1>9, <2>1, IdleWorkerType DEF TakeEnvelope, Worker, WorkerStep
  <2>. QED  BY <1>1, <1>9, <2>1, <2>2 DEF TakeEnvelope, TypeOK
<1>10. CASE AnswerFromReceipt
  <2>1. receipts[worker.cmd] \in Answer
    BY <1>1, <1>10 DEF AnswerFromReceipt, TypeOK, Receipt, Answer
  <2>. QED
    BY <1>1, <1>10, <2>1, IdleWorkerType DEF AnswerFromReceipt, Resolve, TypeOK, IdleWorker
<1>11. CASE DecideCommand
  <2>1. worker.cmd \in CommandIds /\ Commands[worker.cmd] \in Command
    BY <1>1, <1>11, CommandAssumption DEF DecideCommand, TypeOK
  <2>2. Decide(Commands[worker.cmd], worker.cmd, readModel) \in Seq(Event(CommandIds))
    BY <1>1, <2>1, DecideType DEF TypeOK
  <2>3. worker' \in Worker /\ worker'.cmd = worker.cmd
    BY <1>1, <1>11, <2>2 DEF DecideCommand, FailWith, TypeOK, Worker, WorkerStep
  <2>. QED  BY <1>1, <1>11, <2>1, <2>3 DEF DecideCommand, TypeOK
<1>12. CASE AppendEvent
  <2>1. worker.done \in Nat /\ worker.done < Len(worker.events) /\ Len(log) \in Nat
    BY <1>1, <1>12 DEF AppendEvent, TypeOK, Worker
  <2>2. worker.events[worker.done + 1] \in Event(CommandIds)
    BY <1>1, <2>1 DEF TypeOK, Worker
  <2> DEFINE model == ProjectEvent(worker.next, worker.events[worker.done + 1],
                                   Len(log) + worker.done + 1)
             done  == worker.done + 1
  <2>3. done \in Nat /\ Len(log) + worker.done + 1 \in Nat
    BY <2>1
  <2>4. worker.next \in ReadModel
    BY <1>1 DEF TypeOK, Worker
  <2>5. model \in ReadModel
    BY <2>2, <2>3, <2>4, ProjectEventInReadModel
  <2>6. worker' = [worker EXCEPT !.done = done, !.next = model]
    BY <1>12 DEF AppendEvent
  <2> HIDE DEF model, done
  <2>7. worker' \in Worker /\ worker'.cmd = worker.cmd
    BY <1>1, <2>3, <2>5, <2>6 DEF TypeOK, Worker, WorkerStep
  <2>. QED  BY <1>1, <1>12, <2>7 DEF AppendEvent, TypeOK
<1>13. CASE Commit
  <2>1. log' \in Seq(Event(CommandIds)) /\ Len(log') \in Nat
    BY <1>1, <1>13 DEF Commit, TypeOK, Worker
  <2>2. receipts' \in [CommandIds -> Receipt]
    BY <1>1, <1>13, <2>1 DEF Commit, TypeOK, Receipt, Accepted
  <2>3. cursor' \in [Projectors -> Nat] /\ applied' \in [Projectors -> SUBSET Nat]
    BY <1>1, <1>13, <2>1 DEF Commit, TypeOK
  <2>4. worker' \in Worker /\ worker'.cmd = worker.cmd
    BY <1>1, <1>13 DEF Commit, TypeOK, Worker, WorkerStep
  <2>. QED  BY <1>1, <1>13, <2>1, <2>2, <2>3, <2>4 DEF Commit, TypeOK
<1>14. CASE AdoptReadModel
  BY <1>1, <1>14 DEF AdoptReadModel, TypeOK, Worker, WorkerStep
<1>15. CASE PublishEvent
  <2>1. worker.step = "publish"
    BY <1>15 DEF PublishEvent
  <2>2. Len(log) - Len(worker.events) + worker.done + 1 \in Nat
    BY <1>1, <2>1 DEF IInv, CommittedVisible, TypeOK, Worker
  <2>3. published' \in Seq(Nat)
    BY <1>1, <1>15, <2>2 DEF PublishEvent, TypeOK
  <2> DEFINE done == worker.done + 1
  <2>4. done \in Nat /\ worker' = [worker EXCEPT !.done = done]
    BY <1>1, <1>15 DEF PublishEvent, TypeOK, Worker
  <2> HIDE DEF done
  <2>5. worker' \in Worker /\ worker'.cmd = worker.cmd
    BY <1>1, <2>4 DEF TypeOK, Worker, WorkerStep
  <2>. QED  BY <1>1, <1>15, <2>3, <2>5 DEF PublishEvent, TypeOK
<1>16. CASE AnswerAccepted
  <2>1. Accepted(Len(log)) \in Answer
    BY <1>1 DEF TypeOK, Accepted, Answer
  <2>. QED
    BY <1>1, <1>16, <2>1, IdleWorkerType DEF AnswerAccepted, Resolve, TypeOK, IdleWorker
<1>17. CASE Reconcile
  <2>1. Persisted = << >>
    BY <1>1, <1>17, NothingPersisted DEF Reconcile, IInv, StartIsLogEnd
  <2>2. readModel' = readModel /\ published' = published
    BY <1>1, <1>17, <2>1 DEF Reconcile, TypeOK
  <2>3. worker' \in Worker /\ worker'.cmd = worker.cmd
    BY <1>1, <1>17 DEF Reconcile, TypeOK, Worker, WorkerStep
  <2>. QED  BY <1>1, <1>17, <2>2, <2>3 DEF Reconcile, TypeOK
<1>18. CASE ReconcileFails
  BY <1>1, <1>18 DEF ReconcileFails, TypeOK, Worker, WorkerStep
<1>19. CASE RecordRejection
  <2>1. receipts' \in [CommandIds -> Receipt]
    BY <1>1, <1>19 DEF RecordRejection, TypeOK, Receipt
  <2>2. worker' \in Worker /\ worker'.cmd = worker.cmd
    BY <1>1, <1>19 DEF RecordRejection, TypeOK, Worker, WorkerStep
  <2>. QED  BY <1>1, <1>19, <2>1, <2>2 DEF RecordRejection, TypeOK
<1>20. CASE RejectionNotRecorded
  BY <1>1, <1>20 DEF RejectionNotRecorded, TypeOK, Worker, WorkerStep
<1>21. CASE AnswerFailure
  <2>1. Rejected \in Answer /\ Failed \in Answer
    BY DEF Answer
  <2>. QED
    BY <1>1, <1>21, <2>1, IdleWorkerType DEF AnswerFailure, Resolve, TypeOK, IdleWorker
<1>22. CASE PersistenceFailure
  BY <1>1, <1>22 DEF PersistenceFailure, FailWith, TypeOK, Worker, WorkerStep
<1>23. CASE Crash
  BY <1>1, <1>23, EngineAssumption, IdleWorkerType, EmptyReadModelType
  DEF Crash, TypeOK, IdleWorker
<1>24. CASE UNCHANGED vars
  BY <1>1, <1>24 DEF vars, TypeOK
<1>. QED
  BY <1>2, <1>3, <1>4, <1>5, <1>6, <1>7, <1>8, <1>9, <1>10, <1>11, <1>12, <1>13, <1>14,
     <1>15, <1>16, <1>17, <1>18, <1>19, <1>20, <1>21, <1>22, <1>23, <1>24
  DEF Next, Boot, ProcessEnvelope

-----------------------------------------------------------------------------
(* The log, the receipts and the answers. *)

CausedBy(evs, c) == \A i \in DOMAIN evs : evs[i].cmd = c

LEMMA EventsOfConcat ==
  ASSUME NEW s \in Seq(Event(CommandIds)), NEW t \in Seq(Event(CommandIds)),
         NEW c \in CommandIds, NEW d \in CommandIds, CausedBy(t, d)
  PROVE  /\ c = d => EventsOf(s \o t, c) = EventsOf(s, c) \cup (Len(s) + 1 .. Len(s) + Len(t))
         /\ c # d => EventsOf(s \o t, c) = EventsOf(s, c)
<1> DEFINE all == s \o t
           m   == Len(s)
           n   == Len(t)
<1>1. m \in Nat /\ n \in Nat /\ DOMAIN all = 1 .. m + n /\ DOMAIN s = 1 .. m
  OBVIOUS
<1>2. \A i \in 1 .. m : all[i] = s[i]
  OBVIOUS
<1>3. \A i \in m + 1 .. m + n : all[i].cmd = d
  <2> TAKE i \in m + 1 .. m + n
  <2>1. all[i] = t[i - m] /\ i - m \in DOMAIN t
    OBVIOUS
  <2>. QED  BY <2>1 DEF CausedBy
<1> HIDE DEF all, m, n
<1>4. \A i : i \in EventsOf(all, c) <=>
             i \in EventsOf(s, c) \/ (c = d /\ i \in m + 1 .. m + n)
  BY <1>1, <1>2, <1>3 DEF EventsOf
<1>5. /\ c = d => EventsOf(all, c) = EventsOf(s, c) \cup (m + 1 .. m + n)
      /\ c # d => EventsOf(all, c) = EventsOf(s, c)
  BY <1>4
<1>. QED  BY <1>5 DEF all, m, n

LEMMA Committing ==
  ASSUME IInv, Commit
  PROVE  /\ worker.cmd \in CommandIds
         /\ receipts[worker.cmd] = NoReceipt
         /\ Legal(Commands[worker.cmd], StateOf(log))
         /\ worker.events = Decide(Commands[worker.cmd], worker.cmd, StateOf(log))
         /\ log' = log \o worker.events
         /\ Len(log) \in Nat /\ Len(worker.events) \in Nat
         /\ Len(log') = Len(log) + Len(worker.events)
         /\ worker.next = StateOf(log')
         /\ Len(worker.events) = EventCount(Commands[worker.cmd])
         /\ CausedBy(worker.events, worker.cmd)
<1>1. TypeOK /\ worker.step = "transaction" /\ worker.done = Len(worker.events)
  BY DEF IInv, Commit
<1>2. /\ worker.cmd \in CommandIds
      /\ log \in Seq(Event(CommandIds))
      /\ worker.events \in Seq(Event(CommandIds))
  BY <1>1 DEF TypeOK, Worker
<1>3. /\ receipts[worker.cmd] = NoReceipt
      /\ Legal(Commands[worker.cmd], StateOf(log))
      /\ worker.events = Decide(Commands[worker.cmd], worker.cmd, StateOf(log))
      /\ worker.next = StateOf(log \o SubSeq(worker.events, 1, worker.done))
  BY <1>1 DEF IInv, TransactionDecided
<1>4. StateOf(log) \in ReadModel /\ Commands[worker.cmd] \in Command
  BY <1>2, StateOfType, CommandAssumption
<1>5. /\ Len(worker.events) = EventCount(Commands[worker.cmd])
      /\ CausedBy(worker.events, worker.cmd)
  <2> DEFINE command == Commands[worker.cmd]
             events  == Decide(command, worker.cmd, StateOf(log))
  <2>1. /\ Len(events) = EventCount(command)
        /\ CausedBy(events, worker.cmd)
    BY <1>2, <1>4, DecideType DEF EventCount, CausedBy
  <2>. QED  BY <1>3, <2>1
<1>6. log' = log \o worker.events
  BY DEF Commit
<1>7. SubSeq(worker.events, 1, worker.done) = worker.events
  BY <1>1, <1>2, WholePrefix
<1>8. Len(log) \in Nat /\ Len(worker.events) \in Nat /\ Len(log') = Len(log) + Len(worker.events)
  BY <1>2, <1>6
<1>. QED  BY <1>2, <1>3, <1>5, <1>6, <1>7, <1>8

(* Only Commit writes the log, only Commit and RecordRejection a receipt. *)
LEMMA DurableSteps ==
  ASSUME [Next]_vars
  PROVE  /\ Commit \/ UNCHANGED log
         /\ Commit \/ RecordRejection \/ UNCHANGED receipts
BY DEF Next, Boot, ProcessEnvelope, vars, durable, boot, outside, Start, BootstrapEvent,
   BootstrapNextProjector, BootstrapEnds, ReplayEvent, StartWorker, Dispatch, TakeEnvelope,
   AnswerFromReceipt, DecideCommand, AppendEvent, AdoptReadModel, PublishEvent, AnswerAccepted,
   Reconcile, ReconcileFails, RecordRejection, RejectionNotRecorded, AnswerFailure,
   PersistenceFailure, Crash

(* Only the steps that resolve a dispatch add an answer. *)
LEMMA AnsweringSteps ==
  ASSUME [Next]_vars
  PROVE  AnswerFromReceipt \/ AnswerAccepted \/ AnswerFailure \/ UNCHANGED answers
BY DEF Next, Boot, ProcessEnvelope, vars, durable, boot, outside, Start, BootstrapEvent,
   BootstrapNextProjector, BootstrapEnds, ReplayEvent, StartWorker, Dispatch, TakeEnvelope,
   DecideCommand, AppendEvent, Commit, AdoptReadModel, PublishEvent,
   Reconcile, ReconcileFails, RecordRejection, RejectionNotRecorded,
   PersistenceFailure, Crash

LEMMA EffectOnceStep == IInv /\ [Next]_vars => EffectOnce'
<1> SUFFICES ASSUME IInv, [Next]_vars, NEW c \in CommandIds
             PROVE  ReceiptMatches(log', c, receipts'[c])
  BY DEF EffectOnce
<1>1. TypeOK /\ ReceiptMatches(log, c, receipts[c])
  BY DEF IInv, EffectOnce
<1>2. CASE Commit
  <2>1. /\ c = worker.cmd => EventsOf(log', c) =
             EventsOf(log, c) \cup (Len(log) + 1 .. Len(log) + Len(worker.events))
        /\ c # worker.cmd => EventsOf(log', c) = EventsOf(log, c)
    <3>1. log \in Seq(Event(CommandIds)) /\ worker.events \in Seq(Event(CommandIds))
      BY <1>1 DEF TypeOK, Worker
    <3>2. /\ log' = log \o worker.events /\ CausedBy(worker.events, worker.cmd)
          /\ worker.cmd \in CommandIds
      BY <1>2, Committing
    <3>. QED  BY <3>1, <3>2, EventsOfConcat
  <2>2. receipts' = [receipts EXCEPT ![worker.cmd] = Accepted(Len(log'))]
    BY <1>2 DEF Commit
  <2>3. CASE c = worker.cmd
    <3>1. EventsOf(log, c) = {}
      BY <1>1, <1>2, <2>3, Committing DEF ReceiptMatches, NoReceipt
    <3>2. receipts'[c] = Accepted(Len(log) + Len(worker.events))
      BY <1>1, <1>2, <2>2, <2>3, Committing DEF TypeOK
    <3>3. /\ Len(log) \in Nat /\ Len(worker.events) \in Nat
          /\ EventCount(Commands[c]) = Len(worker.events)
      BY <1>2, <2>3, Committing
    <3>4. EventsOf(log', c) = Len(log) + 1 .. Len(log) + Len(worker.events)
      BY <2>1, <2>3, <3>1
    <3>5. /\ receipts'[c].status = "accepted"
          /\ receipts'[c].seq = Len(log) + Len(worker.events)
      BY <3>2 DEF Accepted
    <3>6. receipts'[c].seq - EventCount(Commands[c]) + 1 = Len(log) + 1
      BY <3>3, <3>5
    <3>. QED  BY <3>4, <3>5, <3>6 DEF ReceiptMatches
  <2>4. CASE c # worker.cmd
    <3>1. EventsOf(log', c) = EventsOf(log, c) /\ receipts'[c] = receipts[c]
      BY <1>1, <2>1, <2>2, <2>4 DEF TypeOK
    <3>. QED  BY <1>1, <3>1 DEF ReceiptMatches
  <2>. QED  BY <2>3, <2>4
<1>3. CASE RecordRejection
  <2>1. log' = log /\ receipts' = [receipts EXCEPT ![worker.cmd] = Rejected]
    BY <1>3 DEF RecordRejection
  <2>2. receipts[worker.cmd] = NoReceipt
    BY <1>3 DEF IInv, RejectedForGood, RecordRejection
  <2>3. receipts'[c].status # "accepted" <=> receipts[c].status # "accepted"
    BY <1>1, <2>1, <2>2 DEF TypeOK, Rejected, NoReceipt
  <2>4. c # worker.cmd => receipts'[c] = receipts[c]
    BY <1>1, <2>1 DEF TypeOK
  <2>5. c = worker.cmd => receipts[c].status # "accepted"
    BY <2>2 DEF NoReceipt
  <2>. QED  BY <1>1, <2>1, <2>3, <2>4, <2>5 DEF ReceiptMatches
<1>4. CASE ~Commit /\ ~RecordRejection
  BY <1>1, <1>4, DurableSteps
<1>. QED  BY <1>2, <1>3, <1>4

LEMMA AnswersDurableStep == IInv /\ [Next]_vars => AnswersDurable'
<1> SUFFICES ASSUME IInv, [Next]_vars, NEW c \in CommandIds, NEW answer \in answers'[c],
                    answer.status = "accepted"
             PROVE  receipts'[c] = answer
  BY DEF AnswersDurable
<1>1. TypeOK /\ \A a \in answers[c] : a.status = "accepted" => receipts[c] = a
  BY DEF IInv, AnswersDurable
<1>2. CASE AnswerFromReceipt
  <2>1. receipts' = receipts
    BY <1>2 DEF AnswerFromReceipt, durable
  <2>2. answers' = [answers EXCEPT ![worker.cmd] = @ \cup {receipts[worker.cmd]}]
    BY <1>2 DEF AnswerFromReceipt, Resolve
  <2>. QED  BY <1>1, <2>1, <2>2 DEF TypeOK
<1>3. CASE AnswerAccepted
  <2>1. receipts' = receipts /\ worker.step = "publish"
    BY <1>3 DEF AnswerAccepted, durable
  <2>2. receipts[worker.cmd] = Accepted(Len(log))
    BY <2>1 DEF IInv, CommittedVisible
  <2>3. answers' = [answers EXCEPT ![worker.cmd] = @ \cup {Accepted(Len(log))}]
    BY <1>3 DEF AnswerAccepted, Resolve
  <2>. QED  BY <1>1, <2>1, <2>2, <2>3 DEF TypeOK
<1>4. CASE AnswerFailure
  <2>1. receipts' = receipts
    BY <1>4 DEF AnswerFailure, durable
  <2>2. PICK a \in {Rejected, Failed} : answers' = [answers EXCEPT ![worker.cmd] = @ \cup {a}]
    BY <1>4 DEF AnswerFailure, Resolve
  <2>3. a.status # "accepted"
    BY <2>2 DEF Rejected, Failed
  <2>. QED  BY <1>1, <2>1, <2>2, <2>3 DEF TypeOK
<1>5. CASE UNCHANGED answers
  <2>1. receipts[c] = answer
    BY <1>1, <1>5
  <2>2. receipts[c] # NoReceipt
    BY <2>1 DEF NoReceipt
  <2>3. CASE Commit
    <3>1. receipts[worker.cmd] = NoReceipt
      BY <2>3, Committing
    <3>2. receipts' = [receipts EXCEPT ![worker.cmd] = Accepted(Len(log'))]
      BY <2>3 DEF Commit
    <3>. QED  BY <1>1, <2>1, <2>2, <3>1, <3>2 DEF TypeOK
  <2>4. CASE RecordRejection
    <3>1. receipts[worker.cmd] = NoReceipt
      BY <2>4 DEF IInv, RejectedForGood, RecordRejection
    <3>2. receipts' = [receipts EXCEPT ![worker.cmd] = Rejected]
      BY <2>4 DEF RecordRejection
    <3>. QED  BY <1>1, <2>1, <2>2, <3>1, <3>2 DEF TypeOK
  <2>5. CASE UNCHANGED receipts
    BY <2>1, <2>5
  <2>. QED  BY <2>3, <2>4, <2>5, DurableSteps
<1>. QED  BY <1>2, <1>3, <1>4, <1>5, AnsweringSteps

-----------------------------------------------------------------------------
(* The in-memory read model. *)

(* Steps that leave log, read model, phase and (up to Persisted) the       *)
(* stream alone, and change the worker between two of the steps at which   *)
(* the read model is current.                                              *)
QuietWorkerSteps == TakeEnvelope \/ AnswerFromReceipt \/ DecideCommand \/ AppendEvent
                      \/ PublishEvent \/ AnswerAccepted \/ Reconcile \/ ReconcileFails
                      \/ RecordRejection \/ RejectionNotRecorded \/ AnswerFailure
                      \/ PersistenceFailure

LEMMA QuietSteps ==
  ASSUME IInv, QuietWorkerSteps
  PROVE  /\ worker.step # "committed" /\ worker'.step # "committed"
         /\ UNCHANGED <<log, readModel, phase, base>>
         /\ phase = "running"
<1>1. TypeOK
  BY DEF IInv
<1>2. phase = "running"
  <2>1. CASE TakeEnvelope
    BY <2>1 DEF TakeEnvelope
  <2>2. CASE ~TakeEnvelope
    <3>1. worker.step # "idle"
      BY <2>2 DEF QuietWorkerSteps, AnswerFromReceipt, DecideCommand, AppendEvent, PublishEvent,
         AnswerAccepted, Reconcile, ReconcileFails, RecordRejection, RejectionNotRecorded,
         AnswerFailure, PersistenceFailure
    <3>. QED  BY <3>1 DEF IInv, NothingInMemory, IdleWorker
  <2>. QED  BY <2>1, <2>2
<1>3. Reconcile => readModel' = readModel
  <2>1. Reconcile => Persisted = << >>
    BY <1>1, NothingPersisted DEF Reconcile, IInv, StartIsLogEnd
  <2>. QED  BY <2>1 DEF Reconcile
<1>4. UNCHANGED <<log, readModel, phase, base>>
  BY <1>3 DEF QuietWorkerSteps, TakeEnvelope, AnswerFromReceipt, DecideCommand, AppendEvent,
     PublishEvent, AnswerAccepted, Reconcile, ReconcileFails, RecordRejection,
     RejectionNotRecorded, AnswerFailure, PersistenceFailure, durable, boot, outside
<1>5. worker.step # "committed"
  BY DEF QuietWorkerSteps, TakeEnvelope, AnswerFromReceipt, DecideCommand, AppendEvent,
     PublishEvent, AnswerAccepted, Reconcile, ReconcileFails, RecordRejection,
     RejectionNotRecorded, AnswerFailure, PersistenceFailure
<1>6. worker'.step # "committed"
  <2>1. CASE AnswerFromReceipt \/ AnswerAccepted \/ AnswerFailure
    BY <2>1 DEF AnswerFromReceipt, AnswerAccepted, AnswerFailure, Resolve, IdleWorker
  <2>2. CASE TakeEnvelope
    BY <2>2 DEF TakeEnvelope, IdleWorker
  <2>3. CASE DecideCommand \/ PersistenceFailure
    BY <1>1, <2>3 DEF DecideCommand, PersistenceFailure, FailWith, TypeOK, Worker
  <2>4. CASE AppendEvent \/ PublishEvent
    <3>1. worker'.step = worker.step
      BY <1>1, <2>4 DEF AppendEvent, PublishEvent, TypeOK, Worker
    <3>. QED  BY <1>5, <3>1
  <2>5. CASE Reconcile \/ ReconcileFails \/ RecordRejection \/ RejectionNotRecorded
    BY <1>1, <2>5 DEF Reconcile, ReconcileFails, RecordRejection, RejectionNotRecorded,
       TypeOK, Worker
  <2>. QED  BY <2>1, <2>2, <2>3, <2>4, <2>5 DEF QuietWorkerSteps
<1>. QED  BY <1>2, <1>4, <1>5, <1>6

LEMMA ModelStep ==
  IInv /\ [Next]_vars => ReadModelCurrent' /\ NothingInMemory' /\ ReplayedPrefix'
<1> SUFFICES ASSUME IInv, [Next]_vars
             PROVE  ReadModelCurrent' /\ NothingInMemory' /\ ReplayedPrefix'
  OBVIOUS
<1>1. TypeOK /\ ReadModelCurrent /\ NothingInMemory /\ ReplayedPrefix
  BY DEF IInv
<1> USE DEF durable, boot, outside
<1>2. CASE Start \/ BootstrapEvent \/ BootstrapNextProjector
  <2>1. /\ phase' = "bootstrap" /\ phase \in {"down", "bootstrap"}
        /\ UNCHANGED <<readModel, worker, queue, published>>
    BY <1>2 DEF Start, BootstrapEvent, BootstrapNextProjector
  <2>. QED  BY <1>1, <2>1 DEF ReadModelCurrent, NothingInMemory, ReplayedPrefix
<1>3. CASE BootstrapEnds
  <2>1. /\ phase' = "replay" /\ phase = "bootstrap"
        /\ UNCHANGED <<log, readModel, worker, queue, published>>
    BY <1>3 DEF BootstrapEnds
  <2>2. readModel = StateOf(SubSeq(log, 1, readModel.seq)) /\ readModel.seq = 0
    <3>1. SubSeq(log, 1, 0) = << >>
      BY <1>1, WholePrefix DEF TypeOK
    <3>2. readModel = EmptyReadModel
      BY <1>1, <2>1 DEF ReplayedPrefix
    <3>. QED  BY <3>1, <3>2, StateOfEmpty DEF EmptyReadModel
  <2>3. 0 <= Len(log)
    BY <1>1 DEF TypeOK
  <2>. QED  BY <1>1, <2>1, <2>2, <2>3 DEF ReadModelCurrent, NothingInMemory, ReplayedPrefix
<1>4. CASE ReplayEvent
  <2>1. /\ phase' = "replay" /\ phase = "replay"
        /\ UNCHANGED <<log, worker, queue, published>>
        /\ readModel' = ProjectEvent(readModel, log[readModel.seq + 1], readModel.seq + 1)
        /\ readModel.seq < Len(log)
    BY <1>4 DEF ReplayEvent
  <2> DEFINE n == readModel.seq
             prefix == SubSeq(log, 1, n)
  <2>2. n \in Nat /\ Len(log) \in Nat /\ log \in Seq(Event(CommandIds))
    BY <1>1 DEF TypeOK, ReadModel
  <2>3. /\ SubSeq(log, 1, n + 1) = Append(prefix, log[n + 1])
        /\ prefix \in Seq(Event(CommandIds)) /\ Len(prefix) = n
        /\ log[n + 1] \in Event(CommandIds)
    BY <2>1, <2>2, PrefixNext
  <2>4. StateOf(SubSeq(log, 1, n + 1)) = readModel'
    <3>1. readModel = StateOf(prefix)
      BY <1>1, <2>1 DEF ReplayedPrefix
    <3> HIDE DEF n, prefix
    <3>2. StateOf(Append(prefix, log[n + 1])) =
            ProjectEvent(StateOf(prefix), log[n + 1], Len(prefix) + 1)
      BY <2>3, StateOfAppend
    <3>. QED  BY <2>1, <2>3, <3>1, <3>2 DEF n
  <2>5. readModel'.seq = n + 1
    BY <2>1 DEF ProjectEvent
  <2>. QED  BY <1>1, <2>1, <2>2, <2>4, <2>5 DEF ReadModelCurrent, NothingInMemory, ReplayedPrefix
<1>5. CASE StartWorker
  <2>1. /\ phase' = "running" /\ phase = "replay" /\ readModel.seq = Len(log)
        /\ UNCHANGED <<log, readModel, worker>>
    BY <1>5 DEF StartWorker
  <2>2. readModel = StateOf(log)
    <3>1. SubSeq(log, 1, Len(log)) = log
      BY <1>1, WholePrefix DEF TypeOK
    <3>. QED  BY <1>1, <2>1, <3>1 DEF ReplayedPrefix
  <2>. QED  BY <2>1, <2>2 DEF ReadModelCurrent, NothingInMemory, ReplayedPrefix
<1>6. ASSUME NEW c \in CommandIds, Dispatch(c)
      PROVE  ReadModelCurrent' /\ NothingInMemory' /\ ReplayedPrefix'
  BY <1>1, <1>6 DEF Dispatch, ReadModelCurrent, NothingInMemory, ReplayedPrefix
<1>7. CASE QuietWorkerSteps
  BY <1>1, <1>7, QuietSteps DEF ReadModelCurrent, NothingInMemory, ReplayedPrefix
<1>8. CASE Commit
  <2>1. phase = "running" /\ phase' = phase /\ worker'.step = "committed"
    BY <1>1, <1>8 DEF Commit, NothingInMemory, IdleWorker, TypeOK, Worker
  <2>. QED  BY <2>1 DEF ReadModelCurrent, NothingInMemory, ReplayedPrefix
<1>9. CASE AdoptReadModel
  <2>1. phase = "running" /\ phase' = phase /\ log' = log /\ readModel' = worker.next
    BY <1>1, <1>9 DEF AdoptReadModel, NothingInMemory, IdleWorker
  <2>2. worker.next = StateOf(log)
    BY <1>9 DEF AdoptReadModel, IInv, CommittedVisible
  <2>. QED  BY <2>1, <2>2 DEF ReadModelCurrent, NothingInMemory, ReplayedPrefix
<1>10. CASE Crash
  BY <1>10 DEF Crash, ReadModelCurrent, NothingInMemory, ReplayedPrefix
<1>11. CASE UNCHANGED vars
  BY <1>1, <1>11 DEF vars, ReadModelCurrent, NothingInMemory, ReplayedPrefix
<1>. QED
  BY <1>2, <1>3, <1>4, <1>5, <1>6, <1>7, <1>8, <1>9, <1>10, <1>11
  DEF Next, Boot, ProcessEnvelope, QuietWorkerSteps

-----------------------------------------------------------------------------
(* The locals of processEnvelope. *)
WorkerInv == StartIsLogEnd /\ LookupClean /\ TransactionDecided /\ CommittedVisible
               /\ RejectedForGood

LEMMA IdleWorkerInv ==
  ASSUME worker' = IdleWorker
  PROVE  WorkerInv'
BY DEF IdleWorker, WorkerInv, StartIsLogEnd, LookupClean, TransactionDecided, CommittedVisible,
   RejectedForGood

LEMMA WorkerInvStep == IInv /\ [Next]_vars => WorkerInv'
<1> SUFFICES ASSUME IInv, [Next]_vars PROVE WorkerInv'
  OBVIOUS
<1>1. TypeOK /\ WorkerInv
  BY DEF IInv, WorkerInv
<1> USE DEF durable, boot, outside
<1>2. CASE UNCHANGED <<log, receipts, worker>>
  BY <1>1, <1>2 DEF WorkerInv, StartIsLogEnd, LookupClean, TransactionDecided, CommittedVisible,
     RejectedForGood
<1>3. CASE worker' = IdleWorker
  BY <1>3, IdleWorkerInv
<1>4. CASE TakeEnvelope
  <2>1. /\ worker'.step = "lookup" /\ worker'.start = readModel.seq
        /\ worker'.done = 0 /\ worker'.error = "none" /\ log' = log
    BY <1>4 DEF TakeEnvelope, IdleWorker
  <2>2. readModel.seq = Len(log)
    <3>1. readModel = StateOf(log)
      BY <1>4 DEF TakeEnvelope, IInv, ReadModelCurrent
    <3>. QED  BY <3>1 DEF StateOf
  <2>. QED
    BY <2>1, <2>2 DEF WorkerInv, StartIsLogEnd, LookupClean, TransactionDecided,
       CommittedVisible, RejectedForGood
<1>5. CASE DecideCommand
  <2>1. /\ worker.step = "lookup" /\ UNCHANGED <<log, receipts>>
        /\ receipts[worker.cmd] = NoReceipt
    BY <1>5 DEF DecideCommand
  <2>2. readModel = StateOf(log)
    <3>1. phase = "running"
      BY <2>1 DEF IInv, NothingInMemory, IdleWorker
    <3>. QED  BY <2>1, <3>1 DEF IInv, ReadModelCurrent
  <2>3. worker.start = Len(log) /\ worker.done = 0
    BY <1>1, <2>1 DEF WorkerInv, StartIsLogEnd, LookupClean
  <2>4. CASE Legal(Commands[worker.cmd], readModel)
    <3> DEFINE events == Decide(Commands[worker.cmd], worker.cmd, readModel)
    <3>1. worker' = [worker EXCEPT !.step = "transaction", !.events = events,
                                   !.next = readModel]
      BY <1>5, <2>4 DEF DecideCommand
    <3>2. events \in Seq(Event(CommandIds))
      BY <1>1, <2>1, CommandAssumption, DecideType DEF TypeOK
    <3>3. log \o SubSeq(events, 1, 0) = log
      BY <1>1, <3>2 DEF TypeOK
    <3>4. 0 <= Len(events)
      BY <3>2
    <3>5. events = Decide(Commands[worker.cmd], worker.cmd, StateOf(log))
      BY <2>2
    <3> HIDE DEF events
    <3>6. /\ worker'.step = "transaction" /\ worker'.cmd = worker.cmd
          /\ worker'.start = worker.start /\ worker'.events = events
          /\ worker'.done = 0 /\ worker'.next = readModel
      BY <1>1, <2>3, <3>1 DEF TypeOK, Worker
    <3>7. TransactionDecided'
      BY <2>1, <2>2, <2>4, <3>3, <3>4, <3>5, <3>6 DEF TransactionDecided
    <3>. QED
      BY <2>1, <2>3, <3>6, <3>7 DEF WorkerInv, StartIsLogEnd, LookupClean, CommittedVisible,
         RejectedForGood
  <2>5. CASE ~Legal(Commands[worker.cmd], readModel)
    <3>1. /\ worker'.step = "failed" /\ worker'.start = worker.start
          /\ worker'.cmd = worker.cmd
      BY <1>1, <1>5, <2>5 DEF DecideCommand, FailWith, TypeOK, Worker
    <3>. QED
      BY <2>1, <2>2, <2>3, <2>5, <3>1 DEF WorkerInv, StartIsLogEnd, LookupClean,
         TransactionDecided, CommittedVisible, RejectedForGood
  <2>. QED  BY <2>4, <2>5
<1>6. CASE AppendEvent
  <2>1. /\ worker.step = "transaction" /\ UNCHANGED <<log, receipts>>
        /\ worker.done < Len(worker.events)
    BY <1>6 DEF AppendEvent
  <2> DEFINE k     == worker.done
             event == worker.events[k + 1]
             model == ProjectEvent(worker.next, event, Len(log) + k + 1)
  <2>2. /\ k \in Nat /\ worker.events \in Seq(Event(CommandIds)) /\ Len(worker.events) \in Nat
        /\ log \in Seq(Event(CommandIds)) /\ Len(log) \in Nat
    BY <1>1 DEF TypeOK, Worker
  <2>3. /\ log \o SubSeq(worker.events, 1, k + 1)
             = Append(log \o SubSeq(worker.events, 1, k), event)
        /\ Len(log \o SubSeq(worker.events, 1, k)) = Len(log) + k
        /\ log \o SubSeq(worker.events, 1, k) \in Seq(Event(CommandIds))
        /\ event \in Event(CommandIds)
    BY <2>1, <2>2, AppendPrefix
  <2>4. worker.next = StateOf(log \o SubSeq(worker.events, 1, k))
    BY <1>1, <2>1 DEF WorkerInv, TransactionDecided
  <2>5. model = StateOf(log \o SubSeq(worker.events, 1, k + 1))
    BY <2>3, <2>4, StateOfAppend
  <2>6. worker' = [worker EXCEPT !.done = k + 1, !.next = model]
    BY <1>6 DEF AppendEvent
  <2> HIDE DEF model
  <2>7. /\ worker'.step = "transaction" /\ worker'.cmd = worker.cmd
        /\ worker'.start = worker.start /\ worker'.events = worker.events
        /\ worker'.done = k + 1 /\ worker'.next = model
    BY <1>1, <2>1, <2>6 DEF TypeOK, Worker
  <2>8. TransactionDecided'
    BY <1>1, <2>1, <2>2, <2>5, <2>7 DEF WorkerInv, TransactionDecided
  <2>. QED
    BY <1>1, <2>1, <2>7, <2>8 DEF WorkerInv, StartIsLogEnd, LookupClean, CommittedVisible,
       RejectedForGood
<1>7. CASE Commit
  <2>1. /\ worker'.step = "committed" /\ worker'.cmd = worker.cmd
        /\ worker'.events = worker.events /\ worker'.done = Len(worker.events)
        /\ worker'.next = worker.next
    BY <1>1, <1>7 DEF Commit, TypeOK, Worker
  <2>2. receipts'[worker.cmd] = Accepted(Len(log'))
    BY <1>1, <1>7, Committing DEF Commit, TypeOK
  <2>3. Len(worker.events) <= Len(log') /\ worker.next = StateOf(log')
    BY <1>7, Committing
  <2>. QED
    BY <2>1, <2>2, <2>3 DEF WorkerInv, StartIsLogEnd, LookupClean, TransactionDecided,
       CommittedVisible, RejectedForGood
<1>8. CASE AdoptReadModel \/ PublishEvent
  <2>1. /\ worker.step \in {"committed", "publish"}
        /\ worker'.step = "publish" /\ worker'.cmd = worker.cmd
        /\ worker'.events = worker.events /\ UNCHANGED <<log, receipts>>
    BY <1>1, <1>8 DEF AdoptReadModel, PublishEvent, TypeOK, Worker
  <2>2. worker'.done <= Len(worker.events)
    <3>1. Len(worker.events) \in Nat /\ worker.done \in Nat
      BY <1>1 DEF TypeOK, Worker
    <3>2. CASE AdoptReadModel
      BY <1>1, <3>1, <3>2 DEF AdoptReadModel, TypeOK, Worker
    <3>3. CASE PublishEvent
      <4>1. worker'.done = worker.done + 1 /\ worker.done < Len(worker.events)
        BY <1>1, <3>3 DEF PublishEvent, TypeOK, Worker
      <4>. QED  BY <3>1, <4>1
    <3>. QED  BY <1>8, <3>2, <3>3
  <2>. QED
    BY <1>1, <2>1, <2>2 DEF WorkerInv, StartIsLogEnd, LookupClean, TransactionDecided,
       CommittedVisible, RejectedForGood
<1>9. CASE PersistenceFailure
  <2>1. /\ worker.step \in {"lookup", "transaction"} /\ log' = log
        /\ worker'.step = "failed" /\ worker'.error = "persistence"
        /\ worker'.start = worker.start
    BY <1>1, <1>9 DEF PersistenceFailure, FailWith, TypeOK, Worker
  <2>. QED
    BY <1>1, <2>1 DEF WorkerInv, StartIsLogEnd, LookupClean, TransactionDecided,
       CommittedVisible, RejectedForGood
<1>10. CASE Reconcile \/ ReconcileFails \/ RejectionNotRecorded
  <2>1. /\ worker.step \in {"failed", "refuse"} /\ UNCHANGED <<log, receipts>>
        /\ worker'.step \in {"refuse", "answer"} /\ worker'.error = worker.error
        /\ worker'.cmd = worker.cmd
    BY <1>1, <1>10 DEF Reconcile, ReconcileFails, RejectionNotRecorded, TypeOK, Worker
  <2>. QED
    BY <1>1, <2>1 DEF WorkerInv, StartIsLogEnd, LookupClean, TransactionDecided,
       CommittedVisible, RejectedForGood
<1>11. CASE RecordRejection
  <2>1. /\ worker.step = "refuse" /\ worker.error = "invariant" /\ log' = log
        /\ worker'.step = "answer" /\ worker'.cmd = worker.cmd
        /\ receipts'[worker.cmd] = Rejected
    BY <1>1, <1>11 DEF RecordRejection, TypeOK, Worker
  <2>. QED
    BY <1>1, <2>1 DEF WorkerInv, StartIsLogEnd, LookupClean, TransactionDecided,
       CommittedVisible, RejectedForGood
<1>12. ASSUME NEW c \in CommandIds, Dispatch(c) PROVE UNCHANGED <<log, receipts, worker>>
  BY <1>12 DEF Dispatch
<1>13. CASE Start \/ Boot \/ UNCHANGED vars
  BY <1>2, <1>13 DEF Start, Boot, BootstrapEvent, BootstrapNextProjector, BootstrapEnds,
     ReplayEvent, StartWorker, vars
<1>14. CASE AnswerFromReceipt \/ AnswerAccepted \/ AnswerFailure \/ Crash
  BY <1>3, <1>14 DEF AnswerFromReceipt, AnswerAccepted, AnswerFailure, Crash, Resolve
<1>. QED
  BY <1>2, <1>4, <1>5, <1>6, <1>7, <1>8, <1>9, <1>10, <1>11, <1>12, <1>13, <1>14
  DEF Next, ProcessEnvelope

-----------------------------------------------------------------------------
(* The stream of committed events. *)

LEMMA AppendNumber ==
  ASSUME NEW s \in Seq(Nat), NEW b \in Nat, Consecutive(s, b)
  PROVE  LET t == Append(s, b + Len(s) + 1)
         IN  Consecutive(t, b) /\ Len(t) = Len(s) + 1
BY DEF Consecutive

LEMMA EmptyNumbers ==
  ASSUME NEW b \in Nat
  PROVE  Consecutive(<< >>, b) /\ b + Len(<< >>) = b
BY DEF Consecutive

LEMMA CountAtMost ==
  ASSUME NEW n \in Nat, NEW l \in Nat, NEW e \in Nat, NEW d \in Nat, n = l - e + d, d <= e
  PROVE  n <= l
  OBVIOUS

LEMMA CountBelow ==
  ASSUME NEW n \in Nat, NEW l \in Nat, NEW e \in Nat, n = l - e
  PROVE  n <= l
  OBVIOUS

LEMMA PublishedStep == IInv /\ [Next]_vars => PublishedCount'
<1> SUFFICES ASSUME IInv, [Next]_vars PROVE PublishedCount'
  OBVIOUS
<1>1. TypeOK /\ PublishedCount
  BY DEF IInv
<1>2. Len(log) \in Nat /\ base \in Nat /\ Len(published) \in Nat /\ published \in Seq(Nat)
  BY <1>1 DEF TypeOK
<1> USE DEF durable, boot, outside
<1>3. CASE Start \/ BootstrapEvent \/ BootstrapNextProjector \/ BootstrapEnds \/ ReplayEvent
           \/ Crash
  BY <1>3 DEF Start, BootstrapEvent, BootstrapNextProjector, BootstrapEnds, ReplayEvent, Crash,
     PublishedCount
<1>4. CASE StartWorker
  <2>1. /\ base' = Len(log) /\ published' = << >> /\ log' = log /\ worker' = IdleWorker
    BY <1>4 DEF StartWorker, IInv, NothingInMemory
  <2>. QED  BY <1>2, <2>1, EmptyNumbers DEF PublishedCount, IdleWorker
<1>5. ASSUME NEW c \in CommandIds, Dispatch(c) PROVE PublishedCount'
  BY <1>1, <1>5 DEF Dispatch, PublishedCount
<1>6. CASE Commit
  <2>1. /\ worker.step = "transaction" /\ worker'.step = "committed"
        /\ worker'.events = worker.events /\ UNCHANGED <<phase, base, published>>
    BY <1>1, <1>6 DEF Commit, TypeOK, Worker
  <2>2. Len(log') = Len(log) + Len(worker.events) /\ Len(worker.events) \in Nat
    BY <1>6, Committing
  <2>. QED  BY <1>1, <1>2, <2>1, <2>2 DEF PublishedCount
<1>7. CASE AdoptReadModel
  <2>1. /\ worker.step = "committed" /\ worker'.step = "publish"
        /\ worker'.events = worker.events /\ worker'.done = 0
        /\ UNCHANGED <<log, phase, base, published>>
    BY <1>1, <1>7 DEF AdoptReadModel, TypeOK, Worker
  <2>2. Len(worker.events) \in Nat
    BY <1>1 DEF TypeOK, Worker
  <2>3. phase = "running" =>
          /\ base + Len(published) = Len(log) - Len(worker.events) + 0
          /\ Consecutive(published, base)
    BY <1>1, <1>2, <2>1, <2>2 DEF PublishedCount
  <2>. QED  BY <2>1, <2>3 DEF PublishedCount
<1>8. CASE PublishEvent
  <2>1. /\ worker.step = "publish" /\ worker'.step = "publish"
        /\ worker'.events = worker.events /\ worker'.done = worker.done + 1
        /\ UNCHANGED <<log, phase, base>>
        /\ published' = Append(published, Len(log) - Len(worker.events) + worker.done + 1)
    BY <1>1, <1>8 DEF PublishEvent, TypeOK, Worker
  <2>2. Len(worker.events) \in Nat /\ worker.done \in Nat
    BY <1>1 DEF TypeOK, Worker
  <2>3. phase = "running"
    BY <2>1 DEF IInv, NothingInMemory, IdleWorker
  <2>4. /\ base + Len(published) = Len(log) - Len(worker.events) + worker.done
        /\ Consecutive(published, base)
    BY <1>1, <2>1, <2>3 DEF PublishedCount
  <2>5. published' = Append(published, base + Len(published) + 1)
    BY <2>1, <2>4
  <2>6. /\ Consecutive(published', base)
        /\ Len(published') = Len(published) + 1
    BY <1>2, <2>4, <2>5, AppendNumber
  <2>7. base' + Len(published') = Len(log') - Len(worker'.events) + worker'.done
    <3> DEFINE p == Len(published)
               l == Len(log)
               e == Len(worker.events)
               d == worker.done
    <3>1. p \in Nat /\ l \in Nat /\ e \in Nat /\ d \in Nat /\ base \in Nat
      BY <1>2, <2>2
    <3>2. base + p = l - e + d
      BY <2>4
    <3> HIDE DEF p, l, e, d
    <3>3. base + (p + 1) = l - e + (d + 1)
      BY <3>1, <3>2
    <3>. QED  BY <2>1, <2>6, <3>3 DEF p, l, e, d
  <2>. QED  BY <2>1, <2>6, <2>7 DEF PublishedCount
<1>9. CASE AnswerAccepted
  <2>1. /\ worker.step = "publish" /\ worker.done = Len(worker.events)
        /\ UNCHANGED <<log, phase, base, published>> /\ worker' = IdleWorker
    BY <1>9 DEF AnswerAccepted, Resolve
  <2>2. Len(worker.events) \in Nat
    BY <1>1 DEF TypeOK, Worker
  <2>. QED  BY <1>1, <1>2, <2>1, <2>2 DEF PublishedCount, IdleWorker
<1>10. CASE QuietWorkerSteps /\ ~PublishEvent /\ ~AnswerAccepted
  <2>1. worker.step # "committed" /\ worker'.step # "committed" /\ UNCHANGED <<log, phase, base>>
    BY <1>10, QuietSteps
  <2>2. published' = published
    <3>1. Reconcile => Persisted = << >>
      BY <1>1, NothingPersisted DEF Reconcile, IInv, StartIsLogEnd
    <3>2. Reconcile => published' = published
      BY <1>2, <3>1 DEF Reconcile
    <3>. QED
      BY <1>10, <3>2 DEF QuietWorkerSteps, TakeEnvelope, AnswerFromReceipt, DecideCommand,
         AppendEvent, ReconcileFails, RecordRejection, RejectionNotRecorded, AnswerFailure,
         PersistenceFailure
  <2>3. worker.step # "publish"
    BY <1>10 DEF QuietWorkerSteps, TakeEnvelope, AnswerFromReceipt, DecideCommand, AppendEvent,
       Reconcile, ReconcileFails, RecordRejection, RejectionNotRecorded, AnswerFailure,
       PersistenceFailure
  <2>4. worker'.step # "publish"
    <3>1. CASE AnswerFromReceipt \/ AnswerFailure
      BY <3>1 DEF AnswerFromReceipt, AnswerFailure, Resolve, IdleWorker
    <3>5. CASE TakeEnvelope
      BY <3>5 DEF TakeEnvelope, IdleWorker
    <3>2. CASE DecideCommand \/ PersistenceFailure
      BY <1>1, <3>2 DEF DecideCommand, PersistenceFailure, FailWith, TypeOK, Worker
    <3>3. CASE AppendEvent
      <4>1. worker'.step = worker.step
        BY <1>1, <3>3 DEF AppendEvent, TypeOK, Worker
      <4>. QED  BY <2>3, <4>1
    <3>4. CASE Reconcile \/ ReconcileFails \/ RecordRejection \/ RejectionNotRecorded
      BY <1>1, <3>4 DEF Reconcile, ReconcileFails, RecordRejection, RejectionNotRecorded,
         TypeOK, Worker
    <3>. QED  BY <1>10, <3>1, <3>2, <3>3, <3>4, <3>5 DEF QuietWorkerSteps
  <2>. QED  BY <1>1, <2>1, <2>2, <2>3, <2>4 DEF PublishedCount
<1>11. CASE UNCHANGED vars
  BY <1>1, <1>11 DEF vars, PublishedCount
<1>. QED
  BY <1>3, <1>4, <1>5, <1>6, <1>7, <1>8, <1>9, <1>10, <1>11
  DEF Next, Boot, ProcessEnvelope, QuietWorkerSteps

-----------------------------------------------------------------------------
(* Every reachable state satisfies the inductive invariant: type           *)
(* correctness, the agreement of log, receipts, answers and read model,    *)
(* and what processEnvelope's locals mean at each of its steps.            *)
THEOREM Invariance == Spec => []IInv
<1>1. IInv /\ [Next]_vars => IInv'
  BY TypeStep, EffectOnceStep, AnswersDurableStep, ModelStep, WorkerInvStep, PublishedStep
  DEF IInv, WorkerInv
<1>. QED  BY InitIInv, <1>1, PTL DEF Spec

(* A command takes effect at most once and completely: retried dispatches, *)
(* failed transactions and restarts of the server leave the log with all   *)
(* of a command's events or none, as its receipt says.                     *)
THEOREM EffectOnceHolds == Spec => []EffectOnce
<1>1. IInv => EffectOnce
  BY DEF IInv
<1>. QED  BY Invariance, <1>1, PTL

(* The sequence a dispatcher was answered is, and stays, the sequence of   *)
(* the command's receipt in the database.                                  *)
THEOREM AnswersDurableHolds == Spec => []AnswersDurable
<1>1. IInv => AnswersDurable
  BY DEF IInv
<1>. QED  BY Invariance, <1>1, PTL

(* Commands are decided against the state the whole log adds up to.        *)
THEOREM ReadModelCurrentHolds == Spec => []ReadModelCurrent
<1>1. IInv => ReadModelCurrent
  BY DEF IInv
<1>. QED  BY Invariance, <1>1, PTL

(* Subscribers get every committed event once and in log order, and an     *)
(* idle worker has kept none back.                                         *)
THEOREM PublishedInOrderHolds == Spec => []PublishedInOrder
<1>1. IInv => PublishedInOrder
  <2> SUFFICES ASSUME IInv, phase = "running"
               PROVE  /\ Consecutive(published, base)
                      /\ base + Len(published) <= Len(log)
                      /\ worker.step \in {"idle", "lookup", "failed", "refuse", "answer"}
                           => base + Len(published) = Len(log)
    BY DEF PublishedInOrder
  <2>1. /\ Len(log) \in Nat /\ base \in Nat /\ Len(published) \in Nat
        /\ Len(worker.events) \in Nat /\ worker.done \in Nat
    BY DEF IInv, TypeOK, Worker
  <2>2. worker.step = "publish" => worker.done <= Len(worker.events)
    BY DEF IInv, CommittedVisible
  <2>3. PublishedCount
    BY DEF IInv
  <2>4. Consecutive(published, base)
    BY <2>3 DEF PublishedCount
  <2>5. CASE worker.step = "committed"
    <3>1. base + Len(published) = Len(log) - Len(worker.events)
      BY <2>3, <2>5 DEF PublishedCount
    <3>2. base + Len(published) \in Nat
      BY <2>1
    <3>4. base + Len(published) <= Len(log)
      BY <2>1, <3>1, <3>2, CountBelow
    <3>3. worker.step \notin {"idle", "lookup", "failed", "refuse", "answer"}
      BY <2>5
    <3>. QED  BY <2>4, <3>3, <3>4
  <2>6. CASE worker.step = "publish"
    <3>1. base + Len(published) = Len(log) - Len(worker.events) + worker.done
      BY <2>3, <2>6 DEF PublishedCount
    <3>2. base + Len(published) \in Nat
      BY <2>1
    <3>4. base + Len(published) <= Len(log)
      BY <2>1, <2>2, <2>6, <3>1, <3>2, CountAtMost
    <3>3. worker.step \notin {"idle", "lookup", "failed", "refuse", "answer"}
      BY <2>6
    <3>. QED  BY <2>4, <3>3, <3>4
  <2>7. CASE worker.step \notin {"committed", "publish"}
    <3>1. base + Len(published) = Len(log)
      BY <2>3, <2>7 DEF PublishedCount
    <3>. QED  BY <2>1, <2>4, <3>1
  <2>. QED  BY <2>5, <2>6, <2>7
<1>. QED  BY Invariance, <1>1, PTL

(* The reconciliation after a failed command has nothing to reconcile.     *)
THEOREM ReconcileFindsNothingHolds == Spec => []ReconcileFindsNothing
<1>1. IInv => ReconcileFindsNothing
  BY NothingPersisted DEF IInv, StartIsLogEnd, ReconcileFindsNothing
<1>. QED  BY Invariance, <1>1, PTL

(* The instance of CommandService has copies of EventLog's definitions. *)
LEMMA ServiceReceipts ==
  /\ Service!NoReceipt = NoReceipt
  /\ Service!Rejected = Rejected
  /\ Service!Failed = Failed
  /\ \A n : Service!Accepted(n) = Accepted(n)
BY DEF Service!NoReceipt, Service!Rejected, Service!Failed, Service!Accepted,
   NoReceipt, Rejected, Failed, Accepted

LEMMA ServiceState == \A evs : Service!StateOf(evs) = StateOf(evs)
BY DEF Service!StateOf, Service!ProjectsIn, Service!ThreadsIn, Service!ModeIn,
   Service!ModeSetters, Service!IsLast, Service!Creates, Service!SetsMode,
   StateOf, ProjectsIn, ThreadsIn, ModeIn, ModeSetters, IsLast, Creates, SetsMode

LEMMA ServiceDecider ==
  \A command, c, model : /\ Service!Legal(command, model) <=> Legal(command, model)
                         /\ Service!Decide(command, c, model) = Decide(command, c, model)
BY DEF Service!Legal, Service!RequireProject, Service!RequireProjectAbsent,
   Service!RequireThread, Service!RequireThreadAbsent, Service!ThreadCommand,
   Service!SimpleThreadCommand, Service!ProjectCommand, Service!ProjectEventType,
   Service!SettingsEventType, Service!RequestEventType, Service!ReportEventType,
   Service!Decide, Service!TurnStartEvents, Service!SingleEvent, Service!EventTypeOf,
   Legal, RequireProject, RequireProjectAbsent, RequireThread, RequireThreadAbsent,
   ThreadCommand, SimpleThreadCommand, ProjectCommand, ProjectEventType, SettingsEventType,
   RequestEventType, ReportEventType, Decide, TurnStartEvents, SingleEvent, EventTypeOf

(* The engine implements CommandService: Commit is Accept, RecordRejection *)
(* is Reject, the steps that resolve a Deferred give an answer, and every  *)
(* other step, a crash included, is invisible to the service.              *)
THEOREM EngineImplementsService == Spec => ServiceSpec
<1>1. Init => Service!Init
  BY DEF Init, Service!Init
<1>2. IInv /\ [Next]_vars => [Service!Next]_(Service!serviceVars)
  <2> SUFFICES ASSUME IInv, [Next]_vars
               PROVE  Service!Next \/ UNCHANGED <<log, receipts, answers>>
    BY DEF Service!serviceVars
  <2> USE DEF durable, boot, outside
  <2>1. TypeOK
    BY DEF IInv
  <2> USE ServiceReceipts, ServiceState, ServiceDecider
  <2>2. CASE Commit
    <3>1. UNCHANGED answers
      BY <2>2 DEF Commit
    <3>2. receipts' = [receipts EXCEPT ![worker.cmd] = Accepted(Len(log'))]
      BY <2>2 DEF Commit
    <3>3. log' = log \o Decide(Commands[worker.cmd], worker.cmd, StateOf(log))
      BY <2>2, Committing
    <3>4. Service!Accept(worker.cmd)
      BY <2>2, <3>1, <3>2, <3>3, Committing DEF Service!Accept
    <3>. QED  BY <2>2, <3>4, Committing DEF Service!Next
  <2>3. CASE RecordRejection
    <3>1. worker.cmd \in CommandIds
      BY <2>1, <2>3 DEF TypeOK, RecordRejection
    <3>2. receipts[worker.cmd] = NoReceipt /\ ~Legal(Commands[worker.cmd], StateOf(log))
      BY <2>3 DEF IInv, RejectedForGood, RecordRejection
    <3>3. Service!Reject(worker.cmd)
      BY <2>3, <3>2 DEF RecordRejection, Service!Reject
    <3>. QED  BY <3>1, <3>3 DEF Service!Next
  <2>4. CASE AnswerFromReceipt
    <3>1. worker.cmd \in CommandIds
      BY <2>1, <2>4 DEF TypeOK, AnswerFromReceipt
    <3>2. Service!AnswerDispatch(worker.cmd)
      BY <2>4 DEF AnswerFromReceipt, Resolve, Service!AnswerDispatch, Service!GiveAnswer
    <3>. QED  BY <3>1, <3>2 DEF Service!Next
  <2>5. CASE AnswerAccepted
    <3>1. worker.cmd \in CommandIds /\ receipts[worker.cmd] = Accepted(Len(log))
      BY <2>1, <2>5 DEF TypeOK, AnswerAccepted, IInv, CommittedVisible
    <3>2. receipts[worker.cmd] # NoReceipt
      BY <3>1 DEF Accepted, NoReceipt
    <3>3. Service!AnswerDispatch(worker.cmd)
      BY <2>5, <3>1, <3>2
      DEF AnswerAccepted, Resolve, Service!AnswerDispatch, Service!GiveAnswer
    <3>. QED  BY <3>1, <3>3 DEF Service!Next
  <2>6. CASE AnswerFailure
    <3>1. worker.cmd \in CommandIds
      BY <2>1, <2>6 DEF TypeOK, AnswerFailure
    <3>2. CASE worker.error = "invariant"
      <4>1. /\ ~Legal(Commands[worker.cmd], StateOf(log))
            /\ receipts[worker.cmd] = NoReceipt \/ receipts[worker.cmd] = Rejected
        BY <2>6, <3>2 DEF AnswerFailure, IInv, RejectedForGood
      <4>2. Service!GiveAnswer(worker.cmd, Rejected)
        BY <2>6, <3>2 DEF AnswerFailure, Resolve, Service!GiveAnswer
      <4>3. Rejected # NoReceipt
        BY DEF Rejected, NoReceipt
      <4>4. Service!AnswerDispatch(worker.cmd)
        BY <4>1, <4>2, <4>3 DEF Service!AnswerDispatch
      <4>. QED  BY <3>1, <4>4 DEF Service!Next
    <3>3. CASE worker.error # "invariant"
      <4>1. Service!GiveAnswer(worker.cmd, Failed)
        BY <2>6, <3>3 DEF AnswerFailure, Resolve, Service!GiveAnswer
      <4>2. Service!AnswerDispatch(worker.cmd)
        BY <4>1 DEF Service!AnswerDispatch
      <4>. QED  BY <3>1, <4>2 DEF Service!Next
    <3>. QED  BY <3>2, <3>3
  <2>. QED  BY <2>2, <2>3, <2>4, <2>5, <2>6, DurableSteps, AnsweringSteps
<1>. QED  BY <1>1, <1>2, Invariance, PTL DEF Spec, Service!Spec, ServiceSpec
-----------------------------------------------------------------------------
(* The bootstrap, for a log an earlier release left that fits one read.    *)
LEMMA NoLag ==
  ASSUME TypeOK, NEW p \in Projectors
  PROVE  /\ Lag(p) \in Int /\ cursor[p] \in Nat /\ Len(log) \in Nat
         /\ Lag(p) = 0 <=> cursor[p] = Len(log)
BY DEF TypeOK, Lag

LEMMA OrderedProjectors ==
  /\ Len(ProjectorOrder) \in Nat /\ ReadLimit \in Nat
  /\ DOMAIN ProjectorOrder = 1 .. Len(ProjectorOrder)
  /\ \A p \in Projectors : \E i \in DOMAIN ProjectorOrder : ProjectorOrder[i] = p
  /\ \A i \in DOMAIN ProjectorOrder : ProjectorOrder[i] \in Projectors
BY EngineAssumption DEF Projectors

LEMMA NextNumber == \A n \in Nat : (1 .. n) \cup {n + 1} = 1 .. n + 1
OBVIOUS

LEMMA MoreNumbers ==
  \A m \in Nat, n \in Nat : m <= n => (1 .. m) \cup (m + 1 .. n) = 1 .. n
OBVIOUS

(* Few steps have to do with cursors. *)
LEMMA ProjectingSteps ==
  ASSUME [Next]_vars
  PROVE  \/ BootstrapEvent \/ BootstrapNextProjector \/ BootstrapEnds \/ Start \/ StartWorker
         \/ Commit \/ Crash \/ UNCHANGED <<log, cursor, applied, boot>>
<1>1. CASE Reconcile
  <2>1. UNCHANGED <<durable, boot, queue, outside>>
    BY <1>1, Zenon DEF Reconcile
  <2>. QED  BY <2>1 DEF durable
<1>2. CASE ReplayEvent \/ \E c \in CommandIds : Dispatch(c)
  BY <1>2 DEF ReplayEvent, Dispatch, durable
<1>3. CASE TakeEnvelope \/ AnswerFromReceipt \/ DecideCommand \/ AppendEvent \/ AdoptReadModel
  BY <1>3 DEF TakeEnvelope, AnswerFromReceipt, DecideCommand, AppendEvent, AdoptReadModel, durable
<1>4. CASE PublishEvent \/ AnswerAccepted \/ ReconcileFails \/ RecordRejection
  BY <1>4 DEF PublishEvent, AnswerAccepted, ReconcileFails, RecordRejection, durable
<1>5. CASE RejectionNotRecorded \/ AnswerFailure \/ PersistenceFailure
  BY <1>5 DEF RejectionNotRecorded, AnswerFailure, PersistenceFailure, durable
<1>6. CASE UNCHANGED vars
  BY <1>6 DEF vars, durable
<1>. QED  BY <1>1, <1>2, <1>3, <1>4, <1>5, <1>6 DEF Next, Boot, ProcessEnvelope

LEMMA InitCursors ==
  ASSUME Len(LegacyLog) <= ReadLimit, Init
  PROVE  LagBounded /\ CursorsSound
<1>1. Len(LegacyLog) \in Nat /\ ReadLimit \in Nat
  BY LegacyAssumption, EngineAssumption
<1>2. \A p \in Projectors : Lag(p) \in 0 .. ReadLimit /\ cursor[p] \in Nat
  BY <1>1 DEF Init, Lag
<1>3. phase = "down" /\ CursorsSound
  BY DEF Init, CursorsSound
<1>. QED  BY <1>2, <1>3 DEF LagBounded

(* One more event in the tables of the projector whose turn it is. *)
LEMMA BootstrapEventCursors ==
  ASSUME TypeOK, LagBounded, CursorsSound, BootstrapEvent
  PROVE  LagBounded' /\ CursorsSound'
<1> DEFINE p == ProjectorOrder[booting.index]
<1>1. booting.index \in DOMAIN ProjectorOrder /\ booting.left \in Nat
  BY OrderedProjectors DEF BootstrapEvent, TypeOK
<1>2. p \in Projectors /\ cursor[p] \in Nat /\ Len(log) \in Nat
  BY <1>1, OrderedProjectors, NoLag
<1>3. /\ cursor[p] < Len(log) /\ log' = log /\ phase = "bootstrap" /\ phase' = "bootstrap"
      /\ booting'.index = booting.index /\ booting'.left = booting.left - 1
  BY DEF BootstrapEvent, TypeOK
<1>4. \A q \in Projectors : /\ cursor'[q] = IF q = p THEN cursor[q] + 1 ELSE cursor[q]
                            /\ applied'[q] = IF q = p THEN applied[q] \cup {cursor[p] + 1}
                                             ELSE applied[q]
  BY DEF BootstrapEvent, TypeOK
<1> HIDE DEF p
<1>5. ASSUME NEW q \in Projectors
      PROVE  /\ Lag(q)' = IF q = p THEN Lag(q) - 1 ELSE Lag(q)
             /\ Lag(q) \in 0 .. ReadLimit
  <2>1. cursor[q] \in Nat /\ Lag(q) \in 0 .. ReadLimit
    BY NoLag DEF LagBounded
  <2>2. Lag(q)' = Len(log) - cursor'[q]
    BY <1>3 DEF Lag
  <2>3. cursor'[q] = IF q = p THEN cursor[q] + 1 ELSE cursor[q]
    BY <1>4
  <2>. QED  BY <1>2, <2>1, <2>2, <2>3 DEF Lag
<1>6. Lag(p) > 0 /\ p = ProjectorOrder[booting.index]
  BY <1>2, <1>3 DEF Lag, p
<1>7. \A q \in Projectors : Lag(q)' \in 0 .. ReadLimit
  BY <1>5, <1>6, OrderedProjectors
<1>8. ASSUME NEW i \in DOMAIN ProjectorOrder
      PROVE  /\ i < booting.index => Lag(ProjectorOrder[i])' = 0
             /\ i = booting.index => Lag(ProjectorOrder[i])' <= booting.left - 1
  <2>1. ProjectorOrder[i] \in Projectors
    BY OrderedProjectors
  <2>2. i < booting.index => Lag(ProjectorOrder[i]) = 0
    BY <1>3 DEF LagBounded
  <2>3. i = booting.index => Lag(ProjectorOrder[i]) <= booting.left
    BY <1>3 DEF LagBounded
  <2>. QED  BY <1>1, <1>5, <1>6, <2>1, <2>2, <2>3
<1>9. LagBounded'
  BY <1>3, <1>7, <1>8 DEF LagBounded
<1>10. ASSUME NEW q \in Projectors PROVE applied'[q] = 1 .. cursor'[q]
  BY <1>2, <1>4, NextNumber DEF CursorsSound
<1>. QED  BY <1>9, <1>10 DEF CursorsSound

LEMMA BootstrapNextCursors ==
  ASSUME TypeOK, LagBounded, BootstrapNextProjector
  PROVE  LagBounded'
<1>1. booting.index \in DOMAIN ProjectorOrder /\ ReadLimit \in Nat
  BY OrderedProjectors DEF BootstrapNextProjector, TypeOK
<1>2. /\ phase = "bootstrap" /\ phase' = "bootstrap" /\ log' = log /\ cursor' = cursor
      /\ booting'.index = booting.index + 1 /\ booting'.left = ReadLimit
      /\ booting.left = 0 \/ cursor[ProjectorOrder[booting.index]] = Len(log)
  BY DEF BootstrapNextProjector, durable
<1>3. \A q \in Projectors : Lag(q)' = Lag(q) /\ Lag(q) \in 0 .. ReadLimit
  BY <1>2 DEF Lag, LagBounded
<1>4. ASSUME NEW i \in DOMAIN ProjectorOrder
      PROVE  /\ i < booting.index + 1 => Lag(ProjectorOrder[i])' = 0
             /\ Lag(ProjectorOrder[i])' <= ReadLimit
  <2>1. ProjectorOrder[i] \in Projectors
    BY OrderedProjectors
  <2>2. i < booting.index => Lag(ProjectorOrder[i]) = 0
    BY <1>2 DEF LagBounded
  <2>3. i = booting.index => Lag(ProjectorOrder[i]) = 0
    <3>1. i = booting.index => Lag(ProjectorOrder[i]) <= booting.left
      BY <1>2 DEF LagBounded
    <3>. QED  BY <1>2, <1>3, <2>1, <3>1, NoLag
  <2>. QED  BY <1>1, <1>3, <2>1, <2>2, <2>3, OrderedProjectors
<1>. QED  BY <1>2, <1>3, <1>4 DEF LagBounded

LEMMA CommitCursors ==
  ASSUME TypeOK, phase = "running", LagBounded, CursorsSound, Commit
  PROVE  LagBounded' /\ CursorsSound'
<1>1. Len(log) \in Nat /\ Len(log') \in Nat /\ Len(log') >= Len(log) /\ ReadLimit \in Nat
  BY EngineAssumption DEF Commit, TypeOK, Worker
<1>2. \A p \in Projectors : cursor[p] = Len(log)
  BY NoLag DEF LagBounded
<1>3. \A p \in Projectors : /\ cursor'[p] = Len(log')
                            /\ applied'[p] = applied[p] \cup (Len(log) + 1 .. Len(log'))
  BY DEF Commit
<1>4. \A p \in Projectors : Lag(p)' = 0
  BY <1>1, <1>3 DEF Lag
<1>5. LagBounded'
  BY <1>1, <1>4 DEF LagBounded, Commit, boot
<1>6. ASSUME NEW p \in Projectors PROVE applied'[p] = 1 .. cursor'[p]
  <2>1. applied[p] = 1 .. Len(log)
    BY <1>2 DEF CursorsSound
  <2>2. (1 .. Len(log)) \cup (Len(log) + 1 .. Len(log')) = 1 .. Len(log')
    BY <1>1, MoreNumbers
  <2>. QED  BY <1>3, <2>1, <2>2
<1>. QED  BY <1>5, <1>6 DEF CursorsSound

LEMMA CursorsStep ==
  ASSUME IInv, LagBounded, CursorsSound, [Next]_vars
  PROVE  LagBounded' /\ CursorsSound'
<1>1. TypeOK
  BY DEF IInv
<1>2. CASE BootstrapEvent
  BY <1>1, <1>2, BootstrapEventCursors
<1>3. CASE BootstrapNextProjector
  BY <1>1, <1>3, BootstrapNextCursors DEF BootstrapNextProjector, durable, CursorsSound
<1>4. CASE BootstrapEnds
  <2>1. \A i \in DOMAIN ProjectorOrder : i < booting.index
    BY <1>1, <1>4, OrderedProjectors DEF BootstrapEnds, TypeOK
  <2>2. \A p \in Projectors : Lag(p) = 0 /\ Lag(p)' = Lag(p)
    BY <1>4, <2>1, OrderedProjectors DEF BootstrapEnds, LagBounded, Lag, durable
  <2>3. phase' = "replay" /\ CursorsSound'
    BY <1>4 DEF BootstrapEnds, durable, CursorsSound
  <2>. QED  BY <2>2, <2>3, OrderedProjectors DEF LagBounded
<1>5. CASE Start
  <2>1. /\ phase' = "bootstrap" /\ booting'.index = 1 /\ booting'.left = ReadLimit
        /\ log' = log /\ cursor' = cursor /\ applied' = applied
    BY <1>5 DEF Start, durable
  <2>2. \A p \in Projectors : Lag(p)' \in 0 .. ReadLimit
    BY <2>1 DEF LagBounded, Lag
  <2>. QED  BY <2>1, <2>2, OrderedProjectors DEF LagBounded, CursorsSound
<1>6. CASE Commit
  <2>1. worker.step = "transaction"
    BY <1>6 DEF Commit
  <2>2. phase = "running"
    BY <1>1, <2>1 DEF IInv, NothingInMemory, IdleWorker, TypeOK
  <2>. QED  BY <1>1, <1>6, <2>2, CommitCursors
<1>7. CASE StartWorker
  BY <1>7 DEF StartWorker, durable, LagBounded, Lag, CursorsSound
<1>8. CASE Crash
  BY <1>8 DEF Crash, durable, LagBounded, Lag, CursorsSound
<1>9. ASSUME UNCHANGED <<log, cursor, applied, boot>>
      PROVE  LagBounded' /\ CursorsSound'
  BY <1>9 DEF boot, LagBounded, Lag, CursorsSound
<1>10. ASSUME ~BootstrapEvent, ~BootstrapNextProjector, ~BootstrapEnds, ~Start, ~Commit,
              ~StartWorker, ~Crash
       PROVE  UNCHANGED <<log, cursor, applied, boot>>
  BY <1>10, ProjectingSteps
<1>. QED  BY <1>2, <1>3, <1>4, <1>5, <1>6, <1>7, <1>8, <1>9, <1>10

(* Unless an earlier release left a longer log than one read of a          *)
(* bootstrap, no cursor ever claims an event that its projector's tables   *)
(* lack, through any number of crashes in the middle of a bootstrap.       *)
THEOREM CursorsSoundHolds ==
  ASSUME Len(LegacyLog) <= ReadLimit
  PROVE  Spec => [](LagBounded /\ CursorsSound)
<1>1. Init => LagBounded /\ CursorsSound
  BY InitCursors
<1>2. IInv /\ LagBounded /\ CursorsSound /\ [Next]_vars => (LagBounded /\ CursorsSound)'
  BY CursorsStep
<1>. QED  BY <1>1, <1>2, Invariance, PTL DEF Spec

(* Once the server runs, every projector's tables hold every event. *)
THEOREM ProjectionsCompleteHolds ==
  ASSUME Len(LegacyLog) <= ReadLimit
  PROVE  Spec => []ProjectionsComplete
<1>1. TypeOK /\ LagBounded /\ CursorsSound => ProjectionsComplete
  BY NoLag DEF LagBounded, CursorsSound, ProjectionsComplete
<1>2. IInv => TypeOK
  BY DEF IInv
<1>. QED  BY <1>1, <1>2, Invariance, CursorsSoundHolds, PTL
=============================================================================
