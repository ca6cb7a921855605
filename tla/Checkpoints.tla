----------------------------- MODULE Checkpoints -----------------------------
(***************************************************************************)
(* The git checkpoints of one thread in a git workspace: captured when a   *)
(* turn starts and when it completes, restored when the user reverts.      *)
(*                                                                         *)
(* Source: orchestration/Layers/CheckpointReactor.ts with the store in     *)
(* checkpointing/Layers/CheckpointStore.ts, and the session and diff       *)
(* handlers of orchestration/Layers/ProviderRuntimeIngestion.ts.  The      *)
(* reactor takes one input at a time; the ingestion, the provider and the  *)
(* user go on while it waits for git.  The provider is external: a         *)
(* conversation of turns, each of which edits the files.                   *)
(*                                                                         *)
(* The fibers that only copy events into the reactor's queue are no steps  *)
(* of their own.  Turns are numbered in the order they start, and the      *)
(* content of the files is a number, new with every change.                *)
(***************************************************************************)
EXTENDS Integers, Sequences, Lists

CONSTANTS
  MaxTurns, MaxDiffs, MaxReverts,   \* bounds: turns, turn.diff.updated events, revert requests
  Scopes                            \* bounds that go together, one of which a behaviour keeps to

(* The turns, the changes of the files, the diff events, the reverts and   *)
(* the failing git and provider calls of a behaviour, and whether its user *)
(* waits for the reactor before asking for anything.                       *)
ASSUME CheckpointAssumption ==
  /\ {MaxTurns, MaxDiffs, MaxReverts} \subseteq Nat
  /\ Scopes \subseteq [turns : 0 .. MaxTurns, edits : Nat, diffs : 0 .. MaxDiffs,
                       reverts : 0 .. MaxReverts, failures : Nat, patient : BOOLEAN]

NoTurn == 0
NoRef == -1      \* provider-diff:<event id>, which names no git ref
Turns == 1 .. MaxTurns
Counts == 0 .. MaxTurns + MaxDiffs

VARIABLES
  \* the thread in the read model
  checkpoints,   \* in order of their counts
  activeTurn,    \* session.activeTurnId
  \* the git repository
  refs,          \* content of checkpointRefForThreadTurn(thread, count), by count
  files,         \* content of the worktree
  \* the provider
  conversation,  \* the turns it remembers
  running,       \* the turn that runs
  \* the client
  sending,       \* "requested" until the turn runs, "started" until the client is told
  \* the queues of the ingestion and of the reactor, and the reactor's handler
  ingestion, inputs, reactor,
  \* history
  ends,          \* the files as each turn left them
  fresh,         \* the last number given to a content
  diffs, reverts, failures, answers,
  unanswered,    \* number of reverts whose failure activity failed too
  abandoned,     \* targets of reverts that failed after refs were deleted
  scope          \* the bounds of this behaviour

thread   == <<checkpoints, activeTurn>>
git      == <<refs, files, fresh>>
provider == <<conversation, running, ends, diffs>>
client   == <<sending, reverts>>
outcome  == <<failures, answers, unanswered, abandoned, scope>>
vars == <<thread, git, provider, client, ingestion, inputs, reactor, outcome>>

-----------------------------------------------------------------------------
Event == [type : {"turn.started", "turn.completed", "turn.diff.updated"}, turn : Turns]
Input == [type : {"turn-start-requested"}]
           \cup [type : {"turn.started", "turn.completed"}, turn : Turns]
           \cup [type : {"checkpoint-revert-requested"}, n : Counts]
Checkpoint == [turn : Turns, count : Counts \ {0}, ref : Counts \cup {NoRef}]
Step == {"idle", "baseline", "capture", "report", "restore", "rollback", "delete", "complete"}

Idle == [step |-> "idle", turn |-> NoTurn, n |-> 0, known |-> << >>]
At(step) == reactor.step = step
Goto(step) == reactor' = [reactor EXCEPT !.step = step]

(* currentTurnCount *)
CurrentCount(list) ==
  LET counts == {0} \cup {list[i].count : i \in DOMAIN list}
  IN CHOOSE n \in counts : \A k \in counts : k <= n

SetRef(n, content) == [k \in DOMAIN refs \cup {n} |-> IF k = n THEN content ELSE refs[k]]
DropRefs(ns) == [k \in DOMAIN refs \ ns |-> refs[k]]

(* thread.turn-diff-completed in the read model: one checkpoint for a turn. *)
InsertCheckpoint(t, n, ref) ==
  LET before == {i \in DOMAIN checkpoints : checkpoints[i].turn # t /\ checkpoints[i].count <= n}
      after  == {i \in DOMAIN checkpoints : checkpoints[i].turn # t /\ checkpoints[i].count > n}
  IN checkpoints' = Keep(checkpoints, before) \o <<[turn |-> t, count |-> n, ref |-> ref]>>
                      \o Keep(checkpoints, after)

(* A call that fails. *)
MayFail == failures < scope.failures /\ failures' = failures + 1

-----------------------------------------------------------------------------
(* The user, who has no turn in progress as far as the client knows. *)
ClientReady == /\ sending = "none"
               /\ activeTurn = NoTurn
               /\ scope.patient => At("idle") /\ inputs = << >>

(* thread.turn.start, whose two events the reactor treats alike. *)
RequestTurn ==
  /\ ClientReady
  /\ Len(ends) < scope.turns /\ running = NoTurn
  /\ sending' = "requested"
  /\ inputs' = Append(inputs, [type |-> "turn-start-requested"])
  /\ UNCHANGED <<thread, git, provider, reverts, ingestion, reactor, outcome>>

(* thread.checkpoint.revert *)
RequestRevert(n) ==
  /\ ClientReady
  /\ n <= CurrentCount(checkpoints)
  /\ reverts < scope.reverts
  /\ reverts' = reverts + 1
  /\ inputs' = Append(inputs, [type |-> "checkpoint-revert-requested", n |-> n])
  /\ UNCHANGED <<thread, git, provider, sending, ingestion, reactor, outcome>>

-----------------------------------------------------------------------------
(* The provider starts the requested turn, changes files, reports a diff   *)
(* of them and completes the turn.                                         *)
StartTurn ==
  LET t == Len(ends) + 1
  IN /\ sending = "requested"
     /\ sending' = "started"
     /\ running' = t
     /\ conversation' = Append(conversation, t)
     /\ ingestion' = Append(ingestion, [type |-> "turn.started", turn |-> t])
     /\ inputs' = Append(inputs, [type |-> "turn.started", turn |-> t])
     /\ UNCHANGED <<thread, git, ends, diffs, reverts, reactor, outcome>>

EditFiles ==
  /\ running # NoTurn
  /\ fresh < scope.edits
  /\ fresh' = fresh + 1
  /\ files' = fresh'
  /\ UNCHANGED <<thread, refs, provider, client, ingestion, inputs, reactor, outcome>>

ReportDiff ==
  /\ running # NoTurn
  /\ diffs < scope.diffs
  /\ diffs' = diffs + 1
  /\ ingestion' = Append(ingestion, [type |-> "turn.diff.updated", turn |-> running])
  /\ UNCHANGED <<thread, git, conversation, running, ends, client, inputs, reactor, outcome>>

CompleteTurn ==
  /\ running # NoTurn
  /\ running' = NoTurn
  /\ ends' = Append(ends, files)
  /\ ingestion' = Append(ingestion, [type |-> "turn.completed", turn |-> running])
  /\ inputs' = Append(inputs, [type |-> "turn.completed", turn |-> running])
  /\ UNCHANGED <<thread, git, conversation, diffs, client, reactor, outcome>>

-----------------------------------------------------------------------------
(* processRuntimeEvent of the ingestion *)

SessionAfter(event) ==
  CASE activeTurn \notin {NoTurn, event.turn} -> activeTurn
    [] event.type = "turn.started"            -> event.turn
    [] OTHER                                  -> NoTurn

IngestLifecycle ==
  /\ ingestion # << >> /\ Head(ingestion).type \in {"turn.started", "turn.completed"}
  /\ activeTurn' = SessionAfter(Head(ingestion))
  /\ sending' = IF sending = "started" /\ Head(ingestion).type = "turn.started" THEN "none"
                ELSE sending
  /\ ingestion' = Tail(ingestion)
  /\ UNCHANGED <<checkpoints, git, provider, reverts, inputs, reactor, outcome>>

(* A checkpoint with status missing for the turn of a reported diff. *)
IngestDiff ==
  /\ ingestion # << >> /\ Head(ingestion).type = "turn.diff.updated"
  /\ InsertCheckpoint(Head(ingestion).turn, Len(checkpoints) + 1, NoRef)
  /\ ingestion' = Tail(ingestion)
  /\ UNCHANGED <<activeTurn, git, provider, client, inputs, reactor, outcome>>

-----------------------------------------------------------------------------
(* The reactor takes its next input.                                       *)
Take(type) == /\ At("idle") /\ inputs # << >> /\ Head(inputs).type = type
              /\ inputs' = Tail(inputs)
              /\ UNCHANGED <<thread, git, provider, client, ingestion, abandoned, scope>>

BaselineCount == CurrentCount(checkpoints)

(* ensurePreTurnBaselineFromDomainTurnStart and ...FromTurnStart *)
TakeTurnStart ==
  /\ Take("turn-start-requested") \/ Take("turn.started")
  /\ reactor' = IF BaselineCount \in DOMAIN refs THEN Idle
                ELSE [Idle EXCEPT !.step = "baseline", !.n = BaselineCount]
  /\ UNCHANGED <<failures, answers, unanswered>>

CaptureBaseline ==
  /\ At("baseline")
  /\ refs' = SetRef(reactor.n, files)
  /\ reactor' = Idle
  /\ UNCHANGED <<thread, files, fresh, provider, client, ingestion, inputs, outcome>>

(* Mutated form: the checkpoint replaces the one before it. *)
NextCount_Current == IF checkpoints = << >> THEN 1 ELSE CurrentCount(checkpoints)

NextCount == CurrentCount(checkpoints) + 1

(* captureCheckpointFromTurnCompletion: skipped for a turn that has a      *)
(* checkpoint, and for any but the active one while one is active.         *)
TakeTurnCompleted ==
  /\ Take("turn.completed")
  /\ LET t == Head(inputs).turn
     IN reactor' = IF \/ activeTurn \notin {NoTurn, t}
                      \/ \E i \in DOMAIN checkpoints : checkpoints[i].turn = t
                   THEN Idle
                   ELSE [Idle EXCEPT !.step = "capture", !.turn = t, !.n = NextCount]
  /\ UNCHANGED <<failures, answers, unanswered>>

Capture ==
  /\ At("capture")
  /\ refs' = SetRef(reactor.n, files)
  /\ Goto("report")
  /\ UNCHANGED <<thread, files, fresh, provider, client, ingestion, inputs, outcome>>

(* The diff to the checkpoint before, without which the list of changed    *)
(* files stays empty, and thread.turn.diff.complete.                       *)
ReportCheckpoint ==
  /\ At("report")
  /\ InsertCheckpoint(reactor.turn, reactor.n, reactor.n)
  /\ reactor' = Idle
  /\ UNCHANGED <<activeTurn, git, provider, client, ingestion, inputs, outcome>>

(* A capture that fails, before or after it set the ref. *)
CaptureFails ==
  /\ At("baseline") \/ At("capture") \/ At("report")
  /\ MayFail
  /\ reactor' = Idle
  /\ UNCHANGED <<thread, git, provider, client, ingestion, inputs, answers, unanswered,
                 abandoned, scope>>

-----------------------------------------------------------------------------
(* appendRevertFailureActivity: the user is told, unless that fails too,   *)
(* which the reactor swallows or logs.                                     *)
TellFailure == answers' = Append(answers, "failed") /\ UNCHANGED unanswered
LoseFailure == unanswered' = unanswered + 1 /\ UNCHANGED answers
Refuse == \/ TellFailure /\ UNCHANGED failures
          \/ LoseFailure /\ MayFail

(* handleRevertRequested *)
Holders(n) == {i \in DOMAIN checkpoints : checkpoints[i].count = n}

TakeRevert ==
  /\ Take("checkpoint-revert-requested")
  /\ LET n == Head(inputs).n
         impossible == n > CurrentCount(checkpoints) \/ (n # 0 /\ Holders(n) = {})
     IN IF impossible THEN reactor' = Idle /\ Refuse
        ELSE /\ reactor' = [step |-> "restore", turn |-> NoTurn, n |-> n, known |-> checkpoints]
             /\ UNCHANGED <<failures, answers, unanswered>>

(* The ref of the first checkpoint with the count. *)
TargetRef == IF reactor.n = 0 THEN 0
             ELSE LET first == CHOOSE i \in DOMAIN reactor.known :
                                 /\ reactor.known[i].count = reactor.n
                                 /\ \A j \in 1 .. i - 1 : reactor.known[j].count # reactor.n
                  IN reactor.known[first].ref

(* Without a root checkpoint a revert to 0 takes HEAD, which is content 0. *)
Restore ==
  /\ At("restore")
  /\ TargetRef \in DOMAIN refs \/ reactor.n = 0
  /\ files' = IF TargetRef \in DOMAIN refs THEN refs[TargetRef] ELSE 0
  /\ Goto("rollback")
  /\ UNCHANGED <<thread, refs, fresh, provider, client, ingestion, inputs, outcome>>

(* Mutated form: nobody is told. *)
RestoreUnavailable_Silent ==
  /\ At("restore")
  /\ TargetRef \notin DOMAIN refs /\ reactor.n # 0
  /\ reactor' = Idle
  /\ UNCHANGED <<thread, git, provider, client, ingestion, inputs, outcome>>

(* restoreCheckpoint returns false. *)
RestoreUnavailable ==
  /\ At("restore")
  /\ TargetRef \notin DOMAIN refs /\ reactor.n # 0
  /\ reactor' = Idle
  /\ Refuse
  /\ UNCHANGED <<thread, git, provider, client, ingestion, inputs, abandoned, scope>>

(* Mutated form: counted in checkpoints, not in turn counts. *)
RolledBackTurns_All == Len(reactor.known)

RolledBackTurns == CurrentCount(reactor.known) - reactor.n

(* rollbackConversation: the last turns, the running one included. *)
Rollback ==
  /\ At("rollback")
  /\ conversation' = SubSeq(conversation, 1, Len(conversation) - RolledBackTurns)
  /\ Goto("delete")
  /\ UNCHANGED <<thread, git, running, ends, diffs, client, ingestion, inputs, outcome>>

(* Mutated form: the checkpoint that was restored goes too. *)
StaleRefs_Target == {reactor.known[i].ref : i \in {j \in DOMAIN reactor.known :
                                                     reactor.known[j].count >= reactor.n}}

StaleRefs == {reactor.known[i].ref : i \in {j \in DOMAIN reactor.known :
                                              reactor.known[j].count > reactor.n}}

DeleteRefs ==
  /\ At("delete")
  /\ refs' = DropRefs(StaleRefs)
  /\ Goto("complete")
  /\ UNCHANGED <<thread, files, fresh, provider, client, ingestion, inputs, outcome>>

(* thread.revert.complete *)
CompleteRevert ==
  /\ At("complete")
  /\ checkpoints' = Keep(checkpoints, {i \in DOMAIN checkpoints : checkpoints[i].count <= reactor.n})
  /\ answers' = Append(answers, "reverted")
  /\ reactor' = Idle
  /\ UNCHANGED <<activeTurn, git, provider, client, ingestion, inputs, failures, unanswered,
                 abandoned, scope>>

(* A step of a revert that fails half way: the files are partly restored,  *)
(* some refs are gone.  The user is told, as far as that works, and        *)
(* nothing is taken back.                                                  *)
RevertFails ==
  /\ At("restore") \/ At("rollback") \/ At("delete") \/ At("complete")
  /\ MayFail
  /\ IF At("restore") THEN fresh' = fresh + 1 /\ files' = fresh' ELSE UNCHANGED <<fresh, files>>
  /\ IF At("delete") THEN \E gone \in SUBSET StaleRefs : refs' = DropRefs(gone)
     ELSE UNCHANGED refs
  /\ reactor' = Idle
  /\ TellFailure \/ LoseFailure
  /\ abandoned' = IF At("delete") \/ At("complete") THEN abandoned \cup {reactor.n} ELSE abandoned
  /\ UNCHANGED <<thread, provider, client, ingestion, inputs, scope>>

-----------------------------------------------------------------------------
(* A thread without turns in a repository without checkpoints. *)
Init ==
  /\ checkpoints = << >> /\ activeTurn = NoTurn
  /\ refs = << >> /\ files = 0 /\ fresh = 0
  /\ conversation = << >> /\ running = NoTurn /\ ends = << >> /\ diffs = 0
  /\ sending = "none" /\ reverts = 0
  /\ ingestion = << >> /\ inputs = << >> /\ reactor = Idle
  /\ failures = 0 /\ answers = << >> /\ unanswered = 0 /\ abandoned = {}
  /\ scope \in Scopes

Client    == RequestTurn \/ \E n \in Counts : RequestRevert(n)
Provider  == StartTurn \/ EditFiles \/ ReportDiff \/ CompleteTurn
Ingestion == IngestLifecycle \/ IngestDiff
Reactor   ==
  \/ TakeTurnStart \/ CaptureBaseline
  \/ TakeTurnCompleted \/ Capture \/ ReportCheckpoint \/ CaptureFails
  \/ TakeRevert \/ Restore \/ RestoreUnavailable \/ Rollback \/ DeleteRefs \/ CompleteRevert
  \/ RevertFails

Next == Client \/ Provider \/ Ingestion \/ Reactor

Spec == Init /\ [][Next]_vars

(* The reactor's worker is forked for good and catches whatever a handler  *)
(* fails with; git and the provider answer or time out.                    *)
FairSpec == Spec /\ WF_vars(Reactor)
-----------------------------------------------------------------------------
TypeOK ==
  /\ checkpoints \in Seq(Checkpoint)
  /\ activeTurn \in Turns \cup {NoTurn} /\ running \in Turns \cup {NoTurn}
  /\ \A n \in DOMAIN refs : n \in Counts /\ refs[n] \in 0 .. fresh
  /\ files \in 0 .. fresh
  /\ conversation \in Seq(Turns)
  /\ sending \in {"none", "requested", "started"}
  /\ ingestion \in Seq(Event) /\ inputs \in Seq(Input)
  /\ reactor.step \in Step /\ reactor.n \in Counts /\ reactor.known \in Seq(Checkpoint)
  /\ ends \in Seq(0 .. fresh) /\ Len(ends) <= MaxTurns
  /\ answers \in Seq({"failed", "reverted"}) /\ unanswered \in Nat /\ abandoned \subseteq Counts

Quiet == /\ At("idle") /\ inputs = << >> /\ ingestion = << >>
         /\ running = NoTurn /\ sending = "none"

(* The user waited for the reactor, no diff was counted, nothing failed.   *)
Undisturbed == scope.patient /\ diffs = 0 /\ failures = 0

(* Captured(c): the git ref a checkpoint names exists. *)
Captured(c) == c.ref \in DOMAIN refs

(* A checkpoint the reactor captured can be restored: its ref outlives     *)
(* every revert to it or to a later one, whatever turns, diffs and         *)
(* failures come in between.  Only a revert that has not completed may     *)
(* leave checkpoints after its target without theirs.                      *)
StoredRefsExist ==
  \A i \in DOMAIN checkpoints :
    checkpoints[i].ref # NoRef /\ ~Captured(checkpoints[i]) =>
      \E n \in abandoned \cup (IF At("complete") THEN {reactor.n} ELSE {}) :
        checkpoints[i].count > n

(* Once all is quiet, the provider remembers the turns the thread shows,   *)
(* in that order, and the files are those of the last checkpoint, if the   *)
(* user waited for the reactor and nothing failed.                         *)
ThreadAgrees ==
  Quiet /\ Undisturbed =>
  /\ conversation = [i \in DOMAIN checkpoints |-> checkpoints[i].turn]
  /\ 0 \in DOMAIN refs \/ CurrentCount(checkpoints) > 0
       => files = refs[CurrentCount(checkpoints)]

(* A checkpoint holds the files as its turn left them, not as a later turn *)
(* or a revert made them, if the user waited for the reactor.              *)
CheckpointHoldsTurn ==
  Undisturbed => \A i \in DOMAIN checkpoints :
    Captured(checkpoints[i]) => refs[checkpoints[i].ref] = ends[checkpoints[i].turn]

(* Each completed turn that the provider remembers has a checkpoint that   *)
(* can be restored once all is quiet ("each completed turn captures        *)
(* filesystem checkpoint and persists metadata").                          *)
EveryTurnCaptured ==
  Quiet => \A k \in DOMAIN conversation : \E i \in DOMAIN checkpoints :
             checkpoints[i].turn = conversation[k] /\ Captured(checkpoints[i])

(* Every revert that is asked for is answered, by the reverted thread or   *)
(* by a failure the user sees, unless the append of that failure failed.   *)
RevertsAnswered ==
  \A k \in 1 .. MaxReverts : reverts >= k ~> Len(answers) + unanswered >= k
=============================================================================
