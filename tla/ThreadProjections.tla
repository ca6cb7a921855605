-------------------------- MODULE ThreadProjections --------------------------
(***************************************************************************)
(* What the events of one thread do to its projections: the SQL tables     *)
(* behind the client's snapshot and the thread in the in-memory read model *)
(* that the reactors decide by.                                            *)
(*                                                                         *)
(* Source: the projectors of orchestration/Layers/ProjectionPipeline.ts,   *)
(* the statements of persistence/Layers/ProjectionTurns.ts and projectEvent *)
(* in orchestration/projector.ts.  Every statement selects by thread id,   *)
(* so one thread stands for all.  One action is one command with all its   *)
(* events, which the engine commits in one transaction; the decider        *)
(* accepts each of them at any time once the thread exists.  Texts,        *)
(* timestamps and files are left out; the tables list messages by creation *)
(* time, which is the order in which they were first sent.                 *)
(***************************************************************************)
EXTENDS Naturals, Sequences, FiniteSets, Lists

CONSTANTS
  Turns, UserMessages, AssistantMessages,
  Plans, Activities, Requests,
  NoTurn, NoMessage, NoRequest,
  MaxCount,             \* bound: checkpoint turn counts
  MaxEvents,            \* bound: commands in a behaviour
  MaxThreadMessages,    \* MAX_THREAD_MESSAGES, of the in-memory thread
  MaxThreadCheckpoints  \* MAX_THREAD_CHECKPOINTS

Messages == UserMessages \cup AssistantMessages
NoCount == 0    \* SQL NULL: turn counts start with 1
Count == 1 .. MaxCount

ASSUME ProjectionAssumption ==
  /\ NoTurn \notin Turns
  /\ NoMessage \notin Messages
  /\ NoRequest \notin Requests
  /\ IsFiniteSet(Turns)
  /\ {MaxCount, MaxEvents, MaxThreadMessages, MaxThreadCheckpoints} \subseteq Nat

VARIABLES
  \* SQL tables
  messages,      \* projection_thread_messages: rows in order of creation
  turns,         \* projection_turns with a turn id, by turn id
  pendingStart,  \* the message of the row without one, the pending turn start
  plans,         \* projection_thread_proposed_plans: turn of each plan
  activities,    \* projection_thread_activities: turn of each activity
  approvals,     \* projection_pending_approvals: status and turn of each request
  \* the thread in the in-memory read model
  memMessages, memCheckpoints, memPlans, memActivities,
  \* history
  requested,     \* the user messages that were sent to start a turn
  events         \* number of commands so far

tables == <<messages, turns, pendingStart, plans, activities, approvals>>
memory == <<memMessages, memCheckpoints, memPlans, memActivities>>
vars   == <<tables, memory, requested, events>>

-----------------------------------------------------------------------------
MessageRow == [id : Messages, turn : Turns \cup {NoTurn}, streaming : BOOLEAN]
TurnState == {"running", "interrupted", "completed", "error"}
TurnRow == [state     : TurnState,
            starter   : UserMessages \cup {NoMessage},       \* pending_message_id
            assistant : AssistantMessages \cup {NoMessage},  \* assistant_message_id
            ended     : BOOLEAN,                             \* completed_at is set
            count     : Count \cup {NoCount}]                \* checkpoint_turn_count
ApprovalRow == [status : {"pending", "resolved"}, turn : Turns \cup {NoTurn}]
Checkpoint == [turn : Turns, count : Count]

(* Rows by key: a function on the keys that have one. *)
Upsert(rows, key, row) == [k \in DOMAIN rows \cup {key} |-> IF k = key THEN row ELSE rows[k]]
KeepRows(rows, keys) == [k \in DOMAIN rows \cap keys |-> rows[k]]
Tables(keys, Row) == UNION {[S -> Row] : S \in SUBSET keys}

Positions(rows, id) == {i \in DOMAIN rows : rows[i].id = id}
UpsertInOrder(rows, row) ==
  IF Positions(rows, row.id) = {} THEN Append(rows, row)
  ELSE [i \in DOMAIN rows |-> IF rows[i].id = row.id THEN row ELSE rows[i]]
LastOf(rows, n) == IF Len(rows) <= n THEN rows ELSE SubSeq(rows, Len(rows) - n + 1, Len(rows))

-----------------------------------------------------------------------------
(* retainProjectionMessagesAfterRevert and retainThreadMessagesAfterRevert *)
(* keep the messages of kept turns and those kept turns point to; and then, *)
(* role by role, the oldest messages that belong to no removed turn, until *)
(* there is one for each of the n turns that are left.  They keep system   *)
(* messages too, which nothing in the server or the client sends.          *)
RetainMessages(rows, kept, pointed, n) ==
  LET retained(r) == r.id \in pointed \/ r.turn \in kept
      missing(Role) == n - Cardinality({i \in DOMAIN rows : rows[i].id \in Role /\ retained(rows[i])})
      spare(Role) == {i \in DOMAIN rows : /\ rows[i].id \in Role
                                          /\ ~retained(rows[i])
                                          /\ rows[i].turn \in kept \cup {NoTurn}}
      fallback(Role) == {i \in spare(Role) :
                           Cardinality({j \in spare(Role) : j < i}) < missing(Role)}
      keep == {rows[i].id : i \in {j \in DOMAIN rows : retained(rows[j])}
                                     \cup fallback(UserMessages) \cup fallback(AssistantMessages)}
  IN Keep(rows, {i \in DOMAIN rows : rows[i].id \in keep})

(* Plans and activities: those of kept turns and of no turn. *)
RetainByTurn(rows, kept) == KeepRows(rows, {k \in DOMAIN rows : rows[k] \in kept \cup {NoTurn}})

(* Mutated form: the turn a revert goes back to is removed too. *)
KeptTurns_Before(rows, n) == {t \in DOMAIN rows : rows[t].count # NoCount /\ rows[t].count < n}

(* The turns a revert to n keeps. *)
KeptTurns(rows, n) == {t \in DOMAIN rows : rows[t].count # NoCount /\ rows[t].count <= n}

-----------------------------------------------------------------------------
(* thread.message-sent *)

(* The turn row of an assistant message with a turn. *)
TurnAfterMessage(m, t, streaming) ==
  IF t \in DOMAIN turns
  THEN [turns[t] EXCEPT
          !.assistant = m,
          !.state = IF streaming \/ @ \in {"interrupted", "error"} THEN @ ELSE "completed",
          !.ended = @ \/ ~streaming]
  ELSE [state |-> IF streaming THEN "running" ELSE "completed", starter |-> NoMessage,
        assistant |-> m, ended |-> ~streaming, count |-> NoCount]

MessageOf(m, t, streaming) == [id |-> m, turn |-> t, streaming |-> streaming]

(* In memory: the last messages only. *)
RememberMessage(m, t, streaming) ==
  memMessages' = LastOf(UpsertInOrder(memMessages, MessageOf(m, t, streaming)), MaxThreadMessages)

SendMessage(m, t, streaming) ==
  /\ messages' = UpsertInOrder(messages, MessageOf(m, t, streaming))
  /\ RememberMessage(m, t, streaming)
  /\ turns' = IF m \in AssistantMessages /\ t # NoTurn
              THEN Upsert(turns, t, TurnAfterMessage(m, t, streaming)) ELSE turns

Tick == events < MaxEvents /\ events' = events + 1

-----------------------------------------------------------------------------
(* thread.turn.start, with a message id the client has just made: the      *)
(* message, and the pending turn start that replaces an earlier one.       *)
TurnStart(m) ==
  /\ m \in UserMessages \ requested
  /\ Positions(messages, m) = {}
  /\ SendMessage(m, NoTurn, FALSE)
  /\ pendingStart' = m
  /\ requested' = requested \cup {m}
  /\ Tick
  /\ UNCHANGED <<plans, activities, approvals, memCheckpoints, memPlans, memActivities>>

(* thread.message.import of a user's message another system holds and the *)
(* tables lack.  That of an assistant's is an AssistantMessage.            *)
ImportMessage(m, t) ==
  /\ m \in UserMessages \ requested
  /\ Positions(messages, m) = {}
  /\ SendMessage(m, t, FALSE)
  /\ Tick
  /\ UNCHANGED <<pendingStart, plans, activities, approvals, memCheckpoints, memPlans,
                 memActivities, requested>>

(* thread.message.assistant.delta and .complete *)
AssistantMessage(m, t, streaming) ==
  /\ SendMessage(m, t, streaming)
  /\ Tick
  /\ UNCHANGED <<pendingStart, plans, activities, approvals, memCheckpoints, memPlans,
                 memActivities, requested>>

(* Mutated form: a turn that was completed runs again. *)
TurnAfterSession_Restarts(t) ==
  IF t \in DOMAIN turns
  THEN [turns[t] EXCEPT
          !.state = IF @ = "error" THEN @ ELSE "running",
          !.starter = IF @ = NoMessage THEN pendingStart ELSE @]
  ELSE [state |-> "running", starter |-> pendingStart, assistant |-> NoMessage,
        ended |-> FALSE, count |-> NoCount]

(* The turn row when a session reports that t runs. *)
TurnAfterSession(t) ==
  IF t \in DOMAIN turns
  THEN [turns[t] EXCEPT
          !.state = IF @ \in {"completed", "error"} THEN @ ELSE "running",
          !.starter = IF @ = NoMessage THEN pendingStart ELSE @]
  ELSE [state |-> "running", starter |-> pendingStart, assistant |-> NoMessage,
        ended |-> FALSE, count |-> NoCount]

(* Mutated form: the pending turn start is not used up. *)
SessionRunning_KeepsPending(t) ==
  /\ turns' = Upsert(turns, t, TurnAfterSession(t))
  /\ Tick
  /\ UNCHANGED <<messages, pendingStart, plans, activities, approvals, memory, requested>>

(* thread.session.set with status running and an active turn.  Any other   *)
(* leaves these projections as they are.                                   *)
SessionRunning(t) ==
  /\ turns' = Upsert(turns, t, TurnAfterSession(t))
  /\ pendingStart' = NoMessage
  /\ Tick
  /\ UNCHANGED <<messages, plans, activities, approvals, memory, requested>>

(* thread.turn.interrupt that names a turn. *)
InterruptRequested(t) ==
  /\ turns' = Upsert(turns, t,
       IF t \in DOMAIN turns THEN [turns[t] EXCEPT !.state = "interrupted", !.ended = TRUE]
       ELSE [state |-> "interrupted", starter |-> NoMessage, assistant |-> NoMessage,
             ended |-> TRUE, count |-> NoCount])
  /\ Tick
  /\ UNCHANGED <<messages, pendingStart, plans, activities, approvals, memory, requested>>

-----------------------------------------------------------------------------
(* Mutated form: the conflict is looked for before the count is known. *)
ClearConflict_OldCount(t, n) ==
  [u \in DOMAIN turns |-> IF u # t /\ t \in DOMAIN turns /\ turns[u].count = turns[t].count
                          THEN [turns[u] EXCEPT !.count = NoCount] ELSE turns[u]]

(* clearCheckpointTurnConflict *)
ClearConflict(t, n) ==
  [u \in DOMAIN turns |-> IF u # t /\ turns[u].count = n
                          THEN [turns[u] EXCEPT !.count = NoCount] ELSE turns[u]]

(* Mutated form: the in-memory model keeps the turn's earlier checkpoint only. *)
InsertCheckpoint_First(list, t, n) ==
  IF \E i \in DOMAIN list : list[i].turn = t THEN list
  ELSE LastOf(SelectSeq(list, LAMBDA c : c.count <= n) \o <<[turn |-> t, count |-> n]>>
                \o SelectSeq(list, LAMBDA c : c.count > n), MaxThreadCheckpoints)

(* The in-memory checkpoints: one for each turn, in order of their counts. *)
InsertCheckpoint(list, t, n) ==
  LET upTo  == {i \in DOMAIN list : list[i].turn # t /\ list[i].count <= n}
      after == {i \in DOMAIN list : list[i].turn # t /\ list[i].count > n}
  IN LastOf(Keep(list, upTo) \o <<[turn |-> t, count |-> n]>> \o Keep(list, after),
            MaxThreadCheckpoints)

(* thread.turn.diff.complete *)
DiffCompleted(t, n, failed, m) ==
  /\ turns' = Upsert(ClearConflict(t, n), t,
       [state |-> IF failed THEN "error" ELSE "completed",
        starter |-> IF t \in DOMAIN turns THEN turns[t].starter ELSE NoMessage,
        assistant |-> m, ended |-> TRUE, count |-> n])
  /\ memCheckpoints' = InsertCheckpoint(memCheckpoints, t, n)
  /\ Tick
  /\ UNCHANGED <<messages, pendingStart, plans, activities, approvals, memMessages, memPlans,
                 memActivities, requested>>

(* thread.proposed-plan.upsert *)
PlanUpserted(p, t) ==
  /\ plans' = Upsert(plans, p, t)
  /\ memPlans' = Upsert(memPlans, p, t)
  /\ Tick
  /\ UNCHANGED <<messages, turns, pendingStart, activities, approvals, memMessages,
                 memCheckpoints, memActivities, requested>>

-----------------------------------------------------------------------------
(* A settled request keeps the turn of its row. *)
Resolved(r, t) ==
  [status |-> "resolved", turn |-> IF r \in DOMAIN approvals THEN approvals[r].turn ELSE t]

IsResolved(r) == r \in DOMAIN approvals /\ approvals[r].status = "resolved"

(* Mutated form: a late activity opens a settled request again. *)
ApprovalAfterActivity_Reopens(r, t, resolves) ==
  IF resolves THEN Resolved(r, t) ELSE [status |-> "pending", turn |-> t]

(* The row of the request an activity of turn t names.  Any kind of        *)
(* activity with a request id opens one, only approval.resolved settles it. *)
ApprovalAfterActivity(r, t, resolves) ==
  IF resolves THEN Resolved(r, t)
  ELSE IF IsResolved(r) THEN approvals[r]
  ELSE [status |-> "pending", turn |-> t]

(* thread.activity.append *)
ActivityAppended(a, t, r, resolves) ==
  /\ activities' = Upsert(activities, a, t)
  /\ memActivities' = Upsert(memActivities, a, t)
  /\ approvals' = IF r = NoRequest THEN approvals
                  ELSE Upsert(approvals, r, ApprovalAfterActivity(r, t, resolves))
  /\ Tick
  /\ UNCHANGED <<messages, turns, pendingStart, plans, memMessages, memCheckpoints, memPlans,
                 requested>>

(* thread.approval.respond, which names no turn *)
ApprovalResponded(r) ==
  /\ approvals' = Upsert(approvals, r, Resolved(r, NoTurn))
  /\ Tick
  /\ UNCHANGED <<messages, turns, pendingStart, plans, activities, memory, requested>>

-----------------------------------------------------------------------------
(* thread.reverted.  The projectors of messages, plans and activities run  *)
(* before that of the turns; that of the approvals does nothing, so that   *)
(* their rows go on naming turns that are gone.                            *)
RevertTables(n) ==
  LET kept == KeptTurns(turns, n)
      pointed == {turns[t].starter : t \in kept} \cup {turns[t].assistant : t \in kept}
  IN /\ pendingStart' = NoMessage
     /\ turns' = KeepRows(turns, kept)
     /\ plans' = RetainByTurn(plans, kept)
     /\ activities' = RetainByTurn(activities, kept)
     /\ messages' = RetainMessages(messages, kept, pointed, n)
     /\ UNCHANGED approvals

RevertMemory(n) ==
  LET upTo == {i \in DOMAIN memCheckpoints : memCheckpoints[i].count <= n}
      kept == {memCheckpoints[i].turn : i \in upTo}
  IN /\ memCheckpoints' = Keep(memCheckpoints, upTo)
     /\ memPlans' = RetainByTurn(memPlans, kept)
     /\ memActivities' = RetainByTurn(memActivities, kept)
     /\ memMessages' = RetainMessages(memMessages, kept, {}, n)

(* thread.revert.complete *)
Reverted(n) ==
  /\ RevertTables(n)
  /\ RevertMemory(n)
  /\ Tick
  /\ UNCHANGED requested

-----------------------------------------------------------------------------
(* thread.created: a thread without rows. *)
Init ==
  /\ messages = << >>
  /\ turns = << >>
  /\ pendingStart = NoMessage
  /\ plans = << >>
  /\ activities = << >>
  /\ approvals = << >>
  /\ memMessages = << >>
  /\ memCheckpoints = << >>
  /\ memPlans = << >>
  /\ memActivities = << >>
  /\ requested = {}
  /\ events = 0

Next ==
  \/ \E m \in UserMessages : TurnStart(m)
  \/ \E m \in UserMessages, t \in Turns \cup {NoTurn} : ImportMessage(m, t)
  \/ \E m \in AssistantMessages, t \in Turns \cup {NoTurn}, streaming \in BOOLEAN :
       AssistantMessage(m, t, streaming)
  \/ \E t \in Turns : SessionRunning(t) \/ InterruptRequested(t)
  \/ \E t \in Turns, n \in Count, failed \in BOOLEAN, m \in AssistantMessages :
       DiffCompleted(t, n, failed, m)
  \/ \E p \in Plans, t \in Turns \cup {NoTurn} : PlanUpserted(p, t)
  \/ \E a \in Activities, t \in Turns \cup {NoTurn}, r \in Requests \cup {NoRequest},
       resolves \in BOOLEAN : ActivityAppended(a, t, r, resolves)
  \/ \E r \in Requests : ApprovalResponded(r)
  \/ \E n \in Count \cup {0} : Reverted(n)

Spec == Init /\ [][Next]_vars
-----------------------------------------------------------------------------
(* The shape of the tables. *)
TypeOK ==
  /\ messages \in Seq(MessageRow) /\ memMessages \in Seq(MessageRow)
  /\ turns \in Tables(Turns, TurnRow)
  /\ pendingStart \in UserMessages \cup {NoMessage}
  /\ plans \in Tables(Plans, Turns \cup {NoTurn})
  /\ activities \in Tables(Activities, Turns \cup {NoTurn})
  /\ approvals \in Tables(Requests, ApprovalRow)
  /\ memCheckpoints \in Seq(Checkpoint)
  /\ requested \subseteq UserMessages
  /\ events \in 0 .. MaxEvents

(* A turn count names one turn: a revert to it, or a diff between two      *)
(* counts, cannot pick the files of another turn.  Counts collide because  *)
(* the ingestion and the checkpoint reactor each compute the next one.     *)
TurnCountsUnique ==
  \A t, u \in DOMAIN turns :
    turns[t].count # NoCount /\ turns[t].count = turns[u].count => t = u

(* A message starts at most one turn, and none while it still waits: a     *)
(* turn the provider opens by itself does not take over the message of an  *)
(* earlier one.                                                            *)
StartedOnce ==
  \A t \in DOMAIN turns : turns[t].starter # NoMessage =>
    /\ turns[t].starter # pendingStart
    /\ \A u \in DOMAIN turns : turns[u].starter = turns[t].starter => u = t

(* A turn shown as completed or failed stays so whatever late session,     *)
(* message or diff event names it, until a request to interrupt names it   *)
(* or a revert removes it; and of an interrupted turn only a session shows *)
(* again that it is running.  An interrupt that comes after the end of its *)
(* turn and a late session do together show the turn as running again.     *)
SettledStaysSettled ==
  [][\A t \in DOMAIN turns \cap DOMAIN turns' :
       /\ turns[t].state \in {"completed", "error"} =>
            turns'[t].state \in {"completed", "error"} \/ InterruptRequested(t)
       /\ turns[t].state = "interrupted" /\ turns'[t].state = "running" =>
            SessionRunning(t)]_vars

(* A request that was answered is never shown as pending again, also when  *)
(* activities about it arrive after the answer.                            *)
AnsweredStaysAnswered ==
  [][\A r \in DOMAIN approvals : r \in DOMAIN approvals' /\ (IsResolved(r) => IsResolved(r)')]_vars

(* Nothing is left of a removed turn in the tables of turns, messages,     *)
(* plans and activities, except messages a kept turn points to; in the     *)
(* in-memory model nothing at all.                                         *)
LeftOver(rows, removed) == {k \in DOMAIN rows : rows[k] \in removed}
NothingLeft ==
  LET gone    == Turns \ DOMAIN turns'
      memGone == Turns \ {memCheckpoints'[i].turn : i \in DOMAIN memCheckpoints'}
  IN /\ LeftOver(plans', gone) = {} /\ LeftOver(activities', gone) = {}
     /\ LeftOver(memPlans', memGone) = {} /\ LeftOver(memActivities', memGone) = {}
     /\ \A i \in DOMAIN messages' : messages'[i].turn \in gone =>
          \E t \in DOMAIN turns' : messages'[i].id \in {turns'[t].starter, turns'[t].assistant}
     /\ \A i \in DOMAIN memMessages' : memMessages'[i].turn \notin memGone

(* Nothing is lost of the turns up to n: neither their rows, nor the       *)
(* message that started one, nor what was said in it.                      *)
NothingLost(n) ==
  \A t \in DOMAIN turns : turns[t].count \in 1 .. n =>
    /\ t \in DOMAIN turns' /\ turns'[t] = turns[t]
    /\ \A i \in DOMAIN messages : messages[i].turn = t \/ messages[i].id = turns[t].starter
                                    => \E j \in DOMAIN messages' : messages'[j] = messages[i]
    /\ \A p \in DOMAIN plans : plans[p] = t => p \in DOMAIN plans'
    /\ \A a \in DOMAIN activities : activities[a] = t => a \in DOMAIN activities'

(* A revert, which four tables and the in-memory model apply one by one,   *)
(* removes the later turns from all of them and keeps the earlier ones     *)
(* whole.  The table of the approvals is not among them: it keeps the rows *)
(* of the removed turns.                                                   *)
RevertIsExact == [][\A n \in Count \cup {0} : Reverted(n) => NothingLeft /\ NothingLost(n)]_vars

(* Every checkpoint the client is shown is one the reactors find in the    *)
(* in-memory model, in the order of the counts, as long as a thread has    *)
(* no more turns than the model keeps checkpoints.                         *)
CheckpointsAgree ==
  Cardinality(Turns) <= MaxThreadCheckpoints =>
  /\ \A t \in DOMAIN turns : turns[t].count # NoCount =>
       \E i \in DOMAIN memCheckpoints : memCheckpoints[i] = [turn |-> t, count |-> turns[t].count]
  /\ \A i, j \in DOMAIN memCheckpoints :
       i < j => /\ memCheckpoints[i].count <= memCheckpoints[j].count
                /\ memCheckpoints[i].turn # memCheckpoints[j].turn
=============================================================================
