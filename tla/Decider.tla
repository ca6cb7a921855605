------------------------------- MODULE Decider -------------------------------
(***************************************************************************)
(* The decision procedure of the orchestration engine: which commands are  *)
(* legal in a read model, and which events a legal command produces.       *)
(*                                                                         *)
(* Source: orchestration/decider.ts, orchestration/commandInvariants.ts    *)
(* and the parts of orchestration/projector.ts that build what the decider *)
(* reads back: the existing projects and threads and each thread's runtime *)
(* mode.  Payload data no guard reads (titles, texts, timestamps, event    *)
(* ids) is left out.  The interaction mode follows the same path as the    *)
(* runtime mode through every function modelled here and is left out too.  *)
(***************************************************************************)
EXTENDS Naturals, Sequences

CONSTANTS
  Projects,      \* project ids
  Threads,       \* thread ids
  RuntimeModes,  \* the values of RuntimeMode ("approval-required", ...)
  NoMode         \* the mode field of an event whose payload carries none

ASSUME ModeAssumption == NoMode \notin RuntimeModes
ASSUME EntityAssumption == Projects \cap Threads = {}

-----------------------------------------------------------------------------
(* Event types, by the kind of command that produces them. *)

ProjectEventType == [type \in {"project.create", "project.meta.update", "project.delete"} |->
  CASE type = "project.create"      -> "project.created"
    [] type = "project.meta.update" -> "project.meta-updated"
    [] type = "project.delete"      -> "project.deleted"]

SettingsEventType ==
  [type \in {"thread.create", "thread.delete", "thread.meta.update",
             "thread.runtime-mode.set", "thread.interaction-mode.set"} |->
  CASE type = "thread.create"               -> "thread.created"
    [] type = "thread.delete"               -> "thread.deleted"
    [] type = "thread.meta.update"          -> "thread.meta-updated"
    [] type = "thread.runtime-mode.set"     -> "thread.runtime-mode-set"
    [] type = "thread.interaction-mode.set" -> "thread.interaction-mode-set"]

(* What a user asks of a running thread, besides starting a turn. *)
RequestEventType ==
  [type \in {"thread.turn.interrupt", "thread.approval.respond", "thread.user-input.respond",
             "thread.checkpoint.revert", "thread.session.stop"} |->
  CASE type = "thread.turn.interrupt"     -> "thread.turn-interrupt-requested"
    [] type = "thread.approval.respond"   -> "thread.approval-response-requested"
    [] type = "thread.user-input.respond" -> "thread.user-input-response-requested"
    [] type = "thread.checkpoint.revert"  -> "thread.checkpoint-revert-requested"
    [] type = "thread.session.stop"       -> "thread.session-stop-requested"]

(* What the server's own reactors report about a thread. *)
ReportEventType ==
  [type \in {"thread.session.set", "thread.message.import", "thread.message.assistant.delta",
             "thread.message.assistant.complete", "thread.proposed-plan.upsert",
             "thread.turn.diff.complete", "thread.revert.complete", "thread.activity.append"} |->
  CASE type = "thread.session.set"                -> "thread.session-set"
    [] type = "thread.message.import"             -> "thread.message-sent"
    [] type = "thread.message.assistant.delta"    -> "thread.message-sent"
    [] type = "thread.message.assistant.complete" -> "thread.message-sent"
    [] type = "thread.proposed-plan.upsert"       -> "thread.proposed-plan-upserted"
    [] type = "thread.turn.diff.complete"         -> "thread.turn-diff-completed"
    [] type = "thread.revert.complete"            -> "thread.reverted"
    [] type = "thread.activity.append"            -> "thread.activity-appended"]

ProjectCommand == DOMAIN ProjectEventType
SimpleThreadCommand ==
  DOMAIN SettingsEventType \cup DOMAIN RequestEventType \cup DOMAIN ReportEventType
ThreadCommand == SimpleThreadCommand \cup {"thread.turn.start"}

(* The event type of a command that produces one event. *)
EventTypeOf(type) ==
  CASE type \in DOMAIN ProjectEventType  -> ProjectEventType[type]
    [] type \in DOMAIN SettingsEventType -> SettingsEventType[type]
    [] type \in DOMAIN RequestEventType  -> RequestEventType[type]
    [] type \in DOMAIN ReportEventType   -> ReportEventType[type]

EventType ==
  {EventTypeOf(type) : type \in ProjectCommand \cup SimpleThreadCommand}
    \cup {"thread.message-sent", "thread.turn-start-requested"}

-----------------------------------------------------------------------------
(* A command names a project (project commands and thread.create) and a   *)
(* thread (thread commands); mode is the payload of thread.create and of  *)
(* thread.runtime-mode.set.  An event carries the id of the command that  *)
(* caused it.                                                             *)

Command == [type    : ProjectCommand \cup ThreadCommand,
            project : Projects,
            thread  : Threads,
            mode    : RuntimeModes]

Event(Ids) == [type   : EventType,
               entity : Projects \cup Threads,
               cmd    : Ids,
               mode   : RuntimeModes \cup {NoMode}]

(* The part of OrchestrationReadModel the decider reads, and its cursor.  *)
(* Deleting an entity only stamps deletedAt: it stays in the model, so it *)
(* still exists for every guard below.                                    *)
ReadModel == [seq      : Nat,
              projects : SUBSET Projects,
              threads  : SUBSET Threads,
              mode     : [Threads -> RuntimeModes \cup {NoMode}]]

EmptyReadModel == [seq      |-> 0,
                   projects |-> {},
                   threads  |-> {},
                   mode     |-> [t \in Threads |-> NoMode]]

-----------------------------------------------------------------------------
(* projectEvent: one event applied to the read model. *)

SetsMode(event, thread) ==
  /\ event.entity = thread
  /\ event.type \in {"thread.created", "thread.runtime-mode-set"}

ProjectEvent(model, event, sequence) ==
  [seq      |-> sequence,
   projects |-> model.projects \cup {p \in Projects : /\ event.type = "project.created"
                                                      /\ event.entity = p},
   threads  |-> model.threads \cup {t \in Threads : /\ event.type = "thread.created"
                                                    /\ event.entity = t},
   mode     |-> [t \in Threads |->
                   IF SetsMode(event, t) /\ (event.type = "thread.created" \/ t \in model.threads)
                   THEN event.mode ELSE model.mode[t]]]

-----------------------------------------------------------------------------
(* commandInvariants.ts *)

RequireProject(model, p)       == p \in model.projects
RequireProjectAbsent(model, p) == p \notin model.projects
RequireThread(model, t)        == t \in model.threads
RequireThreadAbsent(model, t)  == t \notin model.threads

(* decideOrchestrationCommand: the guards of every command type. *)
Legal(command, model) ==
  /\ command.type = "project.create" => RequireProjectAbsent(model, command.project)
  /\ command.type \in {"project.meta.update", "project.delete", "thread.create"}
       => RequireProject(model, command.project)
  /\ command.type = "thread.create" => RequireThreadAbsent(model, command.thread)
  /\ command.type \in ThreadCommand \ {"thread.create"} => RequireThread(model, command.thread)

(* thread.turn.start: the user's message, then the request to start the   *)
(* turn, which captures the thread's runtime mode as of the decision.     *)
TurnStartEvents(command, id, model) ==
  << [type |-> "thread.message-sent", entity |-> command.thread, cmd |-> id, mode |-> NoMode],
     [type |-> "thread.turn-start-requested", entity |-> command.thread, cmd |-> id,
      mode |-> model.mode[command.thread]] >>

(* Every other command: one event. *)
SingleEvent(command, id) ==
  << [type   |-> EventTypeOf(command.type),
      entity |-> IF command.type \in ProjectCommand THEN command.project ELSE command.thread,
      cmd    |-> id,
      mode   |-> IF command.type \in {"thread.create", "thread.runtime-mode.set"}
                 THEN command.mode ELSE NoMode] >>

(* decideOrchestrationCommand: the events of a legal command. *)
Decide(command, id, model) ==
  IF command.type = "thread.turn.start"
  THEN TurnStartEvents(command, id, model)
  ELSE SingleEvent(command, id)
=============================================================================
