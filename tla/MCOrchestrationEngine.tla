------------------------ MODULE MCOrchestrationEngine ------------------------
(***************************************************************************)
(* Instances of OrchestrationEngine for TLC: one project, one thread, and  *)
(* commands whose legality depends on their order (the second of two       *)
(* thread.create commands is rejected, a turn started before the thread    *)
(* exists is rejected, a turn records the mode that is set before it).     *)
(***************************************************************************)
EXTENDS OrchestrationEngine, TLC

CONSTANTS
  createProject, createThread, createThreadAgain, setMode, startTurn,  \* command ids
  project, thread, approvalRequired, fullAccess,
  messages, plans  \* two projectors: an old one and one added by the release

MCCommand(type, mode) == [type |-> type, project |-> project, thread |-> thread, mode |-> mode]
MCAllCommands ==
     createProject     :> MCCommand("project.create", approvalRequired)
  @@ createThread      :> MCCommand("thread.create", approvalRequired)
  @@ createThreadAgain :> MCCommand("thread.create", fullAccess)
  @@ setMode           :> MCCommand("thread.runtime-mode.set", fullAccess)
  @@ startTurn         :> MCCommand("thread.turn.start", approvalRequired)

MCCommands == [c \in CommandIds |-> MCAllCommands[c]]

MCEvent(type, entity, cmd, mode) == [type |-> type, entity |-> entity, cmd |-> cmd, mode |-> mode]

(* Databases an earlier release wrote two and three events to. *)
MCLegacyLog ==
  << MCEvent("project.created", project, createProject, NoMode),
     MCEvent("thread.created", thread, createThread, approvalRequired) >>
MCLongLegacyLog ==
  MCLegacyLog \o << MCEvent("thread.runtime-mode-set", thread, setMode, fullAccess) >>

(* Every command of a legacy log above has one event. *)
MCReceiptsOf(evs) ==
  [c \in CommandIds |-> IF EventsOf(evs, c) = {} THEN NoReceipt
                        ELSE Accepted(CHOOSE i \in EventsOf(evs, c) : TRUE)]
MCLegacyReceipts == MCReceiptsOf(LegacyLog)

MCProjectorOrder == <<messages, plans>>
=============================================================================
