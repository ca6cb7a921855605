-------------------------- MODULE ProviderSessions --------------------------
(***************************************************************************)
(* The provider session of one thread: what the thread shows of it, what   *)
(* is stored to recover it, and which codex app-server processes run.      *)
(*                                                                         *)
(* Source: ProviderCommandReactor takes the thread's requests in order and *)
(* calls ProviderService, which starts, recovers and stops sessions        *)
(* through CodexAppServerManager and keeps a binding per thread in         *)
(* ProviderSessionDirectory; ProviderRuntimeIngestion turns what the       *)
(* processes report into the session shown in the read model.  The two     *)
(* workers interleave, each reads the read model before it writes, and the *)
(* manager finds a process only through its map.                           *)
(*                                                                         *)
(* Models, working directories, attachments and the errors' texts are left *)
(* out, and so are the sessions started from optidevRunner, the rollbacks  *)
(* of CheckpointReactor and thread.started reports.  The keys of handled   *)
(* turn starts are left out since events are published once.  A turn that  *)
(* fails completes like any other.  What ProviderService reports while it  *)
(* restores sessions has no reader yet.  A conversation is named by the    *)
(* number of the process that opened it; 0 is none, of conversations,      *)
(* turns and processes alike.                                              *)
(***************************************************************************)
EXTENDS Naturals, Sequences, FiniteSets

CONSTANTS
  None,          \* no session, no binding, no event in hand
  Created,       \* the runtimeModes a thread may be created with
  MayEnd,        \* bound: whether the program may end, once
  MaxRequests,   \* bound: requests of the user in a behaviour
  MaxBacklog,    \* bound: reports unhandled when the user or a process goes on
  MaxFaults      \* bound: exits, failed opens, lost resumes

Modes == {"full-access", "approval-required"}

ASSUME SessionsAssumption ==
  /\ Created \subseteq Modes /\ MayEnd \in BOOLEAN
  /\ {MaxRequests, MaxBacklog, MaxFaults} \subseteq Nat

VARIABLES
  threadMode,  \* runtimeMode of the thread in the read model
  session,     \* session of the thread in the read model, or None
  binding,     \* row of the thread in provider_session_runtime, or None
  intents,     \* queue of ProviderCommandReactor
  reactor,     \* what ProviderCommandReactor is at
  servers,     \* the session contexts, each with its process, oldest first
  current,     \* sessions: the context the manager finds for the thread
  runtime,     \* queue of ProviderRuntimeIngestion
  ingest,      \* the event it handles and the session it has read, or None
  up,          \* the program runs
  turns,       \* turns begun so far
  requests, faults,   \* counters of the bounds
  displaced,   \* history: a session was started over one in the map
  ended        \* history: the program has ended before

user == <<threadMode, intents, requests>>
processes == <<servers, current>>
history == <<displaced, ended>>
vars == <<user, session, binding, reactor, processes, runtime, ingest, up, turns,
          faults, history>>

-----------------------------------------------------------------------------
Requests == {"turn", "mode", "stop", "call"}   \* call: interrupt, or an answer
Session == [status : {"starting", "ready", "running", "stopped", "error"},
            mode : Modes, turn : Nat]
Binding == [status : {"running", "stopped"}, mode : Modes, conversation : Nat]
Server == [live : BOOLEAN, mode : Modes, conversation : Nat,
           turn : Nat, asked : Nat]            \* asked: turn/start written to it
Reactor == [at : {"idle", "start", "restart", "open", "upsert", "bind", "route",
                  "send", "reply", "record", "kill", "stopped"},
            job : Requests, want : Modes,      \* want: runtimeMode it has read
            server : Nat, conversation : Nat, recovering : BOOLEAN,
            excused : BOOLEAN]   \* history: the stored conversation is given up
Event == [type : {"connecting", "ready", "exited", "error",
                  "turn.started", "turn.completed"}, turn : Nat]
Idle == [at |-> "idle", job |-> "mode", want |-> "full-access",
         server |-> 0, conversation |-> 0, recovering |-> FALSE,
         excused |-> FALSE]

ASSUME NoneAssumption ==
  None \notin Binding \cup [event : Event, seen : Session \cup {None}]

Open(s) == IF s = None THEN FALSE ELSE s.status # "stopped"
Fault == faults < MaxFaults /\ faults' = faults + 1
Room == Len(runtime) < MaxBacklog
Report(type, turn) == <<[type |-> type, turn |-> turn]>>
Go(step) == reactor' = [reactor EXCEPT !.at = step]
Dead(s) == [s EXCEPT !.live = FALSE, !.conversation = 0, !.turn = 0, !.asked = 0]
Booted(mode, conversation) == [live |-> TRUE, mode |-> mode,
                               conversation |-> conversation, turn |-> 0, asked |-> 0]

(***************************************************************************)
(* What the user asks for: the engine decides the command and the reactor  *)
(* queues its event.                                                       *)
(***************************************************************************)
Ask(request) ==
  /\ up /\ requests < MaxRequests /\ Room
  /\ requests' = requests + 1
  /\ intents' = Append(intents, request)
  /\ IF request = "mode" THEN threadMode' \in Modes \ {threadMode}
                         ELSE UNCHANGED threadMode
  /\ UNCHANGED <<session, binding, reactor, processes, runtime, ingest, up, turns,
                 faults, history>>

(***************************************************************************)
(* ProviderCommandReactor takes a request and reads the read model.        *)
(***************************************************************************)
Ensure(job) ==   \* ensureSessionForThread: the thread is found, is a session kept?
  IF ~Open(session) THEN "start"
  ELSE IF session.mode # threadMode THEN "restart"
  ELSE IF job = "turn" THEN "route" ELSE "idle"

FirstStep(job) ==
  CASE job = "turn" -> Ensure(job)
    [] job = "mode" -> IF Open(session) THEN Ensure(job) ELSE "idle"
    [] job = "call" -> IF Open(session) THEN "route" ELSE "idle"
    [] job = "stop" -> IF Open(session) THEN "kill" ELSE "stopped"

Take ==
  /\ reactor.at = "idle" /\ intents # <<>>
  /\ LET job  == Head(intents)
         step == FirstStep(job)
         mode == IF job # "stop" THEN threadMode
                 ELSE IF session = None THEN "full-access" ELSE session.mode
     IN reactor' = IF step = "idle" THEN Idle
                   ELSE [Idle EXCEPT !.at = step, !.job = job, !.want = mode]
  /\ intents' = Tail(intents)
  /\ UNCHANGED <<threadMode, requests, session, binding, processes, runtime,
                 ingest, up, turns, faults, history>>

(***************************************************************************)
(* Starting a session: CodexAppServerManager.startSession, called for the  *)
(* reactor or to recover a session.  The new context takes the place of    *)
(* any other in the map.                                                   *)
(***************************************************************************)
Spawn(mode, conversation, recovering, excused) ==
  /\ servers' = Append(servers, Booted(mode, 0))
  /\ current' = Len(servers) + 1
  /\ displaced' = (displaced \/ current # 0)
  /\ runtime' = runtime \o Report("connecting", 0)
  /\ reactor' = [reactor EXCEPT !.at = "open", !.server = Len(servers) + 1,
                                !.conversation = conversation,
                                !.recovering = recovering, !.excused = excused]

(* Mutated form: a restart opens a new conversation.                       *)
ResumedBy_Fresh(step) == 0

(* The session the reactor needs: a restart resumes the conversation of    *)
(* the session it finds active, if any.                                    *)
ResumedBy(step) == IF step = "restart" /\ current # 0
                   THEN servers[current].conversation ELSE 0
Start ==
  /\ reactor.at \in {"start", "restart"}
  /\ Spawn(reactor.want, ResumedBy(reactor.at), FALSE,
           reactor.at = "start" \/ current = 0)
  /\ UNCHANGED <<user, session, binding, ingest, up, turns, faults, ended>>

(* resolveRoutableSession: no session in the map, so the stored binding is *)
(* recovered.                                                              *)
HasCursor == IF binding = None THEN FALSE ELSE binding.conversation # 0
Recover ==
  /\ reactor.at = "route" /\ current = 0 /\ HasCursor
  /\ Spawn(binding.mode, binding.conversation, TRUE, FALSE)
  /\ UNCHANGED <<user, session, binding, ingest, up, turns, faults, ended>>

(* The codex binary is missing or too old: nothing is started.             *)
StartRefused ==
  /\ \/ reactor.at \in {"start", "restart"}
     \/ reactor.at = "route" /\ current = 0 /\ HasCursor
  /\ Fault
  /\ runtime' = runtime \o Report("error", 0)
  /\ reactor' = Idle
  /\ UNCHANGED <<user, session, binding, processes, ingest, up, turns, history>>

(* thread/start or thread/resume answered; a resume that the server cannot *)
(* do falls back to a new conversation.                                    *)
Opened ==
  /\ reactor.at = "open" /\ servers[reactor.server].live
  /\ \E conversation \in {reactor.conversation, reactor.server} \ {0} :
       /\ servers' = [servers EXCEPT ![reactor.server].conversation = conversation]
       /\ LET lost == reactor.conversation \notin {0, conversation}
          IN  /\ reactor' = [reactor EXCEPT !.at = "upsert", !.excused = @ \/ lost,
                                            !.conversation = conversation]
              /\ IF lost THEN Fault ELSE UNCHANGED faults
  /\ runtime' = runtime \o Report("ready", 0)
  /\ UNCHANGED <<user, session, binding, current, ingest, up, turns, displaced,
                 ended>>

(* A request of the start failed, or its time ran out: stopSession for     *)
(* whatever the map holds.                                                 *)
OpenFails ==
  /\ reactor.at = "open"
  /\ IF servers[reactor.server].live THEN Fault ELSE UNCHANGED faults
  /\ runtime' = runtime \o Report("error", 0)
                  \o (IF current # 0 THEN Report("exited", 0) ELSE <<>>)
  /\ servers' = IF current # 0 THEN [servers EXCEPT ![current] = Dead(@)] ELSE servers
  /\ current' = 0
  /\ reactor' = Idle
  /\ UNCHANGED <<user, session, binding, ingest, up, turns, history>>

(* ProviderService stores the binding of the session that was started.     *)
AfterUpsert == IF ~reactor.recovering THEN "bind"
               ELSE IF reactor.job = "turn" THEN "send" ELSE "idle"

(* Mutated form: the mode of a row is set once.                            *)
Upsert_KeepsMode ==
  /\ reactor.at = "upsert"
  /\ binding' = [status |-> "running", conversation |-> reactor.conversation,
                 mode |-> IF binding = None THEN servers[reactor.server].mode
                          ELSE binding.mode]
  /\ IF AfterUpsert = "idle" THEN reactor' = Idle ELSE Go(AfterUpsert)
  /\ UNCHANGED <<user, session, processes, runtime, ingest, up, turns, faults,
                 history>>

Upsert ==
  /\ reactor.at = "upsert"
  /\ binding' = [status |-> "running", mode |-> servers[reactor.server].mode,
                 conversation |-> reactor.conversation]
  /\ IF AfterUpsert = "idle" THEN reactor' = Idle ELSE Go(AfterUpsert)
  /\ UNCHANGED <<user, session, processes, runtime, ingest, up, turns, faults,
                 history>>

(* bindSessionToThread dispatches thread.session.set.                      *)
Bind ==
  /\ reactor.at = "bind"
  /\ session' = [status |-> "ready", mode |-> reactor.want, turn |-> 0]
  /\ IF reactor.job = "turn" THEN Go("route") ELSE reactor' = Idle
  /\ UNCHANGED <<user, binding, processes, runtime, ingest, up, turns, faults, history>>

(***************************************************************************)
(* Calls on a session: a turn is sent, other calls change nothing here.    *)
(***************************************************************************)
Route ==
  /\ reactor.at = "route"
  /\ \/ /\ binding = None \/ (current = 0 /\ ~HasCursor)
        /\ reactor' = Idle
     \/ /\ binding # None /\ current # 0
        /\ IF reactor.job = "turn" THEN Go("send") ELSE reactor' = Idle
  /\ UNCHANGED <<user, session, binding, processes, runtime, ingest, up, turns,
                 faults, history>>

(* sendTurn writes turn/start to the session the map holds.                *)
Send ==
  /\ reactor.at = "send"
  /\ IF current = 0
     THEN reactor' = Idle /\ UNCHANGED servers
     ELSE /\ servers' = [servers EXCEPT ![current].asked = @ + 1]
          /\ reactor' = [reactor EXCEPT !.at = "reply", !.server = current,
                                        !.conversation = servers[current].conversation]
  /\ UNCHANGED <<user, session, binding, current, runtime, ingest, up, turns, faults,
                 history>>

(* Mutated form: the timer goes with the process.                          *)
Timeout_Alive ==
  /\ reactor.at = "reply" /\ servers[reactor.server].live
  /\ reactor' = Idle
  /\ UNCHANGED <<user, session, binding, processes, runtime, ingest, up, turns,
                 faults, history>>

(* Twenty seconds without an answer, for all that the exit of a process    *)
(* does not reject what is asked of it.                                    *)
Timeout ==
  /\ reactor.at = "reply"
  /\ reactor' = Idle
  /\ UNCHANGED <<user, session, binding, processes, runtime, ingest, up, turns,
                 faults, history>>

(* The turn was accepted: its conversation is stored.                      *)
Record ==
  /\ reactor.at = "record"
  /\ binding' = [status |-> "running", conversation |-> reactor.conversation,
                 mode |-> IF binding = None THEN "full-access" ELSE binding.mode]
  /\ reactor' = Idle
  /\ UNCHANGED <<user, session, processes, runtime, ingest, up, turns, faults, history>>

(***************************************************************************)
(* Stopping: ProviderService.stopSession, then the reactor sets the        *)
(* session.  Without a binding the first fails and nothing is set.         *)
(***************************************************************************)
(* Mutated form: the entry is removed, the process is not killed.          *)
StopSession_Forgets ==
  /\ reactor.at = "kill"
  /\ IF binding = None THEN reactor' = Idle /\ UNCHANGED <<processes, runtime>>
     ELSE /\ Go("stopped")
          /\ current' = 0
          /\ UNCHANGED <<servers, runtime>>
  /\ binding' = None
  /\ UNCHANGED <<user, session, ingest, up, turns, faults, history>>

StopSession ==
  /\ reactor.at = "kill"
  /\ IF binding = None THEN reactor' = Idle /\ UNCHANGED <<processes, runtime>>
     ELSE /\ Go("stopped")
          /\ IF current = 0 THEN UNCHANGED <<processes, runtime>>
             ELSE /\ servers' = [servers EXCEPT ![current] = Dead(@)]
                  /\ current' = 0
                  /\ runtime' = runtime \o Report("exited", 0)
  /\ binding' = None
  /\ UNCHANGED <<user, session, ingest, up, turns, faults, history>>

SetStopped ==
  /\ reactor.at = "stopped"
  /\ session' = [status |-> "stopped", mode |-> reactor.want, turn |-> 0]
  /\ reactor' = Idle
  /\ UNCHANGED <<user, binding, processes, runtime, ingest, up, turns, faults, history>>

(***************************************************************************)
(* The processes, whether in the map or not.                               *)
(***************************************************************************)
Begin(n) ==
  /\ servers[n].live /\ Room /\ servers[n].asked > 0 /\ servers[n].turn = 0
  /\ turns' = turns + 1
  /\ servers' = [servers EXCEPT ![n].asked = @ - 1, ![n].turn = turns + 1]
  /\ runtime' = runtime \o Report("turn.started", turns + 1)
  /\ IF reactor.at = "reply" /\ reactor.server = n /\ servers[n].asked = 1
     THEN Go("record") ELSE UNCHANGED reactor   \* the answer is to the last asked
  /\ UNCHANGED <<user, session, binding, current, ingest, up, faults, history>>

Finish(n) ==
  /\ servers[n].live /\ Room /\ servers[n].turn # 0
  /\ runtime' = runtime \o Report("turn.completed", servers[n].turn)
  /\ servers' = [servers EXCEPT ![n].turn = 0]
  /\ UNCHANGED <<user, session, binding, reactor, current, ingest, up, turns, faults,
                 history>>

(* A process exits unasked: its handler removes the thread's entry from    *)
(* the map, whichever context that is.                                     *)
Exit(n) ==
  /\ servers[n].live /\ Room /\ Fault
  /\ servers' = [servers EXCEPT ![n] = Dead(@)]
  /\ current' = 0
  /\ runtime' = runtime \o Report("exited", 0)
  /\ UNCHANGED <<user, session, binding, reactor, ingest, up, turns, history>>

(***************************************************************************)
(* ProviderRuntimeIngestion: processRuntimeEvent reads the thread, decides *)
(* and dispatches thread.session.set; the reactor may write in between.    *)
(***************************************************************************)
SeenTurn(seen) == IF seen = None THEN 0 ELSE seen.turn
SeenMode(seen) == IF seen = None THEN "full-access" ELSE seen.mode

Applies(event, seen) ==   \* shouldApplyThreadLifecycle
  event.type \in {"turn.started", "turn.completed"}
    => SeenTurn(seen) \in {0, event.turn}

StatusAfter(type) ==
  CASE type = "connecting" -> "starting"
    [] type = "turn.started" -> "running"
    [] type = "exited" -> "stopped"
    [] type \in {"ready", "turn.completed"} -> "ready"
    [] type = "error" -> "error"

(* Mutated form: session.exited keeps the active turn.                     *)
TurnAfter_Exit(event, seen) ==
  IF event.type \in {"connecting", "ready", "exited"} THEN SeenTurn(seen)
  ELSE IF event.type = "turn.started" THEN event.turn ELSE 0

TurnAfter(event, seen) ==
  IF event.type \in {"connecting", "ready"} THEN SeenTurn(seen)
  ELSE IF event.type = "turn.started" THEN event.turn ELSE 0

IngestRead ==
  /\ ingest = None /\ runtime # <<>>
  /\ ingest' = [event |-> Head(runtime), seen |-> session]
  /\ runtime' = Tail(runtime)
  /\ UNCHANGED <<user, session, binding, reactor, processes, up, turns, faults, history>>

IngestWrite ==
  /\ ingest # None
  /\ session' = IF ~Applies(ingest.event, ingest.seen) THEN session
                ELSE [status |-> StatusAfter(ingest.event.type),
                      mode   |-> SeenMode(ingest.seen),
                      turn   |-> TurnAfter(ingest.event, ingest.seen)]
  /\ ingest' = None
  /\ UNCHANGED <<user, binding, reactor, processes, runtime, up, turns, faults, history>>

(***************************************************************************)
(* The program ends, killed or shut down (runStopAll marks the bindings    *)
(* stopped), and starts again: ProviderService restores the sessions whose *)
(* binding is not stopped before anyone listens to its events.             *)
(***************************************************************************)
End(graceful) ==
  /\ up /\ MayEnd /\ ~ended
  /\ up' = FALSE /\ ended' = TRUE
  /\ binding' = IF graceful /\ binding # None
                THEN [binding EXCEPT !.status = "stopped"] ELSE binding
  /\ servers' = [n \in DOMAIN servers |-> Dead(servers[n])]
  /\ current' = 0
  /\ intents' = <<>> /\ runtime' = <<>>
  /\ reactor' = Idle /\ ingest' = None
  /\ UNCHANGED <<threadMode, requests, session, turns, faults, displaced>>

Restorable == HasCursor /\ binding.status = "running"

Boot ==
  /\ ~up /\ up' = TRUE
  /\ \/ ~Restorable /\ UNCHANGED <<processes, binding, faults>>
     \/ Restorable /\ Fault /\ UNCHANGED <<processes, binding>>
     \/ /\ Restorable
        /\ \E conversation \in {binding.conversation, Len(servers) + 1} :
             /\ servers' = Append(servers, Booted(binding.mode, conversation))
             /\ binding' = [binding EXCEPT !.conversation = conversation]
             /\ IF conversation = binding.conversation
                THEN UNCHANGED faults ELSE Fault
        /\ current' = Len(servers) + 1
  /\ UNCHANGED <<user, session, reactor, runtime, ingest, turns, history>>

-----------------------------------------------------------------------------
Init ==
  /\ threadMode \in Created
  /\ session = None /\ binding = None
  /\ intents = <<>> /\ reactor = Idle
  /\ servers = <<>> /\ current = 0
  /\ runtime = <<>> /\ ingest = None
  /\ up = TRUE
  /\ turns = 0 /\ requests = 0 /\ faults = 0
  /\ displaced = FALSE /\ ended = FALSE

ReactorStep == \/ Take \/ Start \/ Recover \/ StartRefused \/ Opened \/ OpenFails
               \/ Upsert \/ Bind \/ Route \/ Send \/ Timeout \/ Record
               \/ StopSession \/ SetStopped
Next ==
  \/ \E request \in Requests : Ask(request)
  \/ ReactorStep
  \/ \E n \in DOMAIN servers : Begin(n) \/ Finish(n) \/ Exit(n)
  \/ IngestRead \/ IngestWrite
  \/ \E graceful \in BOOLEAN : End(graceful)
  \/ Boot
Spec == Init /\ [][Next]_vars

(* The reactor's worker and the program's start go on by themselves: every *)
(* wait of theirs ends, at the latest by its timeout.                      *)
FairSpec == Spec /\ WF_vars(ReactorStep) /\ WF_vars(Boot)

-----------------------------------------------------------------------------
Quiet == /\ up
         /\ intents = <<>> /\ reactor = Idle
         /\ runtime = <<>> /\ ingest = None
Live == {n \in DOMAIN servers : servers[n].live}

(* Every variable has the values its declaration promises, and the map     *)
(* holds only contexts whose process runs.                                 *)
TypeOK ==
  /\ threadMode \in Modes
  /\ session \in Session \cup {None} /\ binding \in Binding \cup {None}
  /\ intents \in Seq(Requests) /\ reactor \in Reactor
  /\ servers \in Seq(Server) /\ current \in Live \cup {0}
  /\ runtime \in Seq(Event)
  /\ ingest \in [event : Event, seen : Session \cup {None}] \cup {None}
  /\ turns \in Nat /\ requests \in 0 .. MaxRequests /\ faults \in 0 .. MaxFaults
  /\ {up, displaced, ended} \subseteq BOOLEAN

(* What is stored is what runs: whenever no session is being opened, the   *)
(* binding names the mode and the conversation of the session in the map,  *)
(* so that a program killed at any moment resumes the right conversation   *)
(* in the right mode (upsertSessionBinding, recoverSessionForThread).      *)
RecoversWhatRan ==
  up /\ current # 0 /\ reactor.at \notin {"open", "upsert"}
    => /\ binding # None
       /\ binding.status = "running"
       /\ binding.mode = servers[current].mode
       /\ binding.conversation = servers[current].conversation

(* Once everything reported is handled and no process has a turn, the      *)
(* thread shows none: late, early and displaced reports never leave it     *)
(* running (shouldApplyThreadLifecycle).  A program that ended in a turn   *)
(* is the exception: nothing clears the turn it had shown.                 *)
NoGhostTurn ==
  Quiet /\ ~ended /\ (\A n \in Live : servers[n].turn = 0 /\ servers[n].asked = 0)
    => IF session = None THEN TRUE ELSE session.turn = 0 /\ session.status # "running"

(* A process that runs is the one the manager finds, after every exit,     *)
(* failed open, stop and end of the program; only a session started over   *)
(* another, as for a new mode, leaves one that nobody can stop any more.   *)
OnlyRestartsStrand ==
  ~displaced => Live \subseteq {current}

(* The stored conversation, in which the thread's turns go on, changes     *)
(* only when the user had stopped the session, the server no longer had    *)
(* the conversation, or the session was found stopped or, by a restart,    *)
(* without a process: not because of exits, restarts for a new mode and    *)
(* ends of the program as such.                                            *)
ConversationKept ==
  [][binding # None /\ up /\ binding' # None
       => binding'.conversation = binding.conversation \/ reactor.excused]_vars

(* The reactor never stays with a request: what is queued is taken, for    *)
(* all processes that exit or do not answer (the timeout of sendRequest).  *)
IntentsTaken == (up /\ intents # <<>>) ~> (~up \/ intents = <<>>)

(* A turn of a supervised thread, of which no change of the mode is still  *)
(* to be handled, is not given to a full-access server.                    *)
SupervisedStaysSupervised ==
  /\ reactor.at = "reply" /\ reactor.want = "approval-required"
  /\ "mode" \notin {intents[i] : i \in DOMAIN intents}
  => servers[reactor.server].mode = "approval-required"
=============================================================================
