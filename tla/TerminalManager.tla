--------------------------- MODULE TerminalManager ---------------------------
(***************************************************************************)
(* The terminals of all threads: which session stands for a terminal,      *)
(* which process runs in it, how processes are stopped, and which inactive *)
(* sessions are forgotten.                                                 *)
(*                                                                         *)
(* Source: TerminalManagerRuntime in terminal/Layers/Manager.ts.  Open,    *)
(* restart, clear and close of one thread exclude each other by a lock;    *)
(* they wait for files and for the spawn, while other threads, process     *)
(* exits, timers and dispose go on.  A session object may outlive its      *)
(* entry in the table, so sessions are numbered as they are created, and   *)
(* so are processes.  Transcripts, sizes, shells and environments are left *)
(* out; a changed cwd or environment is the flag of an open.               *)
(***************************************************************************)
EXTENDS Naturals, Sequences, FiniteSets

CONSTANTS
  Terminals, Threads, ThreadOf,   \* terminals, and the thread of each
  MaxSessions, MaxProcesses,      \* bounds: sessions and processes in a behaviour
  Limits                          \* maxRetainedInactiveSessions may be any of these

ASSUME TerminalAssumption ==
  /\ IsFiniteSet(Terminals) /\ ThreadOf \in [Terminals -> Threads]
  /\ {MaxSessions, MaxProcesses} \cup Limits \subseteq Nat

VARIABLES
  retained,   \* maxRetainedInactiveSessions
  table,      \* sessions: number of the session of each terminal, or None
  sessions,   \* the session objects, in order of creation
  older,      \* pairs of terminals of the table, the first of which has the older updatedAt
  processes,  \* the pty processes, in order of their start
  polling,    \* subprocessPollTimer is set
  checking,   \* processes whose subprocesses are being looked for
  ops,        \* what holds the lock of each thread, and what it waits for
  disposed

None == 0
data == <<table, sessions, older, processes, polling>>
vars == <<retained, data, checking, ops, disposed>>

-----------------------------------------------------------------------------
Session == [terminal : Terminals,
            status   : {"starting", "running", "exited", "error"},
            process  : 0 .. MaxProcesses,
            busy     : BOOLEAN]              \* hasRunningSubprocess
Process == [terminal : Terminals,
            alive    : BOOLEAN,
            stopped  : BOOLEAN,              \* SIGTERM was sent
            timer    : BOOLEAN,              \* a SIGKILL is scheduled
            listener : 0 .. MaxSessions,     \* the session told of its exit
            measured : BOOLEAN]              \* subprocesses were found in it
Free == [step |-> "free", session |-> None]

(* The state one synchronous stretch of code works on. *)
State == [table |-> table, sessions |-> sessions, older |-> older,
          processes |-> processes, polling |-> polling]
Become(s) == /\ UNCHANGED retained
             /\ table' = s.table /\ sessions' = s.sessions /\ older' = s.older
             /\ processes' = s.processes /\ polling' = s.polling

Listed(s) == {s.table[t] : t \in Terminals} \ {None}

(* updatedAt of session n is now; of the sessions outside the table it     *)
(* does not matter.                                                        *)
Touch(s, n) ==
  LET t == s.sessions[n].terminal
  IN IF s.table[t] = n
     THEN [s EXCEPT !.older = {e \in @ : t \notin {e[1], e[2]}}
                                \cup {k \in Terminals \ {t} : s.table[k] # None} \X {t}]
     ELSE s

(* updateSubprocessPollingState *)
UpdatePolling(s) ==
  [s EXCEPT !.polling = \E n \in Listed(s) : s.sessions[n].status = "running"]

(* The sessions of these terminals are removed from the table. *)
Unlist(s, gone) ==
  [s EXCEPT !.table = [t \in Terminals |-> IF t \in gone THEN None ELSE @[t]],
            !.older = {e \in @ : {e[1], e[2]} \cap gone = {}}]

(* The terminals whose sessions are inactive, and those of them that were  *)
(* updated after t.                                                        *)
Inactive(s) == {t \in Terminals : s.table[t] # None /\ s.sessions[s.table[t]].status # "running"}
Later(s, t) == {k \in Inactive(s) : <<t, k>> \in s.older}

(* Mutated form: one inactive session too many is kept. *)
Evict_OneMore(s) ==
  Unlist(s, {t \in Inactive(s) : Cardinality(Later(s, t)) > retained})

(* evictInactiveSessionsIfNeeded: the oldest sessions that do not run,     *)
(* those with at least as many later ones as may stay.                     *)
Evict(s) ==
  Unlist(s, {t \in Inactive(s) : Cardinality(Later(s, t)) >= retained})

(* A session without process. *)
Idle(s, n, status) ==
  Touch([s EXCEPT !.sessions[n] = [@ EXCEPT !.status = status, !.process = None, !.busy = FALSE]], n)

(* killProcessWithEscalation *)
Kill(s, p) == [s EXCEPT !.processes[p].stopped = TRUE, !.processes[p].timer = TRUE]

(* Mutated form: the session still listens to the process it stopped. *)
Stop_Listening(s, n) ==
  LET p == s.sessions[n].process
  IN IF p = None THEN s ELSE UpdatePolling(Evict(Kill(Idle(s, n, "exited"), p)))

(* Mutated form: the session forgets its process without stopping it. *)
Stop_NoKill(s, n) ==
  LET p == s.sessions[n].process
  IN IF p = None THEN s
     ELSE UpdatePolling(Evict([Idle(s, n, "exited") EXCEPT !.processes[p].listener = None]))

(* stopProcess *)
Stop(s, n) ==
  LET p == s.sessions[n].process
  IN IF p = None THEN s
     ELSE UpdatePolling(Evict(Kill([Idle(s, n, "exited") EXCEPT !.processes[p].listener = None], p)))

(* A new session for a terminal that has none. *)
Create(s, t) ==
  LET n == Len(s.sessions) + 1
  IN Evict(Touch([s EXCEPT !.table[t] = n,
                           !.sessions = Append(@, [terminal |-> t, status |-> "starting",
                                                   process |-> None, busy |-> FALSE])], n))

(* The part of startSession before it waits for the spawn. *)
StartSession(s, n) == Idle(Stop(s, n), n, "starting")

(* These sessions are stopped and leave the table, in the order in which   *)
(* they were created.                                                      *)
CloseAll(s, closing) ==
  LET after[n \in 0 .. Len(s.sessions)] ==
        IF n = 0 THEN s
        ELSE IF n \in closing
             THEN Unlist(Stop(after[n - 1], n), {s.sessions[n].terminal})
        ELSE after[n - 1]
  IN after[Len(s.sessions)]

-----------------------------------------------------------------------------
Lock(t) == ThreadOf[t]
CanLock(th) == ops[th].step = "free" /\ ~disposed
Await(th, step, n) == ops' = [ops EXCEPT ![th] = [step |-> step, session |-> n]]

Release(th) == ops' = [ops EXCEPT ![th] = Free]

(* open of a terminal without session; the transcript has been read. *)
OpenNew(t) ==
  /\ CanLock(Lock(t)) /\ table[t] = None /\ Len(sessions) < MaxSessions
  /\ LET s == Create(State, t)
     IN /\ Become(StartSession(s, Len(s.sessions)))
        /\ Await(Lock(t), "spawn", Len(s.sessions))
  /\ UNCHANGED <<checking, disposed>>

(* open of a terminal whose cwd or environment is another, or whose        *)
(* process is gone: the transcript is emptied first.  Any other open       *)
(* attaches to the running process.                                        *)
OpenExisting(t, changed) ==
  /\ CanLock(Lock(t)) /\ table[t] # None
  /\ changed \/ sessions[table[t]].status \in {"exited", "error"}
  /\ Become(IF changed THEN Stop(State, table[t]) ELSE State)
  /\ Await(Lock(t), "clear", table[t])
  /\ UNCHANGED <<checking, disposed>>

Restart(t) ==
  /\ CanLock(Lock(t))
  /\ \/ /\ table[t] = None /\ Len(sessions) < MaxSessions
        /\ Become(Create(State, t))
        /\ Await(Lock(t), "clear", Len(sessions) + 1)
     \/ /\ table[t] # None
        /\ Become(Stop(State, table[t]))
        /\ Await(Lock(t), "clear", table[t])
  /\ UNCHANGED <<checking, disposed>>

(* The emptied transcript is written, the session starts. *)
TranscriptCleared(th) ==
  /\ ops[th].step = "clear"
  /\ Become(StartSession(State, ops[th].session))
  /\ Await(th, "spawn", ops[th].session)
  /\ UNCHANGED <<checking, disposed>>

Spawned(th) ==
  LET n == ops[th].session
      p == Len(processes) + 1
  IN /\ ops[th].step = "spawn" /\ p <= MaxProcesses
     /\ Become(UpdatePolling(Touch(
          [State EXCEPT
             !.sessions[n] = [@ EXCEPT !.status = "running", !.process = p],
             !.processes = Append(@, [terminal |-> sessions[n].terminal, alive |-> TRUE,
                                      stopped |-> FALSE, timer |-> FALSE, listener |-> n,
                                      measured |-> FALSE])], n)))
     /\ Release(th)
     /\ UNCHANGED <<checking, disposed>>

(* No shell could be started. *)
SpawnFailed(th) ==
  /\ ops[th].step = "spawn"
  /\ Become(UpdatePolling(Evict(Idle(State, ops[th].session, "error"))))
  /\ Release(th)
  /\ UNCHANGED <<checking, disposed>>

(* clear *)
Clear(t) ==
  /\ CanLock(Lock(t)) /\ table[t] # None
  /\ Become(Touch(State, table[t]))
  /\ UNCHANGED <<checking, ops, disposed>>

(* close of one terminal *)
Close(t) ==
  /\ CanLock(Lock(t)) /\ table[t] # None
  /\ Become(UpdatePolling(Unlist(Stop(State, table[t]), {t})))
  /\ UNCHANGED <<checking, ops, disposed>>

(* close of all terminals of a thread, one after the other *)
CloseThread(th) ==
  LET own == {t \in Terminals : Lock(t) = th /\ table[t] # None}
  IN /\ CanLock(th) /\ own # {}
     /\ Become(UpdatePolling(CloseAll(State, {table[t] : t \in own})))
     /\ UNCHANGED <<checking, ops, disposed>>

(* dispose: the table is emptied and every session of it stopped; what an  *)
(* operation still waits for goes on.                                      *)
Dispose ==
  LET cleared == [Unlist(State, Terminals) EXCEPT !.polling = FALSE]
      stopped == CloseAll(cleared, Listed(State))
  IN /\ ~disposed /\ disposed' = TRUE
     /\ Become([stopped EXCEPT !.processes = [p \in DOMAIN @ |-> [@[p] EXCEPT !.timer = FALSE]]])
     /\ UNCHANGED <<checking, ops>>

-----------------------------------------------------------------------------
(* A process exits, by itself or after SIGTERM; onProcessExit if a session *)
(* still listens.                                                          *)
Exit(p) ==
  LET n    == processes[p].listener
      gone == [State EXCEPT !.processes[p] = [@ EXCEPT !.alive = FALSE, !.listener = None]]
  IN /\ processes[p].alive
     /\ Become(IF n = None THEN gone ELSE UpdatePolling(Evict(Idle(gone, n, "exited"))))
     /\ UNCHANGED <<checking, ops, disposed>>

(* Mutated form: SIGTERM again. *)
KillTimer_Sigterm(p) ==
  /\ processes[p].timer
  /\ processes' = [processes EXCEPT ![p].timer = FALSE]
  /\ UNCHANGED <<retained, table, sessions, older, polling, checking, ops, disposed>>

(* SIGKILL, which nothing survives. *)
KillTimer(p) ==
  /\ processes[p].timer
  /\ processes' = [processes EXCEPT ![p].timer = FALSE, ![p].alive = FALSE]
  /\ UNCHANGED <<retained, table, sessions, older, polling, checking, ops, disposed>>

(* pollSubprocessActivity: the running processes are looked at, ... *)
Poll ==
  /\ polling /\ checking = {}
  /\ checking' = {sessions[n].process : n \in {k \in Listed(State) : sessions[k].status = "running"}}
  /\ UNCHANGED <<retained, data, ops, disposed>>

(* Mutated form: whatever process the session has now. *)
PollResult_AnyProcess(p, found) ==
  LET n == table[processes[p].terminal]
  IN /\ p \in checking /\ checking' = checking \ {p}
     /\ processes' = [processes EXCEPT ![p].measured = @ \/ found]
     /\ sessions' = IF n # None /\ sessions[n].status = "running"
                    THEN [sessions EXCEPT ![n].busy = found] ELSE sessions
     /\ UNCHANGED <<retained, table, older, polling, ops, disposed>>

(* ... and the session learns the result if it still has that process. *)
PollResult(p, found) ==
  LET n == table[processes[p].terminal]
  IN /\ p \in checking /\ checking' = checking \ {p}
     /\ processes' = [processes EXCEPT ![p].measured = @ \/ found]
     /\ sessions' = IF n # None /\ sessions[n].status = "running" /\ sessions[n].process = p
                    THEN [sessions EXCEPT ![n].busy = found] ELSE sessions
     /\ UNCHANGED <<retained, table, older, polling, ops, disposed>>

-----------------------------------------------------------------------------
Init ==
  /\ retained \in Limits
  /\ table = [t \in Terminals |-> None]
  /\ sessions = << >> /\ older = {} /\ processes = << >>
  /\ polling = FALSE /\ checking = {}
  /\ ops = [th \in Threads |-> Free]
  /\ disposed = FALSE

Next ==
  \/ \E t \in Terminals : OpenNew(t) \/ Restart(t) \/ Clear(t) \/ Close(t)
  \/ \E t \in Terminals, changed \in BOOLEAN : OpenExisting(t, changed)
  \/ \E th \in Threads : TranscriptCleared(th) \/ Spawned(th) \/ SpawnFailed(th) \/ CloseThread(th)
  \/ Dispose
  \/ \E p \in 1 .. MaxProcesses : p \in DOMAIN processes /\ (Exit(p) \/ KillTimer(p))
  \/ Poll
  \/ \E p \in 1 .. MaxProcesses, found \in BOOLEAN : p \in DOMAIN processes /\ PollResult(p, found)

Spec == Init /\ [][Next]_vars

(* Timers fire. *)
FairSpec == Spec /\ \A p \in 1 .. MaxProcesses : WF_vars(p \in DOMAIN processes /\ KillTimer(p))
-----------------------------------------------------------------------------
TypeOK ==
  /\ retained \in Limits
  /\ table \in [Terminals -> 0 .. MaxSessions]
  /\ sessions \in Seq(Session) /\ Len(sessions) <= MaxSessions
  /\ older \subseteq Terminals \X Terminals
  /\ processes \in Seq(Process) /\ Len(processes) <= MaxProcesses
  /\ polling \in BOOLEAN /\ disposed \in BOOLEAN
  /\ checking \subseteq DOMAIN processes
  /\ ops \in [Threads -> {Free} \cup [step : {"clear", "spawn"}, session : DOMAIN sessions]]

Live(p) == processes[p].alive /\ ~processes[p].stopped

(* A session is shown as running exactly while a process that was started  *)
(* for it lives and has not been stopped; the exit of an earlier process   *)
(* does not show the present one as exited.                                *)
StatusIsTrue ==
  \A n \in DOMAIN sessions :
    sessions[n].status = "running" <=> \E p \in DOMAIN processes :
                                          Live(p) /\ processes[p].listener = n

(* While no session has to be forgotten, every process nobody has stopped  *)
(* is the one its terminal's session has: the user can see and close it.   *)
ProcessesReachable ==
  retained >= Cardinality(Terminals) /\ ~disposed => \A p \in DOMAIN processes : Live(p) =>
                 LET n == table[processes[p].terminal] IN n # None /\ sessions[n].process = p

(* No more inactive sessions are kept than the limit, whichever handler    *)
(* made the last one inactive.                                             *)
InactiveBounded == Cardinality(Inactive(State)) <= retained

(* A terminal is shown as busy only if a subprocess was found in its       *)
(* present process, not in one that was replaced during the check.         *)
BusyIsMeasured ==
  \A n \in DOMAIN sessions :
    sessions[n].busy => /\ sessions[n].process # None
                        /\ processes[sessions[n].process].measured

(* A process that was told to stop is gone in the end, also one that       *)
(* ignores SIGTERM, as long as the manager is not disposed of.             *)
StoppedProcessesDie ==
  \A p \in 1 .. MaxProcesses :
    p \in DOMAIN processes /\ processes[p].stopped
      ~> disposed \/ (p \in DOMAIN processes /\ ~processes[p].alive)
=============================================================================
