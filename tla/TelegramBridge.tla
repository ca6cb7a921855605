---------------------------- MODULE TelegramBridge ----------------------------
(***************************************************************************)
(* The bridge between one Telegram chat and the thread it is attached to:  *)
(* updates of the chat become turns, messages of the thread become         *)
(* messages of the chat.                                                   *)
(*                                                                         *)
(* Source: optidevTelegramBridge.ts, started by wsServer.ts and configured *)
(* by optidevPlugins.ts.  Every server of an OptiDev home runs a bridge.   *)
(* They share the lock, the state and the configuration, which are files,  *)
(* and the database whose command receipts make a dispatch take effect     *)
(* once per command id (module CommandService).  Each has an engine with a *)
(* read model of its own, which learns what the others commit only when it *)
(* starts or when a command has failed (module OrchestrationEngine).       *)
(*                                                                         *)
(* A tick polls and handles a batch of updates one by one; each domain     *)
(* event is relayed by a flow of its own.  Both share the runtime's copy   *)
(* of the state, and both write the file: a step is what happens between   *)
(* two awaits.  Telegram itself is external: it keeps the updates that no  *)
(* getUpdates has confirmed by its offset.                                 *)
(***************************************************************************)
EXTENDS Integers, Sequences, FiniteSets

CONSTANTS
  Servers,
  Updates,                   \* the updates of the chat, in order: a sequence of kinds
  MaxMessages,               \* bound: messages of the thread from a server's clients and provider
  MaxRemembered,             \* how many relayed messages a server remembers: 2048 in the code
  Scopes                     \* bounds that go together, one of which a behaviour keeps to

(* A text for the thread; anything else is consumed without a turn: other  *)
(* chats, no text, or a /status that is answered.                          *)
Kinds == {"text", "other"}

(* The servers of a behaviour, whether its target thread exists from the   *)
(* start, how many updates arrive, how many events of other messages there *)
(* are, how many servers die, calls fail and reloads are asked for, how    *)
(* often the target goes away or comes back, how often the bridge is       *)
(* configured, and how many commands of other threads the engines handle.  *)
ASSUME BridgeAssumption ==
  /\ Servers \cap {"telegram", "none"} = {} /\ Updates \in Seq(Kinds)
  /\ MaxMessages \in Nat /\ MaxRemembered \in Nat \ {0}
  /\ Scopes \subseteq [servers : SUBSET Servers, born : BOOLEAN, updates : 0 .. Len(Updates),
                       messages : Nat, crashes : Nat, failures : Nat, reloads : Nat,
                       switches : Nat, configs : Nat, commands : Nat]

Ids == 1 .. Len(Updates)
Offsets == 0 .. Len(Updates)

(* The messages of the thread: those that came from an update, and those   *)
(* of a server's own clients and provider.                                 *)
FromTelegram(u) == [origin |-> "telegram", n |-> u]
MessagesOf(s)   == {[origin |-> s, n |-> k] : k \in 1 .. MaxMessages}
Messages == {FromTelegram(u) : u \in Ids} \cup UNION {MessagesOf(s) : s \in Servers}

VARIABLES
  \* Telegram
  arrived, confirmed,   \* how many updates have arrived, and how many it has dropped
  dates,                \* when each was written: after how many configurations of the bridge
  chat,                 \* how often each server sent each message to the chat
  \* the database
  delivered,            \* the server on which the command of an update took effect
  rejected,             \* the updates whose command has a receipt that says rejected
  available,            \* there is a thread the bridge resolves to
  \* the files
  lock, file, config,
  \* the runtimes
  run,                  \* how often each server has been started again
  mem,                  \* persistedState
  reload, owns, tick,
  origins, relayed,     \* telegramOriginMessageIds, outboundRelayMessageIds
  flows,                \* the domain events being relayed
  engine,               \* what each engine's read model knows of the log
  \* history
  dropped,              \* updates consumed while no thread was available
  skipped,              \* updates consumed as a backlog
  forgotten,            \* messages a server has relayed and remembers no more
  counted,              \* what the bounds count
  scope

telegram == <<arrived, confirmed, dates, chat>>
database == <<delivered, rejected, available>>
files    == <<lock, file, config>>
relays   == <<origins, relayed, flows>>
runtimes == <<run, mem, reload, owns, tick, relays, engine>>
history  == <<dropped, skipped, forgotten>>
bounds   == <<counted, scope>>
vars == <<telegram, database, files, runtimes, history, bounds>>

-----------------------------------------------------------------------------
State == [offset : Offsets, replied : BOOLEAN]   \* lastUpdateId, unavailableReplySent
Fresh == [offset |-> 0, replied |-> FALSE]

(* TelegramConfig: enabled, and its updated_at as the number of the        *)
(* configuration.  While a server writes the file nobody can parse it.     *)
Config == [enabled : BOOLEAN, epoch : Nat \ {0}, writer : Servers \cup {"none"}]

LockFile == [server : Servers \cup {"none"}, run : Nat, recent : BOOLEAN]
NoLock == [server |-> "none", run |-> 0, recent |-> FALSE]
Me(s) == [server |-> s, run |-> run[s]]
Holds(s, l) == l.server = s /\ l.run = run[s]
IsDead(l) == l.server \in Servers /\ l.run # run[l.server]

(* since: the updated_at of the configuration the tick has read, for as    *)
(* long as older updates are to be skipped.                                *)
Step == {"idle", "lock", "config", "poll", "received", "text", "dispatch", "advance"}
TickState == [step : Step, lock : LockFile, since : Nat, batch : Seq(Ids), write : Seq(State)]
Idle == [step |-> "idle", lock |-> NoLock, since |-> 0, batch |-> << >>, write |-> << >>]

FlowStep == {"start", "assign", "write", "send"}
Flow == [message : Messages, step : FlowStep, state : State]   \* state: read, or to be written
NewFlow(m) == [message |-> m, step |-> "start", state |-> Fresh]

(* A read model: whether it has the target thread, the messages committed  *)
(* by other servers after the last event it has, and whether the creation  *)
(* of the thread is among those events.                                    *)
View == [knows : BOOLEAN, ahead : SUBSET Messages, created : BOOLEAN]
UpToDate(knows) == [knows |-> knows, ahead |-> {}, created |-> FALSE]

At(s, step) == tick[s].step = step /\ tick[s].write = << >>
Goto(s, step) == tick' = [tick EXCEPT ![s].step = step]
Abort(s) == tick' = [tick EXCEPT ![s] = Idle]
CountedKind == {"messages", "crashes", "failures", "reloads", "switches", "configs", "commands"}
Count(kind) == /\ counted[kind] < scope[kind]
               /\ counted' = [counted EXCEPT ![kind] = @ + 1]
               /\ UNCHANGED scope
Fails == Count("failures")

(* updateResolvedTargetState *)
Resolved(state) == [state EXCEPT !.replied = ~available /\ @]

-----------------------------------------------------------------------------
(* The engines *)

(* A command of server s commits an event of message m, which its engine   *)
(* publishes: its read model goes on from the log's last event, so that    *)
(* what it had missed stays missed, and the others fall behind.            *)
Commits(s, m) ==
  /\ engine' = [x \in Servers |-> IF x = s THEN UpToDate(engine[s].knows)
                                  ELSE [engine[x] EXCEPT !.ahead = @ \cup {m}]]
  /\ flows' = [flows EXCEPT ![s] = @ \cup {NewFlow(m)}]

(* reconcileReadModelAfterDispatchFailure: what the log holds beyond the   *)
(* read model is applied to it and published, whoever committed it.        *)
Reconciles(s) ==
  /\ engine' = [engine EXCEPT ![s] = UpToDate(@.knows \/ @.created)]
  /\ flows' = [flows EXCEPT ![s] = @ \cup {NewFlow(m) : m \in engine[s].ahead}]

(* Another command of server s, of another thread, commits or fails.       *)
OtherCommand(s) ==
  /\ Count("commands")
  /\ \/ engine' = [engine EXCEPT ![s] = UpToDate(@.knows)] /\ UNCHANGED flows
     \/ Reconciles(s)
  /\ UNCHANGED <<telegram, database, files, run, mem, reload, owns, tick, origins, relayed, history>>

-----------------------------------------------------------------------------
(* tick *)

(* Its first await reads the lock. *)
StartTick(s) ==
  /\ At(s, "idle")
  /\ tick' = [tick EXCEPT ![s].step = "lock", ![s].lock = lock]
  /\ UNCHANGED <<telegram, database, files, run, mem, reload, owns, relays, engine, history, bounds>>

(* Mutated form: the file of a dead owner is respected. *)
MayTake_Recent(s, l) == l = NoLock \/ Holds(s, l)

(* Nobody's, the bridge's own, not refreshed for 15 seconds, or a dead     *)
(* process's.                                                              *)
MayTake(s, l) == l = NoLock \/ Holds(s, l) \/ ~l.recent \/ IsDead(l)

EnsureBridgeLock(s) ==
  /\ At(s, "lock")
  /\ IF MayTake(s, tick[s].lock)
     THEN /\ lock' = [server |-> s, run |-> run[s], recent |-> TRUE]
          /\ owns' = [owns EXCEPT ![s] = TRUE]
          /\ tick' = [tick EXCEPT ![s] = [Idle EXCEPT !.step = "config"]]
     ELSE /\ owns' = [owns EXCEPT ![s] = FALSE]
          /\ Abort(s)
          /\ UNCHANGED lock
  /\ UNCHANGED <<telegram, database, file, config, run, mem, reload, relays, engine, history, bounds>>

(* The runtime's state changes at once, the file when the write is done.   *)
Persist(s, state, next) ==
  /\ mem' = [mem EXCEPT ![s] = state]
  /\ tick' = [tick EXCEPT ![s].write = <<state>>, ![s].step = next]

TickWritten(s) ==
  /\ tick[s].write # << >>
  /\ file' = Head(tick[s].write)
  /\ tick' = [tick EXCEPT ![s].write = << >>]
  /\ UNCHANGED <<telegram, database, lock, config, run, mem, reload, owns, relays, engine, history,
                 bounds>>

(* fs.writeFile empties the file before it fills it: who reads it then, or *)
(* after a death, starts from the initial state.                           *)
Writing(s) == tick[s].write # << >> \/ \E f \in flows[s] : f.step = "write"
Readable == {file} \cup {Fresh : s \in {x \in Servers : Writing(x)}}

(* resolveCurrentConfig, which reads the state again after a reload or a   *)
(* configuration that was not enabled, and resolveCurrentTarget.           *)
ResolveConfig(s) ==
  /\ At(s, "config")
  /\ IF config.enabled
     THEN /\ \E state \in IF reload[s] THEN Readable ELSE {mem[s]} :
               /\ mem' = [mem EXCEPT ![s] = Resolved(state)]
               /\ tick' = [tick EXCEPT ![s].step = "poll", ![s].write = <<Resolved(state)>>,
                                       ![s].since = config.epoch]
          /\ reload' = [reload EXCEPT ![s] = FALSE]
     ELSE /\ reload' = [reload EXCEPT ![s] = TRUE]
          /\ Abort(s)
          /\ UNCHANGED mem
  /\ UNCHANGED <<telegram, database, files, run, owns, relays, engine, history, bounds>>

(* getUpdates confirms what lies below its offset and returns the rest. *)
GetUpdates(s) ==
  LET known == IF mem[s].offset > confirmed THEN mem[s].offset ELSE confirmed
  IN /\ At(s, "poll")
     /\ confirmed' = known
     /\ tick' = [tick EXCEPT ![s].step = "received",
                             ![s].batch = [i \in 1 .. arrived - known |-> known + i]]
     /\ UNCHANGED <<arrived, dates, chat, database, files, run, mem, reload, owns, relays, engine,
                    history, bounds>>

(* The next update of the batch.  One that is none of the thread's is only *)
(* consumed, and so is one written before the bridge was configured, while *)
(* the filter of the backlog is on.                                        *)
Continue(batch, since) ==
  IF batch = << >> THEN Idle
  ELSE [Idle EXCEPT !.batch = batch, !.since = since,
                    !.step = IF Updates[Head(batch)] = "text" /\ dates[Head(batch)] >= since
                             THEN "text" ELSE "advance"]

(* The batch is there.  The backlog is filtered by the runtime that has    *)
(* counted no update as consumed, as far as its state knows.               *)
Receive(s) ==
  /\ At(s, "received")
  /\ tick' = [tick EXCEPT ![s] = Continue(@.batch, IF mem[s].offset = 0 THEN @.since ELSE 0)]
  /\ UNCHANGED <<telegram, database, files, run, mem, reload, owns, relays, engine, history, bounds>>

(* handleIncomingText: without a thread the chat is told once, until there *)
(* is one again.                                                           *)
HandleText(s) ==
  /\ At(s, "text")
  /\ IF available THEN /\ Persist(s, Resolved(mem[s]), "dispatch")
                       /\ UNCHANGED dropped
     ELSE /\ Persist(s, [mem[s] EXCEPT !.replied = TRUE], "advance")
          /\ dropped' = dropped \cup {Head(tick[s].batch)}
  /\ UNCHANGED <<telegram, database, files, run, reload, owns, relays, engine, skipped, forgotten,
                 bounds>>

(* telegramOriginMessageIds.add, before the dispatch *)
RemembersOrigin(s, u) == origins' = [origins EXCEPT ![s] = @ \cup {FromTelegram(u)}]

(* thread.turn.start under the id of the update is accepted: it takes      *)
(* effect on a server whose read model has the thread, unless it has done  *)
(* so before, and its message is published while the dispatch is awaited.  *)
Accepted(s, u) ==
  IF delivered[u] = "none"
  THEN /\ u \notin rejected /\ engine[s].knows
       /\ delivered' = [delivered EXCEPT ![u] = s]
       /\ Commits(s, FromTelegram(u))
  ELSE UNCHANGED <<delivered, engine, flows>>

(* Mutated form: the origin of the message is remembered after its turn    *)
(* has been accepted.                                                      *)
Dispatch_Late(s) ==
  /\ At(s, "dispatch")
  /\ Accepted(s, Head(tick[s].batch))
  /\ Goto(s, "advance")
  /\ UNCHANGED <<telegram, rejected, available, files, run, mem, reload, owns, origins, relayed,
                 history, bounds>>

Dispatch(s) ==
  /\ At(s, "dispatch")
  /\ RemembersOrigin(s, Head(tick[s].batch))
  /\ Accepted(s, Head(tick[s].batch))
  /\ Goto(s, "advance")
  /\ UNCHANGED <<telegram, rejected, available, files, run, mem, reload, owns, relayed, history,
                 bounds>>

(* It is refused: for the receipt of an earlier refusal, or because the    *)
(* read model has no such thread, as another server created it.  Then the  *)
(* engine reconciles and the refusal gets a receipt, if that can be saved. *)
DispatchRefused(s) ==
  LET u == Head(tick[s].batch)
  IN /\ At(s, "dispatch") /\ delivered[u] = "none"
     /\ RemembersOrigin(s, u)
     /\ \/ u \in rejected /\ UNCHANGED <<rejected, engine, flows, bounds>>
        \/ /\ u \notin rejected /\ ~engine[s].knows
           /\ Reconciles(s)
           /\ \/ rejected' = rejected \cup {u} /\ UNCHANGED bounds
              \/ Fails /\ UNCHANGED rejected
     /\ Abort(s)
     /\ UNCHANGED <<telegram, delivered, available, files, run, mem, reload, owns, relayed, history>>

(* Mutated form: the whole batch is consumed with its first update. *)
Consumed_Batch(s) == tick[s].batch[Len(tick[s].batch)]

Consumed(s) == Head(tick[s].batch)

(* advancePersistedState *)
Advance(s) ==
  /\ At(s, "advance")
  /\ IF Consumed(s) > mem[s].offset
     THEN /\ mem' = [mem EXCEPT ![s].offset = Consumed(s)]
          /\ tick' = [tick EXCEPT ![s] = [Continue(Tail(@.batch), @.since)
                                            EXCEPT !.write = <<mem'[s]>>]]
     ELSE /\ tick' = [tick EXCEPT ![s] = Continue(Tail(@.batch), @.since)]
          /\ UNCHANGED mem
  /\ skipped' = IF dates[Head(tick[s].batch)] < tick[s].since
                THEN skipped \cup {Head(tick[s].batch)} ELSE skipped
  /\ UNCHANGED <<telegram, database, files, run, reload, owns, relays, engine, dropped, forgotten,
                 bounds>>

(* A call to Telegram or to the engine fails: the tick ends where it is.   *)
(* A dispatch that failed has remembered its origin, and the engine may    *)
(* have reconciled; one that failed after it took effect is the step       *)
(* "advance" that fails.                                                   *)
TickFails(s) ==
  /\ Fails
  /\ Abort(s)
  /\ \/ /\ At(s, "dispatch")
        /\ RemembersOrigin(s, Head(tick[s].batch))
        /\ Reconciles(s) \/ UNCHANGED <<engine, flows>>
     \/ /\ \E step \in {"config", "poll", "received", "text", "advance"} : At(s, step)
        /\ UNCHANGED <<origins, engine, flows>>
  /\ UNCHANGED <<telegram, database, files, run, mem, reload, owns, relayed, history>>

-----------------------------------------------------------------------------
(* handleDomainEvent: the flow of one event of one server *)
Becomes(s, f, g) == flows' = [flows EXCEPT ![s] = (@ \ {f}) \cup {g}]
Ends(s, f) == flows' = [flows EXCEPT ![s] = @ \ {f}]
Sends(s, m) == chat' = [chat EXCEPT ![s][m] = @ + 1]

(* resolveCurrentTarget, which begins to write the file. *)
FlowResolves(s, f, state) ==
  /\ mem' = [mem EXCEPT ![s] = Resolved(state)]
  /\ Becomes(s, f, [f EXCEPT !.step = "write", !.state = mem'[s]])

(* resolveCurrentConfig in a flow: what it reads may be old by the time    *)
(* the runtime's state becomes it.                                         *)
FlowStarts(s, f) ==
  /\ f.step = "start"
  /\ \/ ~owns[s] /\ Ends(s, f) /\ UNCHANGED <<mem, reload>>
     \/ /\ owns[s] /\ ~config.enabled
        /\ reload' = [reload EXCEPT ![s] = TRUE]
        /\ Ends(s, f) /\ UNCHANGED mem
     \/ /\ owns[s] /\ config.enabled /\ reload[s]
        /\ \E state \in Readable : Becomes(s, f, [f EXCEPT !.step = "assign", !.state = state])
        /\ UNCHANGED <<mem, reload>>
     \/ /\ owns[s] /\ config.enabled /\ ~reload[s]
        /\ FlowResolves(s, f, mem[s])
        /\ UNCHANGED reload
  /\ UNCHANGED <<telegram, database, files, run, owns, tick, origins, relayed, engine, history,
                 bounds>>

FlowAssigns(s, f) ==
  /\ f.step = "assign"
  /\ FlowResolves(s, f, f.state)
  /\ reload' = [reload EXCEPT ![s] = FALSE]
  /\ UNCHANGED <<telegram, database, files, run, owns, tick, origins, relayed, engine, history,
                 bounds>>

IsRelayed(s, m) == \E i \in DOMAIN relayed[s] : relayed[s][i] = m

(* rememberOutboundRelay: of too many messages the oldest is forgotten. *)
Remembers(s, m) ==
  LET full == Len(relayed[s]) = MaxRemembered
  IN /\ relayed' = [relayed EXCEPT ![s] = Append(IF full THEN Tail(@) ELSE @, m)]
     /\ forgotten' = IF full THEN forgotten \cup {<<s, Head(relayed[s])>>} ELSE forgotten

(* Once the file is written: nothing is sent twice, nothing without a      *)
(* target, and a message that this server took from Telegram not at all.   *)
FlowRemembers(s, f) ==
  /\ f.step = "write"
  /\ file' = f.state
  /\ IF ~available \/ IsRelayed(s, f.message)
     THEN Ends(s, f) /\ UNCHANGED <<origins, relayed, forgotten>>
     ELSE /\ Remembers(s, f.message)
          /\ origins' = [origins EXCEPT ![s] = @ \ {f.message}]
          /\ IF f.message \in origins[s] THEN Ends(s, f)
             ELSE Becomes(s, f, [f EXCEPT !.step = "send", !.state = Fresh])
  /\ UNCHANGED <<telegram, database, lock, config, run, mem, reload, owns, tick, engine, dropped,
                 skipped, bounds>>

FlowSends(s, f) ==
  /\ f.step = "send"
  /\ \/ Sends(s, f.message) /\ UNCHANGED bounds
     \/ Fails /\ UNCHANGED chat
  /\ Ends(s, f)
  /\ UNCHANGED <<arrived, confirmed, dates, database, files, run, mem, reload, owns, tick, origins,
                 relayed, engine, history>>

-----------------------------------------------------------------------------
(* The environment *)

(* A user of the chat writes.  The date has seconds only: what is written  *)
(* in the second of a configuration looks older than it.                   *)
UpdateArrives ==
  /\ arrived < scope.updates
  /\ arrived' = arrived + 1
  /\ \E date \in {config.epoch - 1, config.epoch} : dates' = [dates EXCEPT ![arrived'] = date]
  /\ UNCHANGED <<confirmed, chat, database, files, runtimes, history, bounds>>

(* The engine of a server commits and publishes an event of a message; a   *)
(* message that is streamed has several.                                   *)
MessageSent(s) ==
  /\ Count("messages")
  /\ engine[s].knows
  /\ \E m \in MessagesOf(s) : Commits(s, m)
  /\ UNCHANGED <<telegram, database, files, run, mem, reload, owns, tick, origins, relayed, history>>

Exists == \E s \in Servers : engine[s].knows

(* A user of a server creates the thread. *)
ThreadCreated(s) ==
  /\ ~Exists
  /\ available' = TRUE
  /\ engine' = [x \in Servers |-> IF x = s THEN UpToDate(TRUE) ELSE [engine[x] EXCEPT !.created = TRUE]]
  /\ UNCHANGED <<telegram, delivered, rejected, files, run, mem, reload, owns, tick, relays, history,
                 bounds>>

SwitchTarget ==
  /\ Count("switches")
  /\ Exists
  /\ available' = ~available
  /\ UNCHANGED <<telegram, delivered, rejected, files, runtimes, history>>

(* telegram start and telegram stop: updated_at is taken, the file         *)
(* written, and the runtime of the same server asked to reload.            *)
StartConfig(s) ==
  /\ Count("configs")
  /\ config.writer = "none"
  /\ config' = [enabled |-> FALSE, epoch |-> config.epoch + 1, writer |-> s]
  /\ UNCHANGED <<telegram, database, lock, file, runtimes, history>>

EndConfig(s) ==
  /\ config.writer = s
  /\ \E on \in BOOLEAN : config' = [config EXCEPT !.enabled = on, !.writer = "none"]
  /\ reload' = [reload EXCEPT ![s] = TRUE]
  /\ UNCHANGED <<telegram, database, lock, file, run, mem, owns, tick, relays, engine, history, bounds>>

RequestReload(s) ==
  /\ Count("reloads")
  /\ reload' = [reload EXCEPT ![s] = TRUE]
  /\ UNCHANGED <<telegram, database, files, run, mem, owns, tick, relays, engine, history>>

(* The owner has not refreshed the lock for 15 seconds. *)
LockAges ==
  /\ lock # NoLock /\ lock.recent
  /\ lock' = [lock EXCEPT !.recent = FALSE]
  /\ UNCHANGED <<telegram, database, file, config, runtimes, history, bounds>>

(* A server dies, or is shut down and releases its lock; it starts again,  *)
(* with a read model of all there is.  A configuration it was writing      *)
(* stays torn.                                                             *)
Restart(s, released) ==
  /\ Count("crashes")
  /\ run' = [run EXCEPT ![s] = @ + 1]
  /\ file' \in IF Writing(s) THEN Readable ELSE {file}
  /\ lock' = IF released /\ Holds(s, lock) THEN NoLock ELSE lock
  /\ config' = IF config.writer = s THEN [config EXCEPT !.writer = "none"] ELSE config
  /\ mem' = [mem EXCEPT ![s] = Fresh] /\ reload' = [reload EXCEPT ![s] = TRUE]
  /\ owns' = [owns EXCEPT ![s] = FALSE] /\ tick' = [tick EXCEPT ![s] = Idle]
  /\ origins' = [origins EXCEPT ![s] = {}] /\ relayed' = [relayed EXCEPT ![s] = << >>]
  /\ flows' = [flows EXCEPT ![s] = {}]
  /\ engine' = [engine EXCEPT ![s] = UpToDate(Exists)]
  /\ UNCHANGED <<telegram, database, history>>

-----------------------------------------------------------------------------
Init ==
  /\ scope \in Scopes /\ counted = [kind \in CountedKind |-> 0]
  /\ arrived = 0 /\ confirmed = 0 /\ dates = [u \in Ids |-> 0]
  /\ chat = [s \in Servers |-> [m \in Messages |-> 0]]
  /\ delivered = [u \in Ids |-> "none"] /\ rejected = {} /\ available = scope.born
  /\ lock = NoLock /\ file = Fresh
  /\ config = [enabled |-> TRUE, epoch |-> 1, writer |-> "none"]
  /\ run = [s \in Servers |-> 0] /\ mem = [s \in Servers |-> Fresh]
  /\ reload = [s \in Servers |-> TRUE] /\ owns = [s \in Servers |-> FALSE]
  /\ tick = [s \in Servers |-> Idle]
  /\ origins = [s \in Servers |-> {}] /\ relayed = [s \in Servers |-> << >>]
  /\ flows = [s \in Servers |-> {}] /\ engine = [s \in Servers |-> UpToDate(scope.born)]
  /\ dropped = {} /\ skipped = {} /\ forgotten = {}

Tick(s) == \/ StartTick(s) \/ EnsureBridgeLock(s) \/ ResolveConfig(s)
           \/ GetUpdates(s) \/ Receive(s) \/ HandleText(s) \/ Dispatch(s) \/ DispatchRefused(s)
           \/ Advance(s) \/ TickWritten(s)
Relay(s) == \E f \in flows[s] : \/ FlowStarts(s, f) \/ FlowAssigns(s, f)
                                \/ FlowRemembers(s, f) \/ FlowSends(s, f)
Environment ==
  \/ UpdateArrives \/ SwitchTarget \/ LockAges
  \/ \E s \in scope.servers :
       \/ MessageSent(s) \/ ThreadCreated(s) \/ OtherCommand(s)
       \/ StartConfig(s) \/ EndConfig(s) \/ RequestReload(s)
       \/ \E released \in BOOLEAN : Restart(s, released)

Next == Environment \/ \E s \in scope.servers : Tick(s) \/ TickFails(s) \/ Relay(s)

Spec == Init /\ [][Next]_vars

(* Every runtime polls on an interval, and what it awaits ends. *)
FairSpec ==
  /\ Spec
  /\ \A s \in Servers : /\ WF_vars(s \in scope.servers /\ Tick(s))
                        /\ WF_vars(s \in scope.servers /\ Relay(s))

-----------------------------------------------------------------------------
TypeOK ==
  /\ scope \in Scopes /\ counted \in [CountedKind -> Nat]
  /\ arrived \in Offsets /\ confirmed \in Offsets /\ dates \in [Ids -> Nat]
  /\ chat \in [Servers -> [Messages -> Nat]]
  /\ delivered \in [Ids -> Servers \cup {"none"}] /\ rejected \subseteq Ids
  /\ available \in BOOLEAN
  /\ lock \in LockFile /\ file \in State /\ config \in Config
  /\ run \in [Servers -> Nat] /\ mem \in [Servers -> State]
  /\ reload \in [Servers -> BOOLEAN] /\ owns \in [Servers -> BOOLEAN]
  /\ tick \in [Servers -> TickState] /\ flows \in [Servers -> SUBSET Flow]
  /\ origins \in [Servers -> SUBSET Messages] /\ relayed \in [Servers -> Seq(Messages)]
  /\ engine \in [Servers -> View]
  /\ dropped \subseteq Ids /\ skipped \subseteq Ids /\ forgotten \subseteq Servers \X Messages

Handled(u) == Updates[u] # "text" \/ u \in dropped \/ delivered[u] # "none"

(* What Telegram has forgotten has been handled: no restart, failure, lock *)
(* handover or write out of order makes the bridge confirm an update whose *)
(* turn has not started, unless there was no thread to start it on, or it  *)
(* was skipped as a backlog, and then the bridge has been configured, to   *)
(* the second, after it was written.                                       *)
NothingLost == \A u \in 1 .. confirmed : Handled(u) \/ (u \in skipped /\ dates[u] < config.epoch)

(* A server does not echo to the chat what it has itself given to the      *)
(* thread, and sends no message twice between two restarts, however many   *)
(* events it has and whoever committed them, unless it has had so many     *)
(* that it has forgotten this one.                                         *)
NoEcho ==
  \A s \in Servers :
    /\ \A u \in Ids : delivered[u] = s => chat[s][FromTelegram(u)] = 0
    /\ \A m \in Messages : chat[s][m] <= 1 + run[s] \/ <<s, m>> \in forgotten

(* Every text the chat sends is handled in the end, by whichever server    *)
(* gets the lock, though owners die without releasing it, calls fail and   *)
(* the bridge is configured, as long as it ends up enabled; unless it was  *)
(* skipped, or an update up to it was refused, which is for ever.          *)
EventuallyHandled ==
  <>[]config.enabled =>
    \A u \in {v \in Ids : Updates[v] = "text"} :
      arrived >= u ~> Handled(u) \/ u \in skipped \/ \E v \in 1 .. u : v \in rejected
=============================================================================
