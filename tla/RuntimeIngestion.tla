--------------------------- MODULE RuntimeIngestion ---------------------------
(* What a codex process says and asks, on its way to one thread, and the   *)
(* user's answers on their way back.  The manager                          *)
(* (codexAppServerManager.ts) reads lines from the process, its adapter    *)
(* turns them into events, ProviderRuntimeIngestion takes the events one   *)
(* by one from one queue and dispatches commands to the thread, and        *)
(* ProviderCommandReactor takes the user's answers to the manager.  The    *)
(* text of a message is a sequence of chunks, numbered as codex said them. *)
EXTENDS Integers, Sequences, FiniteSets, SequencesExt, FiniteSetsExt

CONSTANTS
  Scopes,        \* the scopes to explore, see Init
  MaxBuffered,   \* the chunks the buffer of a message holds (24 000 characters)
  MaxUnread,     \* bound: lines of a process the manager has not read
  MaxEvents      \* bound: events the ingestion has not taken when a line is read

ASSUME BoundsAssumption ==
  /\ MaxBuffered \in Nat /\ MaxUnread \in Nat \ {0} /\ MaxEvents \in Nat \ {0}
  /\ \A s \in Scopes :
       /\ s.modes \subseteq {"buffered", "streaming"} /\ s.plans \subseteq BOOLEAN
       /\ {s.turns, s.others, s.messages, s.chunks, s.asks, s.answers, s.stops, s.deaths,
           s.failures} \subseteq Nat
       /\ \A r \in s.unreadable : r \in Nat /\ r % 2 = 0

VARIABLES
  scope,       \* the bounds of this behaviour
  codex,       \* the running codex process, see Init
  said,        \* said[m]: the turn, process and number of chunks of message m
  asked,       \* asked[r]: the process that asked request r and what it was answered
  pipe,        \* pipe[p]: lines of process p the manager has not read
  session,     \* the process the manager's map holds for the thread, or None
  pending,     \* the requests in the manager's contexts, as <<process, request>>
  events,      \* inputQueue: events the ingestion has not taken
  todo,        \* what is left of the handler of the event it took
  caches,      \* the ingestion's memory: mode, buffer and ids, see Init
  thread,      \* the thread as the engine has it: messages, activities, status
  intents,     \* the reactor's queue
  finished,    \* the turns whose completion was handled to its end
  count        \* what has happened of the things the scope bounds

codexVars == << codex, said, asked, pipe >>
managerVars == << session, pending >>
ingestionVars == << todo, caches, finished >>
vars == << scope, codexVars, managerVars, events, ingestionVars, thread, intents, count >>

None == 0
Modes == {"buffered", "streaming"}
Decisions == {"accept", "decline"}
Messages == 1 .. Len(said)
Processes == 1 .. Len(pipe)

(* A message nobody has told the thread of. *)
Unknown == [text |-> << >>, state |-> "none"]

(* An odd request asks for an approval, an even one puts a question.       *)
IsApproval(r) == r % 2 = 1

Bump(k) == count' = [count EXCEPT ![k] = @ + 1]
May(k) == count[k] < scope[k]
-----------------------------------------------------------------------------
(* What codex does (external).  It says messages one after the other, in a *)
(* turn, and waits for the answer of what it asks.                         *)

Write(line) ==
  /\ Len(pipe[codex.process]) < MaxUnread
  /\ pipe' = [pipe EXCEPT ![codex.process] = Append(@, line)]

Running == codex.alive /\ codex.turn # None
Free    == Running /\ codex.waiting = None

(* Another turn begins; the user who asked for it, or one who asked for a  *)
(* turn of another thread, chose how its text is delivered.                *)
StartTurn ==
  /\ codex.alive /\ codex.turn = None /\ May("turns") /\ Bump("turns")
  /\ codex' = [codex EXCEPT !.turn = count.turns + 1]
  /\ \E mode \in scope.modes : events' = Append(events, [type |-> "mode", mode |-> mode])
  /\ UNCHANGED << scope, said, asked, pipe, managerVars, ingestionVars, thread, intents >>

OtherTurn ==
  /\ May("others") /\ Bump("others")
  /\ \E mode \in scope.modes : events' = Append(events, [type |-> "mode", mode |-> mode])
  /\ UNCHANGED << scope, codexVars, managerVars, ingestionVars, thread, intents >>

(* A message, or a proposed plan, starts with its first chunk ... *)
Begin ==
  /\ Free /\ codex.message = None /\ Len(said) < scope.messages
  /\ \E plan \in scope.plans :
       /\ said' = Append(said, [turn |-> codex.turn, process |-> codex.process,
                                plan |-> plan, chunks |-> 1])
       /\ Write([type |-> "delta", plan |-> plan, turn |-> codex.turn,
                 message |-> Len(said) + 1, chunk |-> 1])
  /\ codex' = [codex EXCEPT !.message = Len(said) + 1]
  /\ UNCHANGED << scope, asked, managerVars, events, ingestionVars, thread, intents, count >>

(* ... and gets more. *)
Say ==
  /\ Free /\ codex.message # None
  /\ LET m == codex.message
     IN /\ said[m].chunks < scope.chunks
        /\ said' = [said EXCEPT ![m].chunks = @ + 1]
        /\ Write([type |-> "delta", plan |-> said[m].plan, turn |-> codex.turn,
                  message |-> m, chunk |-> said[m].chunks + 1])
  /\ UNCHANGED << scope, codex, asked, managerVars, events, ingestionVars, thread, intents,
                  count >>

(* item/completed carries the whole text once more. *)
EndMessage ==
  /\ Free /\ codex.message # None
  /\ codex' = [codex EXCEPT !.message = None]
  /\ LET m == codex.message
     IN Write([type |-> "item", plan |-> said[m].plan, turn |-> codex.turn, message |-> m,
               chunks |-> said[m].chunks])
  /\ UNCHANGED << scope, said, asked, managerVars, events, ingestionVars, thread,
                  intents, count >>

(* A turn may end, interrupted, in the middle of a message. *)
EndTurn ==
  /\ Free
  /\ codex' = [codex EXCEPT !.turn = None, !.message = None]
  /\ Write([type |-> "turn", turn |-> codex.turn])
  /\ UNCHANGED << scope, said, asked, managerVars, events, ingestionVars, thread,
                  intents, count >>

Ask ==
  /\ Free /\ May("asks") /\ Bump("asks")
  /\ codex' = [codex EXCEPT !.waiting = count.asks + 1]
  /\ asked' = Append(asked, [process |-> codex.process, answers |-> << >>])
  /\ Write([type |-> "request", request |-> count.asks + 1])
  /\ UNCHANGED << scope, said, managerVars, events, ingestionVars, thread, intents >>

Die ==
  /\ codex.alive /\ May("deaths") /\ Bump("deaths")
  /\ codex' = [codex EXCEPT !.alive = FALSE]
  /\ UNCHANGED << scope, said, asked, pipe, managerVars, events, ingestionVars, thread,
                  intents >>
-----------------------------------------------------------------------------
(* The manager. *)

Emit(event) == events' = Append(events, event)

(* Mutated form: the request is passed on and not remembered. *)
Remembered_Not(p, line) == pending

(* handleServerRequest: a request is remembered under a new id. *)
Remembered(p, line) ==
  IF line.type = "request" THEN pending \cup {<< p, line.request >>} ELSE pending

(* The adapter makes an event of every line but a question of which        *)
(* toUserInputQuestions can read nothing, say one without options.         *)
Mapped(line) == line.type = "request" => line.request \notin scope.unreadable

(* handleStdoutLine: a request of codex is remembered in the context of    *)
(* its process, and the line becomes an event, also when the process is    *)
(* gone: only stopSession closes the reader.                               *)
ReadLine ==
  \E p \in Processes :
    /\ pipe[p] # << >> /\ Len(events) < MaxEvents
    /\ pipe' = [pipe EXCEPT ![p] = Tail(@)]
    /\ LET line == Head(pipe[p])
       IN /\ pending' = Remembered(p, line)
          /\ IF Mapped(line) THEN Emit(line) ELSE UNCHANGED events
    /\ UNCHANGED << scope, codex, said, asked, session, ingestionVars, thread, intents, count >>

(* The exit of a process nobody stopped. *)
Exit ==
  /\ session # None /\ session = codex.process /\ ~codex.alive
  /\ session' = None
  /\ Emit([type |-> "exited"])
  /\ UNCHANGED << scope, codexVars, pending, ingestionVars, thread, intents, count >>

(* recoverSessionForThread: a new process for a thread without a session.  *)
(* It has no turn and waits for nothing.                                   *)
NewProcess(p) ==
  [process |-> p, alive |-> TRUE, turn |-> None, message |-> None, waiting |-> None]

Resume ==
  /\ codex' = NewProcess(Len(pipe) + 1)
  /\ pipe' = Append(pipe, << >>)
  /\ session' = Len(pipe) + 1
  /\ Emit([type |-> "started"])
  /\ UNCHANGED << said, asked, pending >>

(* Mutated form: an answered request is kept until the session ends. *)
Forget_Keeps(r) == pending' = pending

(* pendingApprovals.delete, pendingUserInputs.delete *)
Forget(r) == pending' = pending \ {<< session, r >>}

(* respondToRequest and respondToUserInput: the request is forgotten, its  *)
(* answer written, and an event tells the thread.  The write may throw     *)
(* when the process is gone, or be lost.                                   *)
RespondToRequest(r, decision) ==
  /\ << session, r >> \in pending /\ Forget(r)
  /\ IF codex.alive
     THEN /\ asked' = [asked EXCEPT ![r].answers = Append(@, decision)]
          /\ codex' = [codex EXCEPT !.waiting = IF @ = r THEN None ELSE @]
     ELSE UNCHANGED << asked, codex >>
  /\ Emit([type |-> "resolved", request |-> r, decision |-> decision])
  /\ UNCHANGED << said, pipe, session, thread >>

(* stopSession: what was asked is forgotten, the reader closed, the        *)
(* process killed.                                                         *)
StopSession ==
  /\ pending' = {q \in pending : q[1] # session}
  /\ pipe' = [pipe EXCEPT ![session] = << >>]
  /\ codex' = [codex EXCEPT !.alive = FALSE]
  /\ session' = None
  /\ Emit([type |-> "exited"])
  /\ UNCHANGED << said, asked >>
-----------------------------------------------------------------------------
(* The ingestion.  A handler is a sequence of operations, each with one    *)
(* dispatch at most; a dispatch that fails ends the handler, and what the  *)
(* handler did before stays done.                                          *)

(* finalizeAssistantMessage *)
Finalize(m, fallback) ==
  << [do |-> "flush", message |-> m, fallback |-> fallback],
     [do |-> "complete", message |-> m] >>

(* getAssistantMessageIdsForTurn *)
InTurn(turn) == IF turn \in DOMAIN caches.ids THEN caches.ids[turn] ELSE {}

(* The text of an item of so many chunks: a plan is kept by its turn, so   *)
(* its chunks carry their item.                                            *)
Whole(chunks) == [i \in 1 .. chunks |-> i]
WholePlan(m, chunks) == [i \in 1 .. chunks |-> << m, i >>]

(* A message completed: what is buffered of it, or its text, is flushed.   *)
MessageHandler(event) ==
  << [do |-> "remember", turn |-> event.turn, message |-> event.message] >>
    \o Finalize(event.message, Whole(event.chunks))
    \o << [do |-> "forget", turn |-> event.turn, message |-> event.message] >>

(* The same for one message after the other. *)
FinalizeAll(order) ==
  [k \in 1 .. 2 * Len(order) |->
     Finalize(order[(k + 1) \div 2], << >>)[IF k % 2 = 1 THEN 1 ELSE 2]]

(* A turn completed: its messages that are still open are, and its plan.   *)
TurnHandler(turn) ==
  << [do |-> "session", status |-> "ready"] >>
    \o FinalizeAll(SetToSeq(InTurn(turn)))
    \o << [do |-> "finish", turn |-> turn],
          [do |-> "upsert", turn |-> turn, fallback |-> << >>] >>

(* runtimeEventToActivities *)
Activities(event) ==
  CASE event.type = "request"  ->
         << [do |-> "activity", kind |-> "requested", request |-> event.request] >>
    [] event.type = "resolved" ->
         << [do |-> "activity", kind |-> "resolved", request |-> event.request,
             decision |-> event.decision] >>

(* processRuntimeEvent and processDomainEvent, by the type of the event. *)
Handler(event) ==
  CASE event.type = "mode" -> << [do |-> "mode", mode |-> event.mode] >>
    [] event.type = "delta" ->
         << [do |-> IF event.plan THEN "plan" ELSE "delta", turn |-> event.turn,
             message |-> event.message, chunk |-> event.chunk] >>
    [] event.type = "item" ->
         IF event.plan
         THEN << [do |-> "upsert", turn |-> event.turn,
                  fallback |-> WholePlan(event.message, event.chunks)] >>
         ELSE MessageHandler(event)
    [] event.type = "turn"    -> TurnHandler(event.turn)
    [] event.type = "started" -> << [do |-> "session", status |-> "ready"] >>
    [] event.type = "exited"  ->
         << [do |-> "session", status |-> "stopped"], [do |-> "clear"] >>
    [] OTHER -> Activities(event)

Take ==
  /\ todo = << >> /\ events # << >>
  /\ todo' = Handler(Head(events))
  /\ events' = Tail(events)
  /\ UNCHANGED << scope, codexVars, managerVars, caches, finished, thread, intents, count >>

(* Mutated form: the set of a turn starts anew with every message. *)
Remember_Last(c, turn, m) ==
  [c EXCEPT !.ids = [t \in DOMAIN @ \cup {turn} |-> IF t = turn THEN {m} ELSE @[t]]]

(* rememberAssistantMessageId *)
Remember(c, turn, m) ==
  [c EXCEPT !.ids = [t \in DOMAIN @ \cup {turn} |->
                       (IF t \in DOMAIN @ THEN @[t] ELSE {}) \cup IF t = turn THEN {m} ELSE {}]]

Without(f, S) == [x \in DOMAIN f \ S |-> f[x]]

(* forgetAssistantMessageId: a turn without messages has no entry. *)
ForgetMessage(c, turn, m) ==
  LET left == (IF turn \in DOMAIN c.ids THEN c.ids[turn] ELSE {}) \ {m}
  IN IF turn \notin DOMAIN c.ids THEN c
     ELSE IF left = {} THEN [c EXCEPT !.ids = Without(@, {turn})]
     ELSE [c EXCEPT !.ids[turn] = left]

Buffered(c, m) == IF m \in DOMAIN c.buffer THEN c.buffer[m] ELSE << >>
SetBuffer(c, m, text) ==
  [c EXCEPT !.buffer = [x \in DOMAIN @ \cup {m} |-> IF x = m THEN text ELSE @[x]]]
ClearBuffer(c, m) == [c EXCEPT !.buffer = Without(@, {m})]

(* A delta in the thread: text is appended and the message is streaming;   *)
(* a completion keeps the text.                                            *)
Message(m) == IF m \in DOMAIN thread.messages THEN thread.messages[m] ELSE Unknown
SetMessage(m, message) ==
  [thread EXCEPT !.messages = [x \in DOMAIN @ \cup {m} |-> IF x = m THEN message ELSE @[x]]]
Delta(m, text) == SetMessage(m, [text |-> Message(m).text \o text, state |-> "streaming"])
Completed(m)   == SetMessage(m, [text |-> Message(m).text, state |-> "done"])

(* Mutated form: the buffer is dropped and only the last delta spills. *)
AfterDelta_SpillsLast(op) ==
  LET known == Remember(caches, op.turn, op.message)
      text  == Append(Buffered(caches, op.message), op.chunk)
  IN IF caches.mode = "streaming" THEN [caches |-> known, spilled |-> << op.chunk >>]
     ELSE IF Len(text) <= MaxBuffered
          THEN [caches |-> SetBuffer(known, op.message, text), spilled |-> << >>]
     ELSE [caches |-> ClearBuffer(known, op.message), spilled |-> << op.chunk >>]

(* appendBufferedAssistantText: the memory after a delta and the text that *)
(* spills; in streaming mode the delta itself.                             *)
AfterDelta(op) ==
  LET known == Remember(caches, op.turn, op.message)
      text  == Append(Buffered(caches, op.message), op.chunk)
  IN IF caches.mode = "streaming" THEN [caches |-> known, spilled |-> << op.chunk >>]
     ELSE IF Len(text) <= MaxBuffered
          THEN [caches |-> SetBuffer(known, op.message, text), spilled |-> << >>]
     ELSE [caches |-> ClearBuffer(known, op.message), spilled |-> text]

(* takeBufferedAssistantText, or the text of the completion. *)
FinalText(op) ==
  IF Buffered(caches, op.message) # << >> THEN Buffered(caches, op.message) ELSE op.fallback

(* clearTurnStateForSession *)
Cleared ==
  [caches EXCEPT !.buffer = Without(@, UNION {caches.ids[t] : t \in DOMAIN caches.ids}),
                 !.ids = << >>, !.plans = << >>]

(* The buffer of a proposed plan, what is appended to it, and what its     *)
(* completion or the end of the turn makes of it: the plan of the turn is  *)
(* replaced by a later one.                                                *)
Pieces(turn) == IF turn \in DOMAIN caches.plans THEN caches.plans[turn] ELSE << >>
PlanDelta(op) ==
  [caches EXCEPT !.plans = [t \in DOMAIN @ \cup {op.turn} |->
     IF t = op.turn THEN Append(Pieces(t), << op.message, op.chunk >>) ELSE @[t]]]

(* Mutated form: only the completion of a plan has its text. *)
PlanText_CompletionOnly(op) == op.fallback

PlanText(op) == IF Pieces(op.turn) # << >> THEN Pieces(op.turn) ELSE op.fallback
Upsert(turn, text) ==
  [thread EXCEPT !.plans = [t \in DOMAIN @ \cup {turn} |-> IF t = turn THEN text ELSE @[t]]]

Activity(op) == [thread EXCEPT !.activities = Append(@, Without(op, {"do"}))]

(* What an operation makes of the ingestion's memory ... *)
Memory(op) ==
  CASE op.do = "mode"     -> [caches EXCEPT !.mode = op.mode]
    [] op.do = "remember" -> Remember(caches, op.turn, op.message)
    [] op.do = "delta"    -> AfterDelta(op).caches
    [] op.do = "flush"    -> ClearBuffer(caches, op.message)
    [] op.do = "plan"     -> PlanDelta(op)
    [] op.do = "upsert"   -> [caches EXCEPT !.plans = Without(@, {op.turn})]
    [] op.do = "forget"   -> ForgetMessage(caches, op.turn, op.message)
    [] op.do = "finish"   -> [caches EXCEPT !.ids = Without(@, {op.turn})]
    [] op.do = "clear"    -> Cleared
    [] OTHER -> caches

(* ... and what its dispatch, when it has one, makes of the thread. *)
Dispatched(op) ==
  CASE op.do = "delta" /\ AfterDelta(op).spilled # << >> ->
         Delta(op.message, AfterDelta(op).spilled)
    [] op.do = "flush" /\ FinalText(op) # << >> -> Delta(op.message, FinalText(op))
    [] op.do = "complete" -> Completed(op.message)
    [] op.do = "upsert" /\ PlanText(op) # << >> -> Upsert(op.turn, PlanText(op))
    [] op.do = "session"  -> [thread EXCEPT !.status = op.status]
    [] op.do = "activity" -> Activity(op)
    [] OTHER -> thread

Perform ==
  /\ todo # << >>
  /\ LET op == Head(todo)
     IN /\ caches' = Memory(op)
        /\ thread' = Dispatched(op)
        /\ finished' = finished \cup IF op.do = "finish" THEN {op.turn} ELSE {}
  /\ todo' = Tail(todo)
  /\ UNCHANGED << scope, codexVars, managerVars, events, intents, count >>

(* processInputSafely: the handler of an event whose dispatch fails ends. *)
DispatchFails ==
  /\ todo # << >> /\ May("failures") /\ Bump("failures")
  /\ LET op == Head(todo)
     IN Dispatched(op) # thread /\ caches' = Memory(op)
  /\ todo' = << >>
  /\ UNCHANGED << scope, codexVars, managerVars, events, finished, thread, intents >>
-----------------------------------------------------------------------------
(* The user, on any client: what the client shows may be older than the    *)
(* thread, so a request can be answered again and when it is over.         *)
Requested(r) == \E i \in DOMAIN thread.activities :
  thread.activities[i].kind = "requested" /\ thread.activities[i].request = r

Respond ==
  /\ May("answers") /\ Bump("answers")
  /\ \E r \in DOMAIN asked, d \in Decisions :
       /\ Requested(r)
       /\ intents' = Append(intents, [do |-> "answer", request |-> r, decision |-> d])
  /\ UNCHANGED << scope, codexVars, managerVars, events, ingestionVars, thread >>

RequestStop ==
  /\ May("stops") /\ Bump("stops")
  /\ intents' = Append(intents, [do |-> "stop"])
  /\ UNCHANGED << scope, codexVars, managerVars, events, ingestionVars, thread >>

(* derivePendingApprovals and derivePendingUserInputs: what has not been   *)
(* resolved.  A failed approval hides the approval when it names an        *)
(* unknown permission request, which the manager never says.               *)
Hides(activity) ==
  \/ activity.kind = "resolved"
  \/ /\ activity.kind = "failed" /\ IsApproval(activity.request)
     /\ activity.why = "unknown permission request"

Shown(r) ==
  /\ Requested(r)
  /\ ~\E i \in DOMAIN thread.activities :
       thread.activities[i].request = r /\ Hides(thread.activities[i])
-----------------------------------------------------------------------------
(* The reactor: processApprovalResponseRequested and                       *)
(* processUserInputResponseRequested, which differ in what they pass on.   *)
Failed(r, why) ==
  thread' = [thread EXCEPT !.activities =
               Append(@, [kind |-> "failed", request |-> r, why |-> why])]

NoSession(r) ==
  /\ thread.status = "stopped" /\ Failed(r, "no session")
  /\ UNCHANGED << codexVars, managerVars, events >>

(* A thread without process gets a new one, which knows of no request, or  *)
(* none.                                                                   *)
Recovered(r) ==
  /\ thread.status # "stopped" /\ session = None
  /\ \/ Resume /\ Failed(r, "unknown approval request")
     \/ Failed(r, "cannot recover") /\ UNCHANGED << codexVars, managerVars, events >>

Refused(r) ==
  /\ thread.status # "stopped" /\ session # None /\ << session, r >> \notin pending
  /\ Failed(r, "unknown approval request")
  /\ UNCHANGED << codexVars, managerVars, events >>

CannotWrite(r) ==
  /\ thread.status # "stopped" /\ << session, r >> \in pending /\ ~codex.alive
  /\ Forget(r) /\ Failed(r, "cannot write")
  /\ UNCHANGED << codexVars, session, events >>

TakeAnswer ==
  /\ intents # << >> /\ Head(intents).do = "answer"
  /\ intents' = Tail(intents)
  /\ LET r == Head(intents).request
     IN \/ NoSession(r)
        \/ Recovered(r)
        \/ Refused(r)
        \/ CannotWrite(r)
        \/ thread.status # "stopped" /\ RespondToRequest(r, Head(intents).decision)
  /\ UNCHANGED << scope, ingestionVars, count >>

(* processSessionStopRequested *)
TakeStop ==
  /\ intents # << >> /\ Head(intents).do = "stop"
  /\ intents' = Tail(intents)
  /\ IF thread.status # "stopped" /\ session # None
     THEN StopSession
     ELSE UNCHANGED << codexVars, managerVars, events >>
  /\ thread' = [thread EXCEPT !.status = "stopped"]
  /\ UNCHANGED << scope, ingestionVars, count >>
-----------------------------------------------------------------------------
Init ==
  /\ scope \in Scopes
  /\ codex = NewProcess(1) /\ pipe = << << >> >> /\ session = 1
  /\ said = << >> /\ asked = << >> /\ pending = {}
  /\ events = << >> /\ todo = << >> /\ intents = << >>
  /\ caches = [mode |-> "buffered", buffer |-> << >>, ids |-> << >>, plans |-> << >>]
  /\ thread = [messages |-> << >>, plans |-> << >>, activities |-> << >>, status |-> "ready"]
  /\ finished = {}
  /\ count = [turns |-> 0, others |-> 0, asks |-> 0, answers |-> 0, stops |-> 0,
              deaths |-> 0, failures |-> 0]

Codex     == StartTurn \/ OtherTurn \/ Begin \/ Say \/ EndMessage \/ EndTurn \/ Ask \/ Die
Manager   == ReadLine \/ Exit
Ingestion == Take \/ Perform \/ DispatchFails
User      == Respond \/ RequestStop
Reactor   == TakeAnswer \/ TakeStop

Next == Codex \/ Manager \/ Ingestion \/ User \/ Reactor

Spec == Init /\ [][Next]_vars

(* The manager reads what the operating system gives it, and the workers   *)
(* of the ingestion and the reactor are forked for good.                   *)
FairSpec ==
  /\ Spec
  /\ WF_vars(Manager) /\ WF_vars(Take) /\ WF_vars(Perform) /\ WF_vars(Reactor)
-----------------------------------------------------------------------------
TypeOK ==
  /\ codex.process \in Processes /\ codex.message \in {None} \cup Messages
  /\ codex.turn \in 0 .. count.turns /\ codex.waiting \in 0 .. count.asks
  /\ session \in {None, codex.process}
  /\ pending \subseteq Processes \X DOMAIN asked
  /\ caches.mode \in Modes /\ DOMAIN caches.ids \subseteq 1 .. count.turns
  /\ \A m \in DOMAIN caches.buffer : m \in Messages /\ Len(caches.buffer[m]) \in 1 .. MaxBuffered
  /\ \A m \in DOMAIN thread.messages : thread.messages[m].state \in {"streaming", "done"}
  /\ thread.status \in {"ready", "stopped"} /\ finished \subseteq 1 .. count.turns

(* The process of a message was not stopped and did not exit. *)
Lives(m) == session = said[m].process /\ codex.alive

(* A message that is shown as complete has every chunk that codex said of  *)
(* it, and in order and once if it was buffered throughout and never       *)
(* spilled, whether its own completion or the end of its turn completed    *)
(* it, unless a command failed or its process ended.                       *)
MessagesComplete ==
  count.failures = 0 => \A m \in Messages :
    Lives(m) /\ Message(m).state = "done" =>
      /\ Range(Message(m).text) = 1 .. said[m].chunks
      /\ scope.modes = {"buffered"} /\ said[m].chunks <= MaxBuffered
           => Message(m).text = Whole(said[m].chunks)

(* The plan a turn shows when it is over is the last one codex proposed,   *)
(* complete, unless a command failed or its process ended.                 *)
LastPlan(m) == /\ said[m].plan
               /\ \A k \in m + 1 .. Len(said) : said[k].plan => said[k].turn # said[m].turn
PlanKept ==
  count.failures = 0 /\ todo = << >> => \A m \in Messages :
    Lives(m) /\ LastPlan(m) /\ said[m].turn \in finished =>
      /\ said[m].turn \in DOMAIN thread.plans
      /\ thread.plans[said[m].turn] = WholePlan(m, said[m].chunks)

(* Once the completion of a turn was handled to its end, none of its       *)
(* messages is streaming and the ingestion remembers nothing of it, even   *)
(* if the completion of a message failed before, unless the process ended. *)
TurnsSettle ==
  \A m \in Messages :
    Lives(m) /\ said[m].turn \in finished =>
      /\ Message(m).state # "streaming"
      /\ m \notin DOMAIN caches.buffer /\ said[m].turn \notin DOMAIN caches.ids
      /\ todo = << >> => said[m].turn \notin DOMAIN caches.plans

(* Where the thread shows the answer of a request. *)
Resolved(r) == {i \in DOMAIN thread.activities :
  thread.activities[i].kind = "resolved" /\ thread.activities[i].request = r}

(* Codex gets at most one answer to what it asks, however often it is      *)
(* answered, and that answer is the one the thread shows, once, unless the *)
(* process was gone.                                                       *)
DecisionsAgree ==
  \A r \in DOMAIN asked :
    /\ Len(asked[r].answers) <= 1
    /\ \A i, j \in Resolved(r) : i = j
    /\ \A i \in Resolved(r) :
         \/ asked[r].answers = << thread.activities[i].decision >>
         \/ asked[r].process # codex.process \/ ~codex.alive

(* What codex waits for is shown to the user or over, unless it is a       *)
(* question the adapter cannot read, and what the user answers ends: the   *)
(* answer reaches codex unless its process ended.                          *)
Waits(r) == codex.waiting = r /\ codex.alive
RequestsEnd ==
  \A r \in 1 .. 2 :
    /\ scope.failures = 0 /\ r \notin scope.unreadable =>
         (Waits(r) ~> ~Waits(r) \/ Shown(r))
    /\ (\E i \in DOMAIN intents : intents[i].do = "answer" /\ intents[i].request = r)
         ~> ~Waits(r)

(* An approval that was refused because nobody waits for it is no longer   *)
(* shown ("clears stale pending approvals when provider reports unknown    *)
(* pending request").                                                      *)
StaleCleared ==
  \A i \in DOMAIN thread.activities :
    LET a == thread.activities[i]
    IN a.kind = "failed" /\ IsApproval(a.request) /\ a.why = "unknown approval request"
         => ~Shown(a.request)
=============================================================================
