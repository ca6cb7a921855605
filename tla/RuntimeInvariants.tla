-------------------------- MODULE RuntimeInvariants --------------------------
(***************************************************************************)
(* What holds of RuntimeIngestion between its steps and is kept by each of *)
(* them: the shape of its state, the answers on their way (Answers), what  *)
(* the end of a turn finds (Settling) and what codex said on its way into  *)
(* the thread (Flowing); with what the steps do to them.  The proofs that  *)
(* the steps keep them are in RuntimeIngestion_proofs.                     *)
(***************************************************************************)
EXTENDS RuntimeIngestion, FiniteSets

(* The shape of the state: what the variables range over. *)
Table(Keys, Row) == UNION {[S -> Row] : S \in SUBSET Keys}

Line ==
       [type : {"delta"}, plan : BOOLEAN, turn : Nat, message : Nat, chunk : Nat]
  \cup [type : {"item"}, plan : BOOLEAN, turn : Nat, message : Nat, chunks : Nat]
  \cup [type : {"turn"}, turn : Nat]
  \cup [type : {"request"}, request : Nat]

Event ==
  Line \cup [type : {"mode"}, mode : Modes]
       \cup [type : {"started", "exited"}]
       \cup [type : {"resolved"}, request : Nat, decision : Decisions]

Text == Seq(Nat)
PlanPieces == Seq(Nat \X Nat)

Operation ==
       [do : {"mode"}, mode : Modes]
  \cup [do : {"delta", "plan"}, turn : Nat, message : Nat, chunk : Nat]
  \cup [do : {"remember", "forget"}, turn : Nat, message : Nat]
  \cup [do : {"flush"}, message : Nat, fallback : Text]
  \cup [do : {"complete"}, message : Nat]
  \cup [do : {"upsert"}, turn : Nat, fallback : PlanPieces]
  \cup [do : {"session"}, status : {"ready", "stopped"}]
  \cup [do : {"finish"}, turn : Nat]
  \cup [do : {"clear"}]
  \cup [do : {"activity"}, kind : {"requested"}, request : Nat]
  \cup [do : {"activity"}, kind : {"resolved"}, request : Nat, decision : Decisions]

ActivityRow ==
       [kind : {"requested"}, request : Nat]
  \cup [kind : {"resolved"}, request : Nat, decision : Decisions]
  \cup [kind : {"failed"}, request : Nat,
        why : {"no session", "unknown approval request", "cannot recover", "cannot write"}]

Intent ==
  [do : {"answer"}, request : Nat, decision : Decisions] \cup [do : {"stop"}]

FiniteSetsOf(S) == {T \in SUBSET S : IsFiniteSet(T)}

Counts ==
  [turns : Nat, others : Nat, asks : Nat, answers : Nat, stops : Nat, deaths : Nat,
   failures : Nat]

Codexes ==
  [process : Nat, alive : BOOLEAN, turn : Nat, message : Nat, waiting : Nat]

Askings == [process : Nat, answers : Seq(Decisions)]
MessageLog == [turn : Nat, process : Nat, plan : BOOLEAN, chunks : Nat]

Threads ==
  [messages   : Table(Nat, [text : Text, state : {"streaming", "done"}]),
   plans      : Table(Nat, PlanPieces),
   activities : Seq(ActivityRow),
   status     : {"ready", "stopped"}]

Caches ==
  [mode   : Modes,
   buffer : Table(Nat, Text),
   ids    : Table(Nat, FiniteSetsOf(Nat)),
   plans  : Table(Nat, PlanPieces)]

Shape ==
  /\ scope \in Scopes /\ count \in Counts
  /\ codex \in Codexes /\ codex.process = Len(pipe) /\ codex.process # None
  /\ session \in {None, codex.process}
  /\ said \in Seq(MessageLog) /\ codex.message \in 0 .. Len(said)
  /\ codex.turn \in 0 .. count.turns
  /\ asked \in Seq(Askings) /\ Len(asked) = count.asks
  /\ pipe \in Seq(Seq(Line)) /\ events \in Seq(Event) /\ todo \in Seq(Operation)
  /\ intents \in Seq(Intent)
  /\ thread \in Threads /\ caches \in Caches
  /\ finished \subseteq Nat

MessageRow == [text : Text, state : {"streaming", "done"}]

-----------------------------------------------------------------------------
(* The answers of the user.  A request is unread, or pending, or answered; *)
(* what tells the thread of the answer is in one place: a "resolved" event *)
(* that waits, the operation of its handler, or the activity.              *)
EventPlaces(r) == {i \in DOMAIN events : events[i].type = "resolved" /\ events[i].request = r}
TodoPlaces(r)  == {i \in DOMAIN todo : /\ todo[i].do = "activity" /\ todo[i].kind = "resolved"
                                       /\ todo[i].request = r}
Untold(r) == EventPlaces(r) = {} /\ TodoPlaces(r) = {} /\ Resolved(r) = {}

One(S) == \A i, j \in S : i = j

ToldOnce(r) ==
  /\ One(EventPlaces(r)) /\ One(TodoPlaces(r)) /\ One(Resolved(r))
  /\ EventPlaces(r) # {} => TodoPlaces(r) = {} /\ Resolved(r) = {}
  /\ TodoPlaces(r) # {} => Resolved(r) = {}

(* The decision that is told is the answer, unless the process is gone. *)
Outcome(r, decision) ==
  /\ r \in DOMAIN asked
  /\ \/ asked[r].answers = << decision >>
     \/ asked[r].process # codex.process \/ ~codex.alive

Outcomes ==
  \A r \in Nat :
    /\ \A i \in EventPlaces(r) : Outcome(r, events[i].decision)
    /\ \A i \in TodoPlaces(r) : Outcome(r, todo[i].decision)
    /\ \A i \in Resolved(r) : Outcome(r, thread.activities[i].decision)

Unanswered(r) == r \in DOMAIN asked /\ asked[r].answers = << >> /\ Untold(r)

AskedOf(p, k, r) == pipe[p][k].type = "request" /\ pipe[p][k].request = r

UnreadOnce ==
  \A p \in Processes : \A k \in DOMAIN pipe[p] : \A r \in Nat :
    AskedOf(p, k, r) =>
      /\ Unanswered(r) /\ asked[r].process = p /\ << p, r >> \notin pending
      /\ \A j \in DOMAIN pipe[p] : AskedOf(p, j, r) => j = k

PendingOnce ==
  \A q \in pending :
    q[2] \in Nat /\ Unanswered(q[2]) /\ q = << asked[q[2]].process, q[2] >>

Answers ==
  /\ \A r \in DOMAIN asked : asked[r].process \in Processes /\ Len(asked[r].answers) <= 1
  /\ UnreadOnce /\ PendingOnce
  /\ \A r \in Nat : ToldOnce(r)
  /\ Outcomes

(* A step that moves nothing and answers nothing. *)
PlacesKept ==
  \A r \in Nat :
    /\ EventPlaces(r)' = EventPlaces(r) /\ TodoPlaces(r)' = TodoPlaces(r)
    /\ Resolved(r)' = Resolved(r)
    /\ \A i \in EventPlaces(r) : events'[i].decision = events[i].decision
    /\ \A i \in TodoPlaces(r) : todo'[i].decision = todo[i].decision
    /\ \A i \in Resolved(r) : thread'.activities[i].decision = thread.activities[i].decision

PipesKept ==
  \A p \in Processes' :
    \/ DOMAIN pipe'[p] = {}
    \/ p \in Processes /\ pipe'[p] = pipe[p]
    \/ /\ p \in Processes
       /\ \E n : /\ DOMAIN pipe'[p] = DOMAIN pipe[p] \cup {n}
                 /\ \A k \in DOMAIN pipe[p] : pipe'[p][k] = pipe[p][k] /\ k # n
                 /\ \A r \in Nat : AskedOf(p, n, r)' =>
                      r \notin DOMAIN asked /\ r \in DOMAIN asked' /\ asked'[r].process = p

-----------------------------------------------------------------------------
(* The handler of the end of a turn: what is open of each message of the   *)
(* turn is flushed and then completed.                                     *)
FlushOf(m)    == [do |-> "flush", message |-> m, fallback |-> << >>]
CompleteOf(m) == [do |-> "complete", message |-> m]
FinishOf(t)   == [do |-> "finish", turn |-> t]
UpsertOf(t)   == [do |-> "upsert", turn |-> t, fallback |-> << >>]
Sweeping(h, k, m) ==
  \/ h[k] = FlushOf(m) /\ h[k + 1] = CompleteOf(m)
  \/ h[k] = CompleteOf(m) /\ k > 2 /\ h[k - 1] = FlushOf(m)

(* What waits: the events, at << 0, i >>, and behind them the lines of the *)
(* pipes, at << p, k >>.  Two pipes are not ordered.                       *)
Waiting == {a \in Nat \X Nat : \/ a[1] = 0 /\ a[2] \in DOMAIN events
                               \/ a[1] \in Processes /\ a[2] \in DOMAIN pipe[a[1]]}
At(a) == IF a[1] = 0 THEN events[a[2]] ELSE pipe[a[1]][a[2]]
Ahead(a, b) == (a[1] = b[1] /\ a[2] < b[2]) \/ (a[1] = 0 /\ b[1] # 0)

(* What a step does to the queues: at most one entry is new, the others    *)
(* keep their order, and none is dropped but those that are gone.          *)
Moved(fresh, e, gone) ==
  \E old \in [Waiting' \ {fresh} -> Waiting] :
    /\ \A a \in Waiting' \ {fresh} : At(a)' = At(old[a]) /\ a[1] \in {0, old[a][1]}
    /\ \A a, b \in Waiting' \ {fresh} : /\ old[a] = old[b] => a = b
                                        /\ Ahead(old[a], old[b]) => Ahead(a, b)
    /\ \A c \in Waiting \ gone : \E a \in Waiting' \ {fresh} : old[a] = c
    /\ fresh \in Waiting' => At(fresh)' = e

(* A line, event or operation of a message. *)
Speaks(l) == l.type \in {"delta", "item"}

(* What codex said and what it says next. *)
SaidSound ==
  /\ \A m \in Messages :
       /\ said[m].turn \in 1 .. count.turns /\ said[m].process \in Processes
       /\ said[m].turn = codex.turn => said[m].process = codex.process
  /\ codex.message # None => said[codex.message].turn = codex.turn

(* What waits was said; a turn whose end waits is not codex's. *)
LineSound(l) ==
  /\ Speaks(l) => l.message \in Messages /\ said[l.message].turn = l.turn
  /\ l.type = "turn" => l.turn \in 1 .. count.turns /\ l.turn # codex.turn

WaitingSound ==
  \A a \in Waiting :
    /\ LineSound(At(a))
    /\ Speaks(At(a)) /\ a[1] # 0 => said[At(a).message].process = a[1]

(* The end of a turn waits behind all of its messages. *)
InOrder ==
  \A a, b \in Waiting :
    Speaks(At(a)) /\ At(b).type = "turn" /\ At(a).turn = At(b).turn => Ahead(a, b)

(* A message of the process the thread has. *)
Mine(m) == said[m].process = session

(* Something of a message is shown and not complete, or kept. *)
Open(m) == Message(m).state = "streaming" \/ m \in DOMAIN caches.buffer

(* The exit of a process waits before all of its successor. *)
ExitsFirst ==
  \A i \in DOMAIN events : events[i].type = "exited" =>
    \A b \in Waiting : Speaks(At(b)) /\ Mine(At(b).message) => Ahead(<< 0, i >>, b)

(* The exit of a process is not handled yet: nothing of the process that   *)
(* the thread has now is open.                                             *)
Exits == \/ \E i \in DOMAIN events : events[i].type = "exited"
         \/ \E i \in DOMAIN todo : todo[i].do = "clear"

ExitsAlone == Exits => \A m \in Messages : Mine(m) => ~Open(m)

(* The thread and the ingestion know only what was said. *)
KeysSaid == DOMAIN thread.messages \cup DOMAIN caches.buffer \subseteq Messages

(* Turn t is over: nothing of it comes any more. *)
Over(t) ==
  /\ t \in 1 .. count.turns /\ t # codex.turn
  /\ \A a \in Waiting : Speaks(At(a)) => At(a).turn # t

(* What the handlers under way have left to do. *)
MessageOf(m, t) == m \in Messages /\ said[m].turn = t /\ t \notin finished
Unhurried(m) == Mine(m) => ~Exits

(* ... the only operation of a handler, or its last one, ... *)
SingleForm ==
  \E op \in Operation :
    /\ todo = << op >>
    /\ \/ op.do \in {"mode", "session", "activity", "clear", "upsert"}
       \/ op.do = "plan" /\ op.turn \notin finished
       \/ op.do = "delta" /\ MessageOf(op.message, op.turn) /\ Unhurried(op.message)

(* ... the exit of a process, ... *)
ExitForm ==
  \E s \in Operation : s.do = "session" /\ todo = << s, [do |-> "clear"] >>

(* ... the completion of a message, ... *)
ItemForm ==
  \E m, t \in Nat, fallback \in Text :
    LET left == << [do |-> "remember", turn |-> t, message |-> m],
                   [do |-> "flush", message |-> m, fallback |-> fallback],
                   [do |-> "complete", message |-> m],
                   [do |-> "forget", turn |-> t, message |-> m] >>
    IN /\ MessageOf(m, t) /\ Unhurried(m)
       /\ \/ todo = left
          \/ todo = Tail(left) /\ m \in InTurn(t)
          \/ todo = Tail(Tail(left)) /\ m \in InTurn(t) /\ m \notin DOMAIN caches.buffer
          \/ todo = Tail(Tail(Tail(left))) /\ ~Open(m)

(* ... or the end of a turn: what is left sweeps all that is open of it.   *)
Sweeps(t) ==
  \A i \in 1 .. Len(todo) - 2 :
    \/ todo[i].do = "session"
    \/ \E m \in InTurn(t) :
         \/ todo[i] = CompleteOf(m)
         \/ todo[i] = FlushOf(m) /\ todo[i + 1] = CompleteOf(m)

Swept(t) ==
  \A m \in InTurn(t) :
    /\ m \in DOMAIN caches.buffer => \E i \in 1 .. Len(todo) - 2 : todo[i] = FlushOf(m)
    /\ Message(m).state = "streaming" =>
         \E i \in 1 .. Len(todo) - 2 : todo[i] = CompleteOf(m)

TurnForm ==
  \E t \in Nat :
    /\ Over(t) /\ todo # << >> /\ todo[Len(todo)] = UpsertOf(t)
    /\ Len(todo) > 1 => todo[Len(todo) - 1] = FinishOf(t) /\ Sweeps(t) /\ Swept(t)

TodoForm == todo = << >> \/ SingleForm \/ ExitForm \/ ItemForm \/ TurnForm

(* The ingestion remembers messages by their turns, ... *)
IdsSaid ==
  \A t \in DOMAIN caches.ids : \A m \in caches.ids[t] : m \in Messages /\ said[m].turn = t

(* ... what is open of the process the thread has is remembered, ... *)
OpenRemembered ==
  \A m \in Messages : Mine(m) /\ Open(m) => m \in InTurn(said[m].turn)

(* ... and nothing is of a turn that is finished. *)
FinishedOver ==
  \A t \in finished :
    /\ Over(t) /\ t \notin DOMAIN caches.ids
    /\ t \in DOMAIN caches.plans => todo = << UpsertOf(t) >>

(* The ingestion settles what is open of a turn that ends.                 *)
Settling ==
  /\ SaidSound /\ WaitingSound /\ InOrder /\ ExitsFirst /\ ExitsAlone /\ KeysSaid
  /\ TodoForm /\ IdsSaid /\ OpenRemembered /\ FinishedOver

(* What a step may do to what was said: more is, and no turn comes back.   *)
MoreSaid ==
  /\ \A m \in Messages :
       m \in Messages' /\ said'[m].turn = said[m].turn /\ said'[m].process = said[m].process
  /\ \A t \in 1 .. count.turns : t \in 1 .. count'.turns /\ (t # codex.turn => t # codex'.turn)

(* What a step may add to the queues: a line behind those of its turn, or  *)
(* an event that is no line.                                               *)
Placed(fresh, e) ==
  /\ Speaks(e) =>
       /\ fresh[1] # 0 /\ e.message \in Messages' /\ said'[e.message].turn = e.turn
       /\ said'[e.message].process = fresh[1] /\ e.turn = codex.turn
  /\ e.type = "turn" =>
       /\ e.turn \in 1 .. count'.turns /\ e.turn # codex'.turn
       /\ \A a \in Waiting' \ {fresh} :
            Speaks(At(a)') /\ At(a)'.turn = e.turn => Ahead(a, fresh)
  /\ e.type = "exited" => session' = None

-----------------------------------------------------------------------------
(* The chunks of a message that the ingestion has not worked in: those of  *)
(* the lines that wait, and the one that the handler under way has in hand.*)
Lines == {At(a) : a \in Waiting}
Left(m) == {l.chunk : l \in {n \in Lines : n.type = "delta" /\ n.message = m}}
Chunky(op) == op.do \in {"delta", "plan"}
InHand(m) == {todo[i].chunk : i \in {j \in DOMAIN todo : Chunky(todo[j]) /\ todo[j].message = m}}
Coming(m) == Left(m) \cup InHand(m)

(* The first chunk of a message is read; nothing of it waits; and nothing  *)
(* more of it comes.                                                       *)
Begun(m) == 1 \notin Left(m)
Unspoken(m) == \A l \in Lines : Speaks(l) => l.message # m
Silent(m) == codex.message # m /\ Unspoken(m)

(* What codex said has chunks, it speaks only the last message, and a turn *)
(* is of one process.                                                      *)
SaidMore ==
  /\ \A m \in Messages : said[m].chunks >= 1
  /\ codex.message \in {None, Len(said)}
  /\ \A m, n \in Messages : said[m].turn = said[n].turn => said[m].process = said[n].process

(* What waits of a message agrees with what codex said. *)
LineAgrees(l) ==
  /\ l.type = "delta" => /\ l.plan = said[l.message].plan
                         /\ l.chunk \in 1 .. said[l.message].chunks
  /\ l.type = "item" => /\ l.plan = said[l.message].plan
                        /\ l.chunks = said[l.message].chunks /\ codex.message # l.message

LinesAgree == \A l \in Lines : LineAgrees(l)

(* A process is heard in the order in which it spoke, chunk by chunk. *)
Rank(l) == IF l.type = "delta" THEN l.chunk ELSE l.chunks + 1
Before(l, n) == l.message < n.message \/ (l.message = n.message /\ Rank(l) < Rank(n))
Same(l, n) == Speaks(l) /\ Speaks(n) /\ said[l.message].process = said[n.message].process

InSequence ==
  \A a, b \in Waiting : Same(At(a), At(b)) =>
    /\ Before(At(a), At(b)) => Ahead(a, b)
    /\ At(a).message = At(b).message /\ Rank(At(a)) = Rank(At(b)) => a = b

(* What the handler under way has left agrees with what codex said: it has *)
(* the next chunk of a message in hand, or the message is silent.          *)
PlanOf(m) == [do |-> "upsert", turn |-> said[m].turn, fallback |-> WholePlan(m, said[m].chunks)]

OperationAgrees(i) ==
  LET op == todo[i] IN
  /\ op.do \in {"delta", "plan", "flush", "complete"} =>
       op.message \in Messages /\ (said[op.message].plan <=> op.do = "plan")
  /\ op.do = "remember" => op.message \in Messages /\ ~said[op.message].plan
  /\ Chunky(op) => /\ Len(todo) = 1 /\ said[op.message].turn = op.turn
                   /\ op.chunk \in 1 .. said[op.message].chunks
                   /\ \A c \in Left(op.message) : op.chunk < c
  /\ op.do \in {"flush", "complete"} => Silent(op.message)
  /\ op.do = "flush" => op.fallback \in {<< >>, Whole(said[op.message].chunks)}
  /\ op.do = "complete" => IF i = 1 THEN op.message \notin DOMAIN caches.buffer
                           ELSE todo[i-1].do = "flush" /\ todo[i-1].message = op.message
  /\ op.do = "upsert" =>
       \/ op.fallback = << >> /\ Over(op.turn)
       \/ Len(todo) = 1 /\ \E m \in Messages : op = PlanOf(m) /\ said[m].plan /\ Silent(m)

TodoAgrees == \A i \in DOMAIN todo : OperationAgrees(i)

(* The mode is one of the scope. *)
ModesSound ==
  /\ caches.mode \in scope.modes \cup {"buffered"}
  /\ \A l \in Lines : l.type = "mode" => l.mode \in scope.modes
  /\ \A i \in DOMAIN todo : todo[i].do = "mode" => todo[i].mode \in scope.modes

(* A plan is never a message of the thread. *)
Written ==
  /\ \A m \in DOMAIN thread.messages \cup DOMAIN caches.buffer : m \in Messages /\ ~said[m].plan
  /\ \A t \in DOMAIN caches.ids : \A m \in caches.ids[t] : m \in Messages /\ ~said[m].plan

(* What is left of a message is an end of it, ... *)
Remaining ==
  \A m \in Messages : Mine(m) => \E k \in 0 .. said[m].chunks : Coming(m) = k + 1 .. said[m].chunks

(* ... a message that has begun is behind the earlier ones, ... *)
Successive ==
  \A m, n \in Messages : Mine(m) /\ Mine(n) /\ m < n /\ Begun(n) =>
    Unspoken(m) /\ \A i \in DOMAIN todo : Chunky(todo[i]) => todo[i].message # m

(* ... and none has begun before the exit of the last process is handled.  *)
ExitsBefore == Exits => \A m \in Messages : Mine(m) => ~Begun(m)

(* The text of a message: every chunk is shown, buffered or still to come, *)
(* and it is complete only if none is buffered or to come.                 *)
Kept(m) ==
  /\ Range(Message(m).text) \cup Range(Buffered(caches, m)) \cup Coming(m) = 1 .. said[m].chunks
  /\ Message(m).state = "done" => Silent(m) /\ Coming(m) = {} /\ m \notin DOMAIN caches.buffer

(* Buffered throughout, it is a beginning in the buffer and the rest to    *)
(* come, or shown as a whole, and nothing can append to it.                *)
Fresh(m) ==
  /\ m \notin DOMAIN thread.messages
  /\ \E k \in 0 .. said[m].chunks :
       Coming(m) = k + 1 .. said[m].chunks /\ Buffered(caches, m) = Whole(k)

Settled(m) ==
  /\ Message(m).text = Whole(said[m].chunks) /\ m \notin DOMAIN caches.buffer
  /\ Silent(m) /\ Coming(m) = {}
  /\ \A i \in DOMAIN todo : todo[i].do = "flush" /\ todo[i].message = m => todo[i].fallback = << >>

TextKept ==
  \A m \in Messages : Mine(m) /\ ~said[m].plan =>
    /\ Kept(m)
    /\ scope.modes = {"buffered"} /\ said[m].chunks <= MaxBuffered => Fresh(m) \/ Settled(m)

(* The plan of a turn.  The end of the plan m has not passed: its          *)
(* completion waits, or codex speaks it still, or its turn is over and m   *)
(* was the last message of it.                                             *)
Ending(m) ==
  \/ \E l \in Lines : l.type = "item" /\ l.message = m
  \/ codex.message = m
  \/ /\ codex.turn # said[m].turn
     /\ \A n \in m + 1 .. Len(said) : said[n].turn # said[m].turn

Closing(m) == Ending(m) \/ \E i \in DOMAIN todo : todo[i] = PlanOf(m)

(* m is the plan in the cache, a beginning of it, the rest is to come, and *)
(* so is what proposes it; ...                                             *)
Flows(m) ==
  /\ Closing(m)
  /\ \E k \in 1 .. said[m].chunks :
       /\ Coming(m) = k + 1 .. said[m].chunks
       /\ Pieces(said[m].turn) = WholePlan(m, k)

(* ... or m was proposed and, if it is the last plan of its turn, is what  *)
(* the thread shows.                                                       *)
Proposed(m) ==
  /\ Silent(m) /\ Coming(m) = {} /\ \A i \in DOMAIN todo : todo[i] # PlanOf(m)
  /\ LastPlan(m) => /\ Pieces(said[m].turn) = << >>
                    /\ said[m].turn \in DOMAIN thread.plans
                    /\ thread.plans[said[m].turn] = WholePlan(m, said[m].chunks)

(* A plan is not begun, or it is in the cache, or it was proposed; and     *)
(* what the cache has is of one plan.                                      *)
PlansKept ==
  /\ \A m \in Messages : Mine(m) /\ said[m].plan =>
       \/ Coming(m) = 1 .. said[m].chunks /\ Closing(m)
       \/ Flows(m)
       \/ Proposed(m)
  /\ \A t \in DOMAIN caches.plans : Pieces(t) # << >> =>
       \E m \in Messages : said[m].turn = t /\ said[m].plan /\ (Mine(m) => Flows(m))

(* What codex said flows into the thread: no chunk is lost, doubled or out *)
(* of order on its way, as long as no command fails.                       *)
Flowing ==
  /\ SaidMore /\ LinesAgree /\ InSequence /\ TodoAgrees /\ ModesSound /\ Written
  /\ Remaining /\ Successive /\ ExitsBefore
  /\ count.failures = 0 => TextKept /\ PlansKept

-----------------------------------------------------------------------------
(* What a step outside the ingestion does to what is said and what waits.  *)
Heard ==
  /\ MoreSaid /\ SaidMore' /\ LinesAgree' /\ InSequence'
  /\ \A m \in Messages :
       /\ said'[m].plan = said[m].plan /\ (Mine(m)' => Mine(m))
       /\ said'[m].chunks >= said[m].chunks
       /\ \A c \in Left(m)' : c \in Left(m) \/ c > said[m].chunks
       /\ Silent(m) => Silent(m)' /\ said'[m].chunks = said[m].chunks
       /\ Mine(m)' =>
            /\ Ending(m) => Ending(m)'
            /\ \/ said'[m].chunks = said[m].chunks /\ Left(m)' = Left(m)
               \/ /\ said'[m].chunks = said[m].chunks + 1
                  /\ Left(m)' = Left(m) \cup {said'[m].chunks}
  /\ \A m \in Messages' \ Messages :
       Mine(m)' => said'[m].chunks = 1 /\ Left(m)' = {1} /\ Ending(m)'
  /\ \A m \in Messages, n \in Messages' : m < n /\ Unspoken(m) => Unspoken(m)'
  /\ \A l \in Lines' : /\ Speaks(l) => l \in Lines \/ l.turn = codex.turn
                       /\ l.type = "mode" => l \in Lines \/ l.mode \in scope.modes
  /\ \/ session' = session /\ (Exits' => Exits)
     \/ \A m \in Messages' : said'[m].process # session'

(* What a step outside the ingestion leaves as it is. *)
Aside ==
  /\ scope' = scope /\ count'.failures = count.failures /\ todo' = todo /\ caches' = caches
  /\ thread'.messages = thread.messages /\ thread'.plans = thread.plans

(* What the handler of an event has to do. *)
ToldBy(e, h, i) ==
  LET op == h[i]
  IN \/ op.do \in {"session", "clear", "activity"}
     \/ e.type = "mode" /\ op.do = "mode" /\ op.mode = e.mode
     \/ /\ e.type = "delta" /\ Len(h) = 1 /\ op.do = (IF e.plan THEN "plan" ELSE "delta")
        /\ op.turn = e.turn /\ op.message = e.message /\ op.chunk = e.chunk
     \/ /\ e.type = "item" /\ e.plan /\ Len(h) = 1
        /\ op = [do |-> "upsert", turn |-> e.turn, fallback |-> WholePlan(e.message, e.chunks)]
     \/ /\ e.type = "item" /\ ~e.plan
        /\ \/ op.do \in {"remember", "forget"} /\ op.message = e.message
           \/ op.do = "flush" /\ op.message = e.message /\ op.fallback = Whole(e.chunks)
           \/ /\ op = CompleteOf(e.message) /\ i # 1
              /\ h[i - 1].do = "flush" /\ h[i - 1].message = e.message
     \/ /\ e.type = "turn"
        /\ \/ \E m \in InTurn(e.turn) : \/ op = FlushOf(m)
                                        \/ op = CompleteOf(m) /\ i # 1 /\ h[i - 1] = FlushOf(m)
           \/ op = FinishOf(e.turn)
           \/ op = UpsertOf(e.turn)

(* An operation leaves what is to come, but for a chunk that was in hand. *)
Stays ==
  /\ todo # << >> /\ (todo' = Tail(todo) \/ todo' = << >>)
  /\ UNCHANGED << scope, said, codex, pipe, session, events >>
==============================================================================
