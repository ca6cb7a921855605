--------------------------- MODULE ClientSync_proofs ---------------------------
(***************************************************************************)
(* The web client follows the log, for any number of texts, requests and   *)
(* faults: its view is a prefix of the log that only grows.                *)
(*                                                                         *)
(* The argument: the snapshot request EventRouter awaits was made after    *)
(* the one whose answer it shows, and its id is used by nothing else, so   *)
(* the answer it accepts was read from a log at least as long.             *)
(*                                                                         *)
(* And a text is sent no more often than its failure was reported: its     *)
(* copies, in the composer, under way and in the thread, are counted.      *)
(***************************************************************************)
EXTENDS ClientSync, FiniteSetTheorems, TLAPS

(* What the argument needs to know of the variables' types. *)
Packet == [type : {"welcome", "event", "response"}, id : Ids \cup {0}, n : Answer]

Typed ==
  /\ log \in Seq(Message \cup {NoMessage}) /\ {view, published} \subseteq 0 .. Len(log)
  /\ waiting \subseteq Request /\ fibers \subseteq Fiber
  /\ down \in Seq(Packet)
  /\ fetching \in Ids \cup {NoRequest}

(* An answer that is at least as new as the view. *)
NotOld(n) == n = Refused \/ n \in view .. Len(log)

WaitingFetches == \A r \in waiting : r.id = fetching => IsFetch(r)

FibersFetch == \A f \in fibers :
                 f.request.id = fetching =>
                   IsFetch(f.request) /\ (f.answer = NoAnswer \/ NotOld(f.answer))

AnswersNew == \A i \in DOMAIN down :
                down[i].type = "response" =>
                  down[i].id \in Ids /\ (down[i].id = fetching => NotOld(down[i].n))

(* What the composer and the message in flight hold. *)
Composed ==
  /\ prompt \in Texts \cup {NoText} /\ typed \in 0 .. MaxTexts
  /\ sending \in Message \cup {NoMessage}

(* The inductive invariant of the requests; that a message which is sent   *)
(* is one follows from Composed.                                           *)
IInv == Typed /\ WaitingFetches /\ FibersFetch /\ AnswersNew

-----------------------------------------------------------------------------
(* Constants and data. *)

LEMMA IdsPositive == Ids \subseteq Nat \ {0}
BY ClientAssumption DEF Ids

(* An id a request is given is one nothing refers to. *)
LEMMA NextIdFresh ==
  ASSUME ~(Ids \subseteq InUse)
  PROVE  nextId \in Ids /\ nextId \notin InUse
<1>1. \E id \in Ids : id \notin InUse
  OBVIOUS
<1>. QED  BY <1>1 DEF nextId

(* A request is issued with a fresh id and no answer yet. *)
LEMMA IssueSteps ==
  ASSUME Typed, NEW message \in Message \cup {NoMessage}, Issue(message)
  PROVE  /\ nextId \in Ids /\ nextId # fetching
         /\ \A r \in waiting : r.id # nextId
         /\ \A f \in fibers : f.request.id # nextId
         /\ \A i \in DOMAIN down : down[i].id # nextId
         /\ waiting' \subseteq Request /\ fibers' \subseteq Fiber
         /\ \A r \in waiting' : r \in waiting \/ (r.id = nextId /\ r.message = message)
         /\ \A f \in fibers' : \/ f \in fibers
                               \/ /\ f.request.id = nextId /\ f.request.message = message
                                  /\ f.answer = NoAnswer
<1> DEFINE r == [id |-> nextId, message |-> message]
           f == [request |-> r, answer |-> NoAnswer, live |-> TRUE]
<1>1. nextId \in Ids /\ nextId \notin InUse
  BY NextIdFresh DEF Issue
<1>2. /\ nextId # fetching
      /\ \A q \in waiting : q.id # nextId
      /\ \A g \in fibers : g.request.id # nextId
      /\ \A i \in DOMAIN down : down[i].id # nextId
  BY <1>1 DEF InUse
<1>3. r \in Request /\ r.id = nextId /\ r.message = message
  BY <1>1 DEF Request
<1>4. /\ f \in Fiber /\ f.request = r /\ f.answer = NoAnswer
  BY <1>3 DEF Fiber
<1>5. \/ fibers' = fibers \cup {f} /\ waiting' = waiting
      \/ fibers' = fibers /\ waiting' = waiting \cup {r}
  BY DEF Issue, Transmit
<1> HIDE DEF r, f
<1>. QED  BY <1>1, <1>2, <1>3, <1>4, <1>5 DEF Typed

-----------------------------------------------------------------------------
(* The steps, by what they do to the requests. *)

(* A step that leaves the view, the awaited request and the answers of     *)
(* fibers alone, and loses messages and requests at most.                  *)
LEMMA LosingSteps ==
  ASSUME IInv, UNCHANGED <<view, fetching>>,
         log' \in Seq(Message \cup {NoMessage}), Len(log') >= Len(log),
         published' \in 0 .. Len(log'),
         waiting' \subseteq waiting,
         fibers' \subseteq Fiber,
         \A f \in fibers' : \/ f \in fibers
                            \/ \E g \in fibers : /\ f.request = g.request
                                                 /\ f.answer = g.answer
                            \/ f.request \in waiting /\ f.answer = NoAnswer,
         down' \in Seq(Packet),
         \A i \in DOMAIN down' : \/ down'[i].type # "response"
                                 \/ \E j \in DOMAIN down : down'[i] = down[j]
  PROVE  IInv'
<1>1. Len(log) \in Nat /\ Len(log') \in Nat
  BY DEF IInv, Typed
<1>2. Typed'
  BY <1>1 DEF IInv, Typed
<1>3. WaitingFetches'
  BY DEF IInv, WaitingFetches, IsFetch
<1>4. \A n : NotOld(n) => NotOld(n)'
  BY <1>1 DEF NotOld, IInv, Typed
<1>5. FibersFetch'
  BY <1>4 DEF IInv, FibersFetch, WaitingFetches, IsFetch
<1>6. AnswersNew'
  BY <1>4 DEF IInv, AnswersNew
<1>. QED  BY <1>2, <1>3, <1>5, <1>6 DEF IInv

(* The first message of the socket is taken off. *)
LEMMA ReceiveSteps ==
  ASSUME Typed, NEW type, Receive(type)
  PROVE  /\ Head(down) \in Packet /\ Head(down) = down[1] /\ 1 \in DOMAIN down
         /\ down' \in Seq(Packet)
         /\ \A i \in DOMAIN down' : \E j \in DOMAIN down : down'[i] = down[j]
         /\ UNCHANGED <<log, published>> /\ Head(down).type = type
<1>1. /\ down \in Seq(Packet) /\ down # << >> /\ down' = Tail(down)
      /\ UNCHANGED <<log, published>>
      /\ Head(down).type = type
  BY DEF Typed, Receive
<1>2. Len(down) \in Nat /\ Len(down) > 0 /\ DOMAIN down = 1 .. Len(down)
  BY <1>1
<1>3. Head(down) = down[1] /\ down[1] \in Packet /\ 1 \in DOMAIN down
  BY <1>1, <1>2
<1>4. /\ down' \in Seq(Packet) /\ DOMAIN down' = 1 .. Len(down) - 1
      /\ \A i \in 1 .. Len(down) - 1 : down'[i] = down[i + 1] /\ i + 1 \in DOMAIN down
  BY <1>1, <1>2
<1>. QED  BY <1>1, <1>3, <1>4

(* A new snapshot request is awaited: nothing answers it yet. *)
LEMMA FetchSteps ==
  ASSUME IInv, Issue(NoMessage), fetching' = nextId, UNCHANGED <<log, published>>,
         view' \in 0 .. Len(log),
         down' \in Seq(Packet),
         \A i \in DOMAIN down' : \E j \in DOMAIN down : down'[i] = down[j]
  PROVE  IInv'
<1>1. /\ nextId \in Ids
      /\ \A r \in waiting : r.id # nextId
      /\ \A f \in fibers : f.request.id # nextId
      /\ \A i \in DOMAIN down : down[i].id # nextId
      /\ waiting' \subseteq Request /\ fibers' \subseteq Fiber
      /\ \A r \in waiting' : r \in waiting \/ (r.id = nextId /\ r.message = NoMessage)
      /\ \A f \in fibers' : \/ f \in fibers
                            \/ /\ f.request.id = nextId /\ f.request.message = NoMessage
                               /\ f.answer = NoAnswer
  BY IssueSteps DEF IInv
<1>2. Typed'
  BY <1>1 DEF IInv, Typed
<1>3. WaitingFetches'
  BY <1>1 DEF WaitingFetches, IsFetch
<1>4. FibersFetch'
  BY <1>1 DEF FibersFetch, IsFetch
<1>5. AnswersNew'
  BY <1>1 DEF IInv, AnswersNew
<1>. QED  BY <1>2, <1>3, <1>4, <1>5 DEF IInv

(* No snapshot is awaited any more. *)
LEMMA IdleSteps ==
  ASSUME IInv, fetching' = NoRequest, UNCHANGED <<log, published>>, view' \in 0 .. Len(log),
         waiting' \subseteq waiting, fibers' = fibers, down' \in Seq(Packet),
         \A i \in DOMAIN down' : \E j \in DOMAIN down : down'[i] = down[j]
  PROVE  IInv'
<1>1. NoRequest \notin Ids
  BY IdsPositive DEF NoRequest
<1>2. Typed'
  BY DEF IInv, Typed
<1>3. WaitingFetches' /\ FibersFetch'
  BY <1>1, <1>2 DEF Typed, WaitingFetches, FibersFetch, Request, Fiber
<1>4. AnswersNew'
  BY <1>1 DEF IInv, AnswersNew
<1>. QED  BY <1>2, <1>3, <1>4 DEF IInv

-----------------------------------------------------------------------------
(* The invariant holds initially and is kept by every action. *)

THEOREM InitIInv == Init => IInv
<1> SUFFICES ASSUME Init PROVE IInv
  OBVIOUS
<1>1. /\ log = << >> /\ view = 0 /\ published = 0 /\ fibers = {} /\ down = << >> /\ fetching = 1
      /\ waiting = {[id |-> 1, message |-> NoMessage]}
  BY DEF Init
<1>2. 1 \in Ids
  BY ClientAssumption DEF Ids
<1>. QED  BY <1>1, <1>2 DEF IInv, Typed, WaitingFetches, FibersFetch, AnswersNew, IsFetch, Request

(* The server and the socket. *)

LEMMA AnswersType ==
  ASSUME Typed, NEW f \in fibers, NEW answer \in Answer, Answers(f, answer)
  PROVE  /\ fibers' \subseteq Fiber
         /\ \A g \in fibers' : \/ g \in fibers
                               \/ g.request = f.request /\ g.answer = answer
<1> DEFINE g == [f EXCEPT !.answer = answer]
<1>1. f \in Fiber
  BY DEF Typed
<1>2. g \in Fiber /\ g.request = f.request /\ g.answer = answer
  BY <1>1 DEF Fiber
<1>3. fibers' = (fibers \ {f}) \cup {g}
  BY DEF Answers
<1> HIDE DEF g
<1>. QED  BY <1>2, <1>3 DEF Typed

(* What a fiber answers to the awaited request is at least as new. *)
LEMMA AnswerSteps ==
  ASSUME IInv, NEW f \in fibers, NEW answer \in Answer, Answers(f, answer),
         log' \in Seq(Message \cup {NoMessage}), Len(log') >= Len(log),
         f.request.id = fetching => answer = Refused \/ answer \in view .. Len(log'),
         UNCHANGED <<view, fetching, waiting, down, published>>
  PROVE  IInv'
<1>1. /\ fibers' \subseteq Fiber
      /\ \A g \in fibers' : \/ g \in fibers
                            \/ g.request = f.request /\ g.answer = answer
  BY AnswersType DEF IInv
<1>2. Len(log) \in Nat /\ Len(log') \in Nat
  BY DEF IInv, Typed
<1>3. Typed'
  BY <1>1, <1>2 DEF IInv, Typed
<1>4. WaitingFetches'
  BY DEF IInv, WaitingFetches, IsFetch
<1>5. \A n : NotOld(n) => NotOld(n)'
  BY <1>2 DEF NotOld, IInv, Typed
<1>6. FibersFetch'
  BY <1>1, <1>5 DEF IInv, FibersFetch, NotOld, IsFetch
<1>7. AnswersNew'
  BY <1>5 DEF IInv, AnswersNew
<1>. QED  BY <1>3, <1>4, <1>6, <1>7 DEF IInv

LEMMA ReadSnapshotKeeps == ASSUME IInv, NEW f \in fibers, ReadSnapshot(f) PROVE IInv'
<1>1. log' = log /\ Len(log) \in Nat /\ view \in 0 .. Len(log) /\ log \in Seq(Message \cup {NoMessage})
  BY DEF ReadSnapshot, IInv, Typed
<1>2. UNCHANGED <<view, fetching, waiting, down, published>>
  BY DEF ReadSnapshot, transport, router, socket
<1>3. CASE Answers(f, Len(log))
  <2>1. Len(log) \in Answer /\ Len(log) \in view .. Len(log')
    BY <1>1 DEF Answer
  <2>. QED  BY <1>1, <1>2, <1>3, <2>1, AnswerSteps
<1>4. CASE Answers(f, Refused)
  <2>1. Refused \in Answer
    BY DEF Answer
  <2>. QED  BY <1>1, <1>2, <1>4, <2>1, AnswerSteps
<1>. QED  BY <1>3, <1>4 DEF ReadSnapshot

LEMMA DispatchKeeps ==
  ASSUME IInv, NEW f \in fibers, Dispatch(f)
  PROVE  /\ IInv' /\ view' = view
         /\ log' = log \/ \E e \in Message \cup {NoMessage} : log' = Append(log, e)
<1>1. /\ Len(log) \in Nat /\ log \in Seq(Message \cup {NoMessage})
      /\ f.request.message \in Message \cup {NoMessage}
  BY DEF IInv, Typed, Fiber, Request
<1>2. UNCHANGED <<view, fetching, waiting, down, published>>
  BY DEF Dispatch, transport, router, socket
<1>3. f.request.id # fetching
  BY DEF Dispatch, IInv, FibersFetch
<1>4. CASE log' = Append(log, f.request.message) /\ Answers(f, Len(log'))
  <2>1. /\ log' \in Seq(Message \cup {NoMessage}) /\ Len(log') = Len(log) + 1
        /\ Len(log') \in Answer
    BY <1>1, <1>4 DEF Answer
  <2>2. IInv'
    BY <1>1, <1>2, <1>3, <1>4, <2>1, AnswerSteps
  <2>. QED  BY <1>1, <1>2, <1>4, <2>2
<1>5. CASE log' = log /\ Answers(f, Refused)
  <2>1. Refused \in Answer
    BY DEF Answer
  <2>2. IInv'
    BY <1>1, <1>2, <1>3, <1>5, <2>1, AnswerSteps
  <2>. QED  BY <1>2, <1>5, <2>2
<1>. QED  BY <1>4, <1>5 DEF Dispatch

LEMMA RespondKeeps == ASSUME IInv, NEW f \in fibers, Respond(f) PROVE IInv'
<1>1. /\ f \in Fiber /\ f.answer # NoAnswer /\ fibers' = fibers \ {f}
      /\ UNCHANGED <<log, published, view, fetching, waiting>>
      /\ down' = IF f.live THEN Append(down, Reply(f)) ELSE down
  BY DEF Respond, IInv, Typed, transport, router
<1>2. /\ Reply(f) \in Packet /\ Reply(f).id \in Ids /\ Reply(f).id = f.request.id
      /\ Reply(f).n = f.answer
  BY <1>1 DEF Reply, Packet, Fiber, Request
<1>3. down \in Seq(Packet)
  BY DEF IInv, Typed
<1>4. down' \in Seq(Packet)
  BY <1>1, <1>2, <1>3
<1>5. \A i \in DOMAIN down' : (i \in DOMAIN down /\ down'[i] = down[i]) \/ down'[i] = Reply(f)
  BY <1>1, <1>2, <1>3
<1>6. Typed'
  BY <1>1, <1>4 DEF IInv, Typed
<1>7. WaitingFetches' /\ FibersFetch'
  BY <1>1 DEF IInv, WaitingFetches, FibersFetch, NotOld, IsFetch
<1>8. f.request.id = fetching => NotOld(f.answer)
  BY <1>1 DEF IInv, FibersFetch
<1>9. AnswersNew'
  BY <1>1, <1>2, <1>5, <1>8 DEF IInv, AnswersNew, NotOld
<1>. QED  BY <1>6, <1>7, <1>9 DEF IInv

(* A push that is appended to the socket is no answer. *)
LEMMA PushType ==
  ASSUME Typed, NEW p \in Packet, p.type # "response",
         down' = Append(down, p) \/ down' = down
  PROVE  /\ down' \in Seq(Packet)
         /\ \A i \in DOMAIN down' : \/ down'[i].type # "response"
                                    \/ \E j \in DOMAIN down : down'[i] = down[j]
<1>1. down \in Seq(Packet)
  BY DEF Typed
<1>2. down' \in Seq(Packet)
  BY <1>1
<1>3. \A i \in DOMAIN down' : (i \in DOMAIN down /\ down'[i] = down[i]) \/ down'[i] = p
  BY <1>1
<1>. QED  BY <1>2, <1>3

LEMMA PublishKeeps == ASSUME IInv, Publish PROVE IInv'
<1>1. /\ UNCHANGED <<log, fibers, waiting, view, fetching>>
      /\ published' \in 1 .. Len(log)
      /\ down' = Append(down, Event(published')) \/ down' = down
  BY DEF Publish, transport, router, IInv, Typed
<1>2. Event(published') \in Packet /\ Event(published').type # "response"
  BY <1>1 DEF Event, Packet, Answer, IInv, Typed
<1>3. /\ down' \in Seq(Packet)
      /\ \A i \in DOMAIN down' : \/ down'[i].type # "response"
                                 \/ \E j \in DOMAIN down : down'[i] = down[j]
  BY <1>1, <1>2, PushType DEF IInv
<1>. QED  BY <1>1, <1>3, LosingSteps DEF IInv, Typed

LEMMA CommitOtherKeeps ==
  ASSUME IInv, CommitOther
  PROVE  IInv' /\ view' = view /\ log' = Append(log, NoMessage)
<1>1. /\ UNCHANGED <<fibers, published, down, waiting, view, fetching>>
      /\ log' = Append(log, NoMessage)
  BY DEF CommitOther, socket, transport, router
<1>2. log' \in Seq(Message \cup {NoMessage}) /\ Len(log') = Len(log) + 1 /\ Len(log) \in Nat
  BY <1>1 DEF IInv, Typed
<1>3. published' \in 0 .. Len(log')
  BY <1>1, <1>2 DEF IInv, Typed
<1>. QED  BY <1>1, <1>2, <1>3, LosingSteps DEF IInv, Typed

LEMMA CrashKeeps == ASSUME IInv, Crash PROVE IInv'
<1>1. /\ fibers' = {} /\ published' = Len(log) /\ down' = << >>
      /\ UNCHANGED <<log, waiting, view, fetching>>
  BY DEF Crash, transport, router
<1>2. down' \in Seq(Packet) /\ DOMAIN down' = {} /\ Len(log) \in Nat
  BY <1>1 DEF IInv, Typed
<1>. QED  BY <1>1, <1>2, LosingSteps DEF IInv, Typed

LEMMA ConnectKeeps == ASSUME IInv, Connect PROVE IInv'
<1>1. down' = <<Welcome>> /\ UNCHANGED <<log, published, fibers, waiting, view, fetching>>
  BY DEF Connect, server, transport, router
<1>2. Welcome \in Packet /\ Welcome.type # "response"
  BY DEF Welcome, Packet, Answer
<1>3. down' \in Seq(Packet) /\ \A i \in DOMAIN down' : down'[i].type # "response"
  BY <1>1, <1>2
<1>. QED  BY <1>1, <1>3, LosingSteps DEF IInv, Typed

LEMMA DropKeeps == ASSUME IInv, Drop PROVE IInv'
<1>1. /\ down' = << >> /\ UNCHANGED <<log, published, waiting, view, fetching>>
      /\ \E lost \in SUBSET fibers :
           fibers' = {[f EXCEPT !.live = FALSE] : f \in fibers \ lost}
  BY DEF Drop, transport, router
<1>2. \A f \in fibers : LET g == [f EXCEPT !.live = FALSE]
                        IN g \in Fiber /\ g.request = f.request /\ g.answer = f.answer
  BY DEF IInv, Typed, Fiber
<1>3. /\ fibers' \subseteq Fiber
      /\ \A g \in fibers' : \E f \in fibers : g.request = f.request /\ g.answer = f.answer
  BY <1>1, <1>2
<1>4. down' \in Seq(Packet) /\ DOMAIN down' = {}
  BY <1>1
<1>. QED  BY <1>1, <1>3, <1>4, LosingSteps DEF IInv, Typed

LEMMA SendWaitingKeeps == ASSUME IInv, NEW r \in waiting, SendWaiting(r) PROVE IInv'
<1> DEFINE f == [request |-> r, answer |-> NoAnswer, live |-> TRUE]
<1>1. /\ waiting' = waiting \ {r} /\ fibers' = fibers \cup {f}
      /\ UNCHANGED <<log, published, down, view, fetching>>
  BY DEF SendWaiting, Transmit, socket, router
<1>2. f \in Fiber /\ f.request = r /\ f.answer = NoAnswer
  BY DEF Fiber, IInv, Typed
<1> HIDE DEF f
<1>3. fibers' \subseteq Fiber /\ \A g \in fibers' : g \in fibers \/ g = f
  BY <1>1, <1>2 DEF IInv, Typed
<1>. QED  BY <1>1, <1>2, <1>3, LosingSteps DEF IInv, Typed

(* The client. *)

LEMMA QuietKeeps ==
  ASSUME IInv, NEW type, Receive(type), UNCHANGED <<view, fetching>>, NothingIssued
  PROVE  IInv'
BY ReceiveSteps, LosingSteps DEF IInv, Typed, NothingIssued

LEMMA SyncKeeps ==
  ASSUME IInv, NEW type, Receive(type), UNCHANGED view, SyncSnapshot
  PROVE  IInv'
<1>1. CASE syncing
  BY <1>1, QuietKeeps DEF SyncSnapshot
<1>2. CASE ~syncing
  <2>1. fetching' = nextId /\ Issue(NoMessage)
    BY <1>2 DEF SyncSnapshot
  <2>2. /\ down' \in Seq(Packet) /\ UNCHANGED <<log, published>>
        /\ \A i \in DOMAIN down' : \E j \in DOMAIN down : down'[i] = down[j]
    BY ReceiveSteps DEF IInv
  <2>3. view' \in 0 .. Len(log)
    BY DEF IInv, Typed
  <2>. QED  BY <2>1, <2>2, <2>3, FetchSteps
<1>. QED  BY <1>1, <1>2

LEMMA ReceivePushKeeps ==
  ASSUME IInv, ReceiveWelcome \/ ReceiveEvent
  PROVE  IInv' /\ UNCHANGED <<log, view>>
<1>1. /\ Receive("welcome") \/ Receive("event")
      /\ SyncSnapshot \/ (UNCHANGED fetching /\ NothingIssued)
      /\ UNCHANGED view
  BY DEF ReceiveWelcome, ReceiveEvent
<1>2. IInv'
  BY <1>1, SyncKeeps, QuietKeeps
<1>. QED  BY <1>1, <1>2 DEF Receive

(* The step that moves the view: the answer that is accepted is the one to *)
(* the awaited request, so it is not old.                                  *)
LEMMA ReceiveSnapshotKeeps ==
  ASSUME IInv, ReceiveSnapshot
  PROVE  IInv' /\ log' = log /\ view' \in view .. Len(log)
<1>1. /\ Head(down).type = "response" /\ Head(down).id = fetching /\ Head(down).n # Refused
      /\ view' = Head(down).n /\ Receive("response")
  BY DEF ReceiveSnapshot, Awaited, Receive
<1>2. /\ Head(down) = down[1] /\ 1 \in DOMAIN down
      /\ down' \in Seq(Packet) /\ UNCHANGED <<log, published>>
      /\ \A i \in DOMAIN down' : \E j \in DOMAIN down : down'[i] = down[j]
  BY <1>1, ReceiveSteps DEF IInv
<1>3. view' \in view .. Len(log)
  BY <1>1, <1>2 DEF IInv, AnswersNew, NotOld
<1>4. view' \in 0 .. Len(log)
  BY <1>3 DEF IInv, Typed
<1>5. CASE resync
  <2>1. fetching' = nextId /\ Issue(NoMessage)
    BY <1>5 DEF ReceiveSnapshot
  <2>. QED  BY <1>2, <1>3, <1>4, <2>1, FetchSteps
<1>6. CASE ~resync
  <2>1. fetching' = NoRequest /\ NothingIssued
    BY <1>6 DEF ReceiveSnapshot
  <2>. QED  BY <1>2, <1>3, <1>4, <2>1, IdleSteps DEF NothingIssued
<1>. QED  BY <1>5, <1>6

LEMMA ReceiveOtherKeeps ==
  ASSUME IInv, ReceiveNoSnapshot \/ ReceiveStale \/ ReceiveDispatched
  PROVE  IInv' /\ UNCHANGED <<log, view>>
<1>1. /\ Receive("response") /\ NothingIssued /\ UNCHANGED view
      /\ fetching' = fetching \/ fetching' = NoRequest
  BY DEF ReceiveNoSnapshot, ReceiveStale, ReceiveDispatched, SyncFails, router
<1>2. CASE fetching' = fetching
  BY <1>1, <1>2, QuietKeeps DEF Receive
<1>3. CASE fetching' = NoRequest
  <2>1. /\ down' \in Seq(Packet) /\ UNCHANGED <<log, published>>
        /\ \A i \in DOMAIN down' : \E j \in DOMAIN down : down'[i] = down[j]
    BY <1>1, ReceiveSteps DEF IInv
  <2>2. view' \in 0 .. Len(log)
    BY <1>1 DEF IInv, Typed
  <2>. QED  BY <1>1, <1>3, <2>1, <2>2, IdleSteps DEF NothingIssued
<1>. QED  BY <1>1, <1>2, <1>3

(* The same socket, and no other change of the view than forgetting what   *)
(* is awaited.                                                             *)
LEMMA ForgettingSteps ==
  ASSUME IInv, UNCHANGED <<server, socket, view>>, waiting' \subseteq waiting,
         fetching' = fetching \/ fetching' = NoRequest
  PROVE  IInv'
<1>1. /\ UNCHANGED <<log, published, fibers, down>> /\ down \in Seq(Packet)
      /\ view' \in 0 .. Len(log) /\ fibers \subseteq Fiber
  BY DEF server, socket, IInv, Typed
<1>2. CASE fetching' = fetching
  BY <1>1, <1>2, LosingSteps DEF IInv, Typed
<1>3. CASE fetching' = NoRequest
  BY <1>1, <1>3, IdleSteps
<1>. QED  BY <1>2, <1>3

LEMMA TimeoutKeeps ==
  ASSUME IInv, TimeoutLost \/ TimeoutSlow
  PROVE  IInv' /\ UNCHANGED <<log, view>>
<1>1. /\ UNCHANGED <<server, socket, view>> /\ waiting' \subseteq waiting
      /\ fetching' = fetching \/ fetching' = NoRequest
  BY DEF TimeoutLost, TimeoutSlow, SyncExpires, SendExpires, Expires, SyncFails, router
<1>. QED  BY <1>1, ForgettingSteps DEF server

LEMMA TypeTextKeeps == ASSUME IInv, TypeText PROVE IInv' /\ UNCHANGED <<log, view>>
BY ForgettingSteps DEF TypeText, server, router, transport

LEMMA RemountKeeps == ASSUME IInv, Remount PROVE IInv' /\ UNCHANGED <<log, view>>
<1>1. /\ UNCHANGED <<log, published, down, view>> /\ fetching' = nextId /\ Issue(NoMessage)
  BY DEF Remount, socket
<1>. QED  BY <1>1, FetchSteps DEF IInv, Typed

(* A message is sent under an id that is not the awaited request's. *)
LEMMA SendKeeps == ASSUME IInv, Composed, Send PROVE IInv' /\ UNCHANGED <<log, view>>
<1> DEFINE m == [text |-> prompt, id |-> nextId]
<1>1. /\ Issue(m) /\ UNCHANGED <<log, published, down, view, fetching>>
      /\ prompt \in Texts
  BY DEF Send, socket, router, Composed
<1>2. nextId \in Ids
  BY <1>1, NextIdFresh DEF Issue
<1>3. m \in Message
  BY <1>1, <1>2 DEF Message
<1> HIDE DEF m
<1>4. /\ nextId # fetching
      /\ waiting' \subseteq Request /\ fibers' \subseteq Fiber
      /\ \A r \in waiting' : r \in waiting \/ r.id = nextId
      /\ \A f \in fibers' : f \in fibers \/ f.request.id = nextId
  BY <1>1, <1>3, IssueSteps DEF IInv
<1>5. Typed'
  BY <1>1, <1>4 DEF IInv, Typed
<1>6. WaitingFetches' /\ FibersFetch' /\ AnswersNew'
  BY <1>1, <1>4 DEF IInv, WaitingFetches, FibersFetch, AnswersNew, NotOld, IsFetch
<1>. QED  BY <1>1, <1>5, <1>6 DEF IInv

(* What the composer and the message in flight hold. *)
LEMMA ComposedSteps == ASSUME Composed, [Next]_vars PROVE Composed'
<1>1. CASE UNCHANGED <<prompt, sending, typed>>
  BY <1>1 DEF Composed
<1>2. CASE TypeText
  <2>1. typed' \in 1 .. MaxTexts /\ prompt' = typed' /\ sending' = sending
    BY <1>2, ClientAssumption DEF TypeText, Composed
  <2>. QED  BY <2>1, ClientAssumption DEF Composed, Texts
<1>3. CASE Send
  <2>1. nextId \in Ids /\ prompt \in Texts
    BY <1>3, NextIdFresh DEF Send, Issue, Composed
  <2>2. sending' \in Message /\ prompt' = NoText /\ typed' = typed
    BY <1>3, <2>1 DEF Send, Message
  <2>. QED  BY <2>2 DEF Composed
<1>4. CASE SendFailed
  <2>1. sending.text \in Texts \cup {NoText}
    BY DEF Composed, Message, NoMessage
  <2>2. prompt' \in Texts \cup {NoText}
    BY <1>4, <2>1 DEF SendFailed, Composed
  <2>. QED  BY <1>4, <2>2 DEF SendFailed, Composed
<1>5. CASE Server
  BY <1>1, <1>5 DEF Server, Handle, Publish, ReadSnapshot, Dispatch, Respond, composer
<1>6. CASE Receives
  <2>1. CASE ReceiveWelcome \/ ReceiveEvent \/ ReceiveStale
    BY <1>1, <2>1 DEF ReceiveWelcome, ReceiveEvent, ReceiveStale, composer
  <2>2. CASE ReceiveSnapshot \/ ReceiveNoSnapshot
    BY <1>1, <2>2 DEF ReceiveSnapshot, ReceiveNoSnapshot, SyncFails, composer, Composed
  <2>3. CASE ReceiveDispatched
    BY <1>1, <1>4, <2>3 DEF ReceiveDispatched
  <2>. QED  BY <1>6, <2>1, <2>2, <2>3 DEF Receives
<1>7. CASE Flush \/ Connect
  BY <1>1, <1>7 DEF Flush, SendWaiting, Connect, composer
<1>8. CASE Environment \/ TimeoutLost
  <2>1. CASE CommitOther \/ Crash \/ Drop \/ Remount
    BY <1>1, <2>1 DEF CommitOther, Crash, Drop, Remount, composer
  <2>2. CASE TimeoutLost \/ TimeoutSlow
    BY <1>1, <1>4, <2>2
       DEF TimeoutLost, TimeoutSlow, SyncExpires, SendExpires, SyncFails, composer
  <2>. QED  BY <1>8, <2>1, <2>2 DEF Environment
<1>9. CASE UNCHANGED vars
  BY <1>1, <1>9 DEF vars, composer
<1>. QED  BY <1>2, <1>3, <1>5, <1>6, <1>7, <1>8, <1>9 DEF Next, User

(* The invariant, and how a step looks to the follower of the log. *)
LEMMA NextKeeps ==
  ASSUME IInv, Composed, [Next]_vars
  PROVE  IInv' /\ [Follower!Next]_(Follower!followerVars)
<1>1. CASE UNCHANGED <<log, view>> /\ IInv'
  BY <1>1 DEF Follower!followerVars
<1>2. CASE Server
  <2>1. CASE Publish
    BY <1>1, <2>1, PublishKeeps DEF Publish, router
  <2>2. ASSUME NEW f \in fibers, ReadSnapshot(f) \/ Respond(f)
        PROVE  IInv' /\ UNCHANGED <<log, view>>
    BY <2>2, ReadSnapshotKeeps, RespondKeeps DEF ReadSnapshot, Respond, router
  <2>3. ASSUME NEW f \in fibers, Dispatch(f)
        PROVE  IInv' /\ [Follower!Next]_(Follower!followerVars)
    BY <2>3, DispatchKeeps DEF Follower!Next, Follower!Commit, Follower!followerVars
  <2>. QED  BY <1>1, <1>2, <2>1, <2>2, <2>3 DEF Server, Handle
<1>3. CASE ReceiveSnapshot
  <2>1. IInv' /\ log' = log /\ view' \in view .. Len(log)
    BY <1>3, ReceiveSnapshotKeeps
  <2>2. view' = view \/ view' \in view + 1 .. Len(log)
    BY <2>1 DEF IInv, Typed
  <2>. QED
    BY <2>1, <2>2 DEF Follower!Next, Follower!Follow, Follower!followerVars
<1>4. CASE Receives
  BY <1>1, <1>3, <1>4, ReceivePushKeeps, ReceiveOtherKeeps DEF Receives
<1>5. CASE Flush
  <2>1. PICK r \in waiting : SendWaiting(r)
    BY <1>5 DEF Flush
  <2>. QED  BY <1>1, <2>1, SendWaitingKeeps DEF SendWaiting, router
<1>6. CASE User
  BY <1>1, <1>6, SendKeeps, TypeTextKeeps DEF User
<1>7. CASE Connect
  BY <1>1, <1>7, ConnectKeeps DEF Connect, server, router
<1>8. CASE CommitOther
  <2>1. NoMessage \in Message \cup {NoMessage}
    OBVIOUS
  <2>. QED
    BY <1>8, <2>1, CommitOtherKeeps DEF Follower!Next, Follower!Commit, Follower!followerVars
<1>9. CASE Crash \/ Drop \/ Remount
  BY <1>1, <1>9, CrashKeeps, DropKeeps, RemountKeeps DEF Crash, Drop, router
<1>10. CASE TimeoutLost \/ TimeoutSlow
  BY <1>1, <1>10, TimeoutKeeps
<1>11. CASE UNCHANGED vars
  <2>1. UNCHANGED <<server, socket, view, waiting, fetching>>
    BY <1>11 DEF vars, transport, router
  <2>. QED  BY <1>1, <2>1, ForgettingSteps DEF server
<1>. QED
  BY <1>2, <1>4, <1>5, <1>6, <1>7, <1>8, <1>9, <1>10, <1>11 DEF Next, Environment

-----------------------------------------------------------------------------
(* The composer's text and the message in flight are ones the user typed. *)
THEOREM ComposedInvariant == Spec => []Composed
<1>1. Init => Composed
  BY ClientAssumption DEF Init, Composed
<1>2. Composed /\ [Next]_vars => Composed'
  BY ComposedSteps
<1>. QED  BY <1>1, <1>2, PTL DEF Spec

(* Every answer the client would still accept is at least as new as what   *)
(* it shows, wherever the answer is: in a fiber or on the socket.          *)
THEOREM NothingOldAccepted == Spec => []IInv
<1>1. IInv /\ Composed /\ [Next]_vars => IInv'
  BY NextKeeps
<1>. QED  BY <1>1, InitIInv, ComposedInvariant, PTL DEF Spec

(* The client's state follows the log: EventRouter never shows what was    *)
(* not committed, and never goes back, though snapshots are answered late, *)
(* lost, refused or out of order, sockets drop and the server restarts.    *)
THEOREM FollowsLog == Spec => FollowerSpec
<1>1. Init => Follower!Init
  BY DEF Init, Follower!Init
<1>2. IInv /\ Composed /\ [Next]_vars => [Follower!Next]_(Follower!followerVars)
  BY NextKeeps
<1>. QED
  BY <1>1, <1>2, NothingOldAccepted, ComposedInvariant, PTL
     DEF Spec, FollowerSpec, Follower!Spec

-----------------------------------------------------------------------------
(* Where a text is shown: TextKept says that every typed text is. *)
Shown(t) == \/ prompt = t
            \/ \E m \in optimistic : m.text = t
            \/ \E i \in 1 .. view : log[i].text = t

(* The steps that leave the composer alone, and lose no view of the log. *)
LEMMA ShownSteps ==
  ASSUME Typed, UNCHANGED <<prompt, optimistic>>, view' = view,
         log' = log \/ \E e \in Message \cup {NoMessage} : log' = Append(log, e),
         NEW t, Shown(t)
  PROVE  Shown(t)'
<1>1. \A i \in 1 .. view : i \in 1 .. view' /\ log'[i] = log[i]
  BY DEF Typed
<1>. QED  BY <1>1 DEF Shown

LEMMA SendFailedShows ==
  ASSUME SendFailed, UNCHANGED <<log, view>>, NEW t \in Texts, Shown(t)
  PROVE  Shown(t)'
<1>1. CASE prompt # NoText
  BY <1>1 DEF SendFailed, Shown
<1>2. CASE prompt = NoText
  <2>1. t # NoText
    BY DEF Texts, NoText
  <2>2. prompt' = sending.text /\ optimistic' = optimistic \ {sending}
    BY <1>2 DEF SendFailed
  <2>. QED  BY <1>2, <2>1, <2>2 DEF Shown
<1>. QED  BY <1>1, <1>2

LEMMA NextShows ==
  ASSUME IInv, Composed, [Next]_vars, NEW t \in Texts, Shown(t)
  PROVE  Shown(t)'
<1> USE DEF IInv
<1>1. CASE UNCHANGED <<prompt, optimistic, view, log>>
  BY <1>1, ShownSteps
<1>2. CASE TypeText
  BY <1>2 DEF TypeText, Shown, server, router, Texts, NoText
<1>3. CASE Send
  <2> DEFINE m == [text |-> prompt, id |-> nextId]
  <2>1. optimistic' = optimistic \cup {m} /\ m.text = prompt /\ UNCHANGED <<log, view>>
    BY <1>3 DEF Send, router
  <2>. QED  BY <2>1 DEF Shown
<1>4. CASE Server
  <2>1. CASE Publish
    BY <1>1, <2>1 DEF Publish, router, composer
  <2>2. ASSUME NEW f \in fibers, ReadSnapshot(f) \/ Respond(f)
        PROVE  Shown(t)'
    BY <1>1, <2>2 DEF ReadSnapshot, Respond, router, composer
  <2>3. ASSUME NEW f \in fibers, Dispatch(f)
        PROVE  Shown(t)'
    BY <2>3, DispatchKeeps, ShownSteps DEF Dispatch, composer
  <2>. QED  BY <1>4, <2>1, <2>2, <2>3 DEF Server, Handle
<1>5. CASE ReceiveSnapshot
  <2>1. log' = log /\ view' \in view .. Len(log) /\ view \in 0 .. Len(log)
    BY <1>5, ReceiveSnapshotKeeps DEF Typed
  <2>2. optimistic' = {m \in optimistic : \A i \in 1 .. view' : log[i] # m} /\ prompt' = prompt
    BY <1>5 DEF ReceiveSnapshot
  <2>3. 1 .. view \subseteq 1 .. view'
    BY <2>1
  <2>. QED  BY <2>1, <2>2, <2>3 DEF Shown
<1>6. CASE ReceiveDispatched
  <2>1. UNCHANGED <<log, view>>
    BY <1>6 DEF ReceiveDispatched, Receive, router
  <2>. QED  BY <1>1, <1>6, <2>1, SendFailedShows DEF ReceiveDispatched
<1>7. CASE ReceiveWelcome \/ ReceiveEvent \/ ReceiveNoSnapshot \/ ReceiveStale
  BY <1>1, <1>7
     DEF ReceiveWelcome, ReceiveEvent, ReceiveNoSnapshot, ReceiveStale, Receive, SyncFails,
         router, composer
<1>8. CASE Flush \/ Connect
  BY <1>1, <1>8 DEF Flush, SendWaiting, Connect, router, composer, server
<1>9. CASE CommitOther
  BY <1>9, CommitOtherKeeps, ShownSteps DEF CommitOther, composer
<1>10. CASE Crash \/ Drop \/ Remount
  BY <1>1, <1>10 DEF Crash, Drop, Remount, router, composer
<1>11. CASE TimeoutLost \/ TimeoutSlow
  <2>1. UNCHANGED <<log, view>>
    BY <1>11, TimeoutKeeps
  <2>. QED
    BY <1>1, <1>11, <2>1, SendFailedShows
       DEF TimeoutLost, TimeoutSlow, SyncExpires, SendExpires, SyncFails, composer
<1>12. CASE UNCHANGED vars
  BY <1>1, <1>12 DEF vars, server, router, composer
<1>. QED
  BY <1>2, <1>3, <1>4, <1>5, <1>6, <1>7, <1>8, <1>9, <1>10, <1>11, <1>12
     DEF Next, User, Receives, Environment

(* No text the user has typed vanishes from the window, whatever happens   *)
(* to the requests that carry it: onSend, its catch and the reconciliation *)
(* of optimistic messages never drop the last place where it is shown.     *)
THEOREM TextNeverLost == Spec => []TextKept
<1> DEFINE Kept == typed \in 0 .. MaxTexts /\ \A t \in 1 .. typed : Shown(t)
<1>1. Init => Kept
  BY ClientAssumption DEF Init
<1>2. ASSUME IInv, Composed, Composed', [Next]_vars, Kept
      PROVE  Kept'
  <2>1. typed' \in 0 .. MaxTexts /\ 1 .. typed \subseteq Texts
    BY <1>2, ClientAssumption DEF Composed, Texts
  <2>2. \A t \in 1 .. typed : Shown(t)'
    BY <1>2, <2>1, NextShows
  <2>3. CASE typed' = typed
    BY <2>1, <2>2, <2>3
  <2>4. CASE TypeText
    <3>1. typed' = typed + 1 /\ prompt' = typed'
      BY <2>4 DEF TypeText
    <3>2. \A t \in 1 .. typed' : t \in 1 .. typed \/ t = typed'
      BY <1>2, <3>1
    <3>. QED  BY <2>1, <2>2, <3>1, <3>2 DEF Shown
  <2>5. typed' = typed \/ TypeText
    BY <1>2 DEF Next, Server, Handle, Publish, ReadSnapshot, Dispatch, Respond, Receives,
         ReceiveWelcome, ReceiveEvent, ReceiveSnapshot, ReceiveNoSnapshot, ReceiveStale,
         ReceiveDispatched, SyncFails, SendFailed, Flush, SendWaiting, User, Send, Environment,
         CommitOther, Crash, Drop, TimeoutSlow, TimeoutLost, SyncExpires, SendExpires,
         Remount, Connect, composer, vars
  <2>. QED  BY <2>3, <2>4, <2>5
<1>3. Kept => TextKept
  BY DEF TextKept, Shown
<1> HIDE DEF Kept
<1>. QED
  BY <1>1, <1>2, <1>3, NothingOldAccepted, ComposedInvariant, PTL DEF Spec
-----------------------------------------------------------------------------
(* The copies of a text: the one in the composer, the requests that carry  *)
(* it and have not been handled, and the messages of the thread.  Each is  *)
(* made by moving another one, so there is one, and one more for each      *)
(* reported failure, whose request may still be handled.                   *)
Waits(t) == {r \in waiting : r.message.text = t}
Runs(t) == {f \in fibers : f.answer = NoAnswer /\ f.request.message.text = t}
Said(t) == {i \in DOMAIN log : log[i].text = t}
Carried(t) == Cardinality(Waits(t)) + Cardinality(Runs(t)) + Cardinality(Said(t))
Held(t) == IF prompt = t THEN 1 ELSE 0
Allowed(t) == IF t > typed THEN 0 ELSE 1 + reported[t]

Finite == IsFiniteSet(waiting) /\ IsFiniteSet(fibers)

(* The inductive invariant behind SentOnce. *)
Counted ==
  /\ Finite
  /\ reported \in [Texts -> Nat]
  /\ dispatching # NoRequest => sending.text \in Texts /\ sending.text <= typed
  /\ \A t \in Texts : Carried(t) + Held(t) <= Allowed(t)

LEMMA OneMore ==
  ASSUME NEW S, IsFiniteSet(S), NEW x, NEW T, T \subseteq S \cup {x}
  PROVE  /\ Cardinality(S) \in Nat /\ IsFiniteSet(T) /\ Cardinality(T) \in Nat
         /\ Cardinality(T) <= Cardinality(S) + 1
<1>1. Cardinality(S) \in Nat
  BY FS_CardinalityType
<1>2. /\ IsFiniteSet(S \cup {x})
      /\ Cardinality(S \cup {x}) = IF x \in S THEN Cardinality(S) ELSE Cardinality(S) + 1
  BY FS_AddElement
<1>3. /\ IsFiniteSet(T) /\ Cardinality(T) <= Cardinality(S \cup {x})
  BY <1>2, FS_Subset
<1>4. Cardinality(T) \in Nat
  BY <1>3, FS_CardinalityType
<1>. QED  BY <1>1, <1>2, <1>3, <1>4

LEMMA OneLess ==
  ASSUME NEW S, IsFiniteSet(S), NEW x \in S
  PROVE  /\ IsFiniteSet(S \ {x}) /\ Cardinality(S \ {x}) \in Nat
         /\ Cardinality(S \ {x}) = Cardinality(S) - 1
BY FS_RemoveElement, FS_CardinalityType

LEMMA CarriedType ==
  ASSUME Finite, Typed, NEW t
  PROVE  /\ IsFiniteSet(Waits(t)) /\ IsFiniteSet(Runs(t)) /\ IsFiniteSet(Said(t))
         /\ Cardinality(Waits(t)) \in Nat /\ Cardinality(Runs(t)) \in Nat
         /\ Cardinality(Said(t)) \in Nat
<1>1. Waits(t) \subseteq waiting /\ Runs(t) \subseteq fibers /\ Said(t) \subseteq 1 .. Len(log)
  BY DEF Waits, Runs, Said, Typed
<1>2. IsFiniteSet(1 .. Len(log))
  BY FS_Interval DEF Typed
<1>3. IsFiniteSet(Waits(t)) /\ IsFiniteSet(Runs(t)) /\ IsFiniteSet(Said(t))
  BY <1>1, <1>2, FS_Subset DEF Finite
<1>. QED  BY <1>3, FS_CardinalityType

(* The steps that only lose requests. *)
LEMMA CarriedLess ==
  ASSUME Finite, Typed, NEW t, Waits(t)' \subseteq Waits(t), Runs(t)' \subseteq Runs(t),
         Said(t)' = Said(t)
  PROVE  Carried(t)' <= Carried(t)
<1>1. /\ IsFiniteSet(Waits(t)) /\ IsFiniteSet(Runs(t))
      /\ Cardinality(Waits(t)) \in Nat /\ Cardinality(Runs(t)) \in Nat
      /\ Cardinality(Said(t)) \in Nat
  BY CarriedType
<1>2. /\ IsFiniteSet(Waits(t)') /\ Cardinality(Waits(t)') <= Cardinality(Waits(t))
      /\ IsFiniteSet(Runs(t)') /\ Cardinality(Runs(t)') <= Cardinality(Runs(t))
  BY <1>1, FS_Subset
<1>3. Cardinality(Waits(t)') \in Nat /\ Cardinality(Runs(t)') \in Nat
  BY <1>2, FS_CardinalityType
<1>. QED  BY <1>1, <1>2, <1>3 DEF Carried

(* A fiber that answers is no longer one that may still be handled. *)
LEMMA AnswerCarries ==
  ASSUME Finite, Typed, NEW f \in fibers, f.answer = NoAnswer, NEW answer \in Answer,
         Answers(f, answer), NEW t
  PROVE  /\ IsFiniteSet(fibers')
         /\ Runs(t)' = Runs(t) \ {f}
<1> DEFINE g == [f EXCEPT !.answer = answer]
<1>1. fibers' = (fibers \ {f}) \cup {g}
  BY DEF Answers
<1>2. f \in Fiber /\ g.answer = answer
  BY DEF Typed, Fiber
<1>3. answer # NoAnswer
  BY DEF Answer, NoAnswer, Refused
<1> HIDE DEF g
<1>4. IsFiniteSet(fibers')
  BY <1>1, FS_RemoveElement, FS_AddElement DEF Finite
<1>. QED  BY <1>1, <1>2, <1>3, <1>4 DEF Runs

LEMMA DispatchCarries ==
  ASSUME Finite, Typed, NEW f \in fibers, Dispatch(f), NEW t, t # NoText
  PROVE  Finite' /\ Carried(t)' <= Carried(t)
<1>1. /\ f.answer = NoAnswer /\ waiting' = waiting
      /\ f.request.message \in Message \cup {NoMessage}
      /\ log \in Seq(Message \cup {NoMessage}) /\ Len(log) \in Nat
  BY DEF Dispatch, transport, Typed, Fiber, Request
<1>2. Waits(t)' = Waits(t)
  BY <1>1 DEF Waits
<1>3. /\ IsFiniteSet(Runs(t)) /\ Cardinality(Runs(t)) \in Nat
      /\ IsFiniteSet(Said(t)) /\ Cardinality(Said(t)) \in Nat
      /\ Cardinality(Waits(t)) \in Nat
  BY CarriedType
<1>4. CASE log' = log /\ Answers(f, Refused)
  <2>1. Refused \in Answer
    BY DEF Answer
  <2>2. IsFiniteSet(fibers') /\ Runs(t)' \subseteq Runs(t)
    BY <1>1, <1>4, <2>1, AnswerCarries
  <2>3. Said(t)' = Said(t)
    BY <1>4 DEF Said
  <2>. QED  BY <1>1, <1>2, <2>2, <2>3, CarriedLess DEF Finite
<1>5. CASE log' = Append(log, f.request.message) /\ Answers(f, Len(log'))
  <2>1. /\ Len(log') = Len(log) + 1 /\ Len(log') \in Answer
        /\ \A i \in DOMAIN log : log'[i] = log[i]
        /\ DOMAIN log' = DOMAIN log \cup {Len(log')}
        /\ log'[Len(log')] = f.request.message
    BY <1>1, <1>5 DEF Answer
  <2>2. IsFiniteSet(fibers') /\ Runs(t)' = Runs(t) \ {f}
    BY <1>1, <1>5, <2>1, AnswerCarries
  <2>3. CASE f.request.message.text = t
    <3>1. Said(t)' = Said(t) \cup {Len(log')}
      BY <2>1, <2>3 DEF Said
    <3>2. Cardinality(Said(t)') <= Cardinality(Said(t)) + 1 /\ Cardinality(Said(t)') \in Nat
      BY <1>3, <3>1, OneMore
    <3>3. f \in Runs(t)
      BY <1>1, <2>3 DEF Runs
    <3>4. Cardinality(Runs(t)') = Cardinality(Runs(t)) - 1
      BY <1>3, <2>2, <3>3, OneLess
    <3>. QED  BY <1>1, <1>2, <1>3, <2>2, <3>2, <3>4 DEF Carried, Finite
  <2>4. CASE f.request.message.text # t
    <3>1. Said(t)' = Said(t)
      BY <2>1, <2>4 DEF Said
    <3>. QED  BY <1>1, <1>2, <2>2, <3>1, CarriedLess DEF Finite
  <2>. QED  BY <2>3, <2>4
<1>. QED  BY <1>4, <1>5 DEF Dispatch

(* A request that is sent is carried by the socket instead of the timer. *)
LEMMA SendWaitingCarries ==
  ASSUME Finite, Typed, NEW r \in waiting, SendWaiting(r), NEW t, t # NoText
  PROVE  Finite' /\ Carried(t)' <= Carried(t)
<1> DEFINE f == [request |-> r, answer |-> NoAnswer, live |-> TRUE]
<1>1. waiting' = waiting \ {r} /\ fibers' = fibers \cup {f} /\ log' = log
  BY DEF SendWaiting, Transmit
<1>2. f.request = r /\ f.answer = NoAnswer
  OBVIOUS
<1> HIDE DEF f
<1>3. Finite'
  BY <1>1, FS_RemoveElement, FS_AddElement DEF Finite
<1>4. /\ IsFiniteSet(Waits(t)) /\ IsFiniteSet(Runs(t))
      /\ Cardinality(Waits(t)) \in Nat /\ Cardinality(Runs(t)) \in Nat
      /\ Cardinality(Said(t)) \in Nat
  BY CarriedType
<1>5. Said(t)' = Said(t)
  BY <1>1 DEF Said
<1>6. CASE r.message.text = t
  <2>1. Waits(t)' = Waits(t) \ {r} /\ r \in Waits(t) /\ Runs(t)' = Runs(t) \cup {f}
    BY <1>1, <1>2, <1>6 DEF Waits, Runs
  <2>2. /\ Cardinality(Waits(t)') = Cardinality(Waits(t)) - 1
        /\ Cardinality(Runs(t)') <= Cardinality(Runs(t)) + 1
        /\ Cardinality(Runs(t)') \in Nat
    BY <1>4, <2>1, OneLess, OneMore
  <2>. QED  BY <1>3, <1>4, <1>5, <2>2 DEF Carried
<1>7. CASE r.message.text # t
  <2>1. Waits(t)' \subseteq Waits(t) /\ Runs(t)' \subseteq Runs(t)
    BY <1>1, <1>2, <1>7 DEF Waits, Runs
  <2>. QED  BY <1>3, <1>5, <2>1, CarriedLess
<1>. QED  BY <1>6, <1>7

(* A lost socket marks the fibers it leaves behind: no two of them become  *)
(* more.                                                                   *)
LEMMA DropCarries ==
  ASSUME Finite, Typed, Drop, NEW t, t # NoText
  PROVE  Finite' /\ Carried(t)' <= Carried(t)
<1> DEFINE Dead(f) == [f EXCEPT !.live = FALSE]
<1>1. /\ waiting' = waiting /\ log' = log
      /\ \E lost \in SUBSET fibers : fibers' = {Dead(f) : f \in fibers \ lost}
  BY DEF Drop, transport
<1>2. PICK lost \in SUBSET fibers : fibers' = {Dead(f) : f \in fibers \ lost}
  BY <1>1
<1>3. \A f \in fibers : Dead(f).answer = f.answer /\ Dead(f).request = f.request
  BY DEF Typed, Fiber
<1> HIDE DEF Dead
<1>4. IsFiniteSet(fibers')
  <2> DEFINE S == fibers \ lost
             h == [f \in S |-> Dead(f)]
  <2>1. IsFiniteSet(S)
    BY FS_Subset DEF Finite
  <2>2. h \in Surjection(S, fibers')
    BY <1>2 DEF Surjection
  <2> HIDE DEF S, h
  <2>. QED  BY <2>1, <2>2, FS_Surjection
<1>5. /\ IsFiniteSet(Runs(t)) /\ Cardinality(Runs(t)) \in Nat
      /\ Cardinality(Waits(t)) \in Nat /\ Cardinality(Said(t)) \in Nat
  BY CarriedType
<1>6. Cardinality(Runs(t)') <= Cardinality(Runs(t)) /\ Cardinality(Runs(t)') \in Nat
  <2> DEFINE S == Runs(t) \ lost
             h == [f \in S |-> Dead(f)]
  <2>1. IsFiniteSet(S) /\ Cardinality(S) <= Cardinality(Runs(t)) /\ Cardinality(S) \in Nat
    BY <1>5, FS_Subset, FS_CardinalityType
  <2>2. \A g \in Runs(t)' : \E f \in S : g = Dead(f)
    BY <1>2, <1>3 DEF Runs
  <2>3. \A f \in S : Dead(f) \in Runs(t)'
    BY <1>2, <1>3 DEF Runs
  <2>4. h \in Surjection(S, Runs(t)')
    BY <2>2, <2>3 DEF Surjection
  <2> HIDE DEF S, h
  <2>5. IsFiniteSet(Runs(t)') /\ Cardinality(Runs(t)') <= Cardinality(S)
    BY <2>1, <2>4, FS_Surjection
  <2>. QED  BY <1>5, <2>1, <2>5, FS_CardinalityType
<1>7. Waits(t)' = Waits(t) /\ Said(t)' = Said(t)
  BY <1>1 DEF Waits, Said
<1>. QED  BY <1>1, <1>4, <1>5, <1>6, <1>7 DEF Carried, Finite

(* A request that is issued carries its text, if it has one. *)
LEMMA IssueCarries ==
  ASSUME Finite, Typed, NEW message \in Message \cup {NoMessage}, Issue(message),
         log' = log, NEW t, t # NoText
  PROVE  /\ Finite'
         /\ message.text # t => Carried(t)' <= Carried(t)
         /\ Carried(t)' <= Carried(t) + 1
<1> DEFINE r == [id |-> nextId, message |-> message]
           f == [request |-> r, answer |-> NoAnswer, live |-> TRUE]
<1>1. \/ fibers' = fibers \cup {f} /\ waiting' = waiting
      \/ fibers' = fibers /\ waiting' = waiting \cup {r}
  BY DEF Issue, Transmit
<1>2. r.message = message /\ f.request = r
  OBVIOUS
<1> HIDE DEF r, f
<1>3. Finite'
  BY <1>1, FS_AddElement DEF Finite
<1>4. Said(t)' = Said(t)
  BY DEF Said
<1>5. message.text # t => Waits(t)' \subseteq Waits(t) /\ Runs(t)' \subseteq Runs(t)
  BY <1>1, <1>2 DEF Waits, Runs
<1>6. message.text # t => Carried(t)' <= Carried(t)
  BY <1>4, <1>5, CarriedLess
<1>7. /\ IsFiniteSet(Waits(t)) /\ IsFiniteSet(Runs(t))
      /\ Cardinality(Waits(t)) \in Nat /\ Cardinality(Runs(t)) \in Nat
      /\ Cardinality(Said(t)) \in Nat
  BY CarriedType
<1>8. CASE message.text = t
  <2>1. CASE fibers' = fibers \cup {f} /\ waiting' = waiting
    <3>1. Waits(t)' = Waits(t) /\ Runs(t)' \subseteq Runs(t) \cup {f}
      BY <2>1 DEF Waits, Runs
    <3>2. Cardinality(Runs(t)') <= Cardinality(Runs(t)) + 1 /\ Cardinality(Runs(t)') \in Nat
      BY <1>7, <3>1, OneMore
    <3>. QED  BY <1>3, <1>4, <1>7, <1>8, <3>1, <3>2 DEF Carried
  <2>2. CASE fibers' = fibers /\ waiting' = waiting \cup {r}
    <3>1. Runs(t)' = Runs(t) /\ Waits(t)' \subseteq Waits(t) \cup {r}
      BY <2>2 DEF Waits, Runs
    <3>2. Cardinality(Waits(t)') <= Cardinality(Waits(t)) + 1 /\ Cardinality(Waits(t)') \in Nat
      BY <1>7, <3>1, OneMore
    <3>. QED  BY <1>3, <1>4, <1>7, <1>8, <3>1, <3>2 DEF Carried
  <2>. QED  BY <1>1, <2>1, <2>2
<1>9. Carried(t) \in Nat
  BY <1>7 DEF Carried
<1>10. CASE message.text # t
  <2>1. /\ IsFiniteSet(Waits(t)') /\ IsFiniteSet(Runs(t)')
    BY <1>5, <1>7, <1>10, FS_Subset
  <2>2. Carried(t)' \in Nat
    BY <1>4, <1>7, <2>1, FS_CardinalityType DEF Carried
  <2>. QED  BY <1>3, <1>6, <1>9, <1>10, <2>2
<1>. QED  BY <1>3, <1>6, <1>8, <1>10

LEMMA LosingCarries ==
  ASSUME Finite, Typed, waiting' \subseteq waiting, fibers' \subseteq fibers,
         log' = log \/ log' = Append(log, NoMessage), NEW t, t # NoText
  PROVE  Finite' /\ Carried(t)' <= Carried(t)
<1>1. Finite'
  BY FS_Subset DEF Finite
<1>2. Waits(t)' \subseteq Waits(t) /\ Runs(t)' \subseteq Runs(t)
  BY DEF Waits, Runs
<1>3. Said(t)' = Said(t)
  <2>1. CASE log' = log
    BY <2>1 DEF Said
  <2>2. CASE log' = Append(log, NoMessage)
    <3>1. log \in Seq(Message \cup {NoMessage}) /\ Len(log) \in Nat
      BY DEF Typed
    <3>2. /\ DOMAIN log' = DOMAIN log \cup {Len(log) + 1}
          /\ \A i \in DOMAIN log : log'[i] = log[i]
          /\ log'[Len(log) + 1] = NoMessage
      BY <2>2, <3>1
    <3>3. NoMessage.text # t
      BY DEF NoMessage
    <3>. QED  BY <3>2, <3>3 DEF Said
  <2>. QED  BY <2>1, <2>2
<1>. QED  BY <1>1, <1>2, <1>3, CarriedLess

(* A snapshot request carries no text. *)
LEMMA FetchCarries ==
  ASSUME Finite, Typed, log' = log, NEW t, t # NoText,
         Issue(NoMessage) \/ NothingIssued \/ SyncSnapshot
  PROVE  Finite' /\ Carried(t)' <= Carried(t)
<1>1. Issue(NoMessage) \/ UNCHANGED <<waiting, fibers>>
  BY DEF SyncSnapshot, NothingIssued
<1>2. NoMessage.text # t
  BY DEF NoMessage
<1>. QED  BY <1>1, <1>2, IssueCarries, LosingCarries

LEMMA ReadSnapshotCarries ==
  ASSUME Finite, Typed, NEW f \in fibers, ReadSnapshot(f), NEW t, t # NoText
  PROVE  Finite' /\ Carried(t)' <= Carried(t)
<1>1. /\ f.answer = NoAnswer /\ waiting' = waiting /\ log' = log
      /\ Answers(f, Len(log)) \/ Answers(f, Refused)
  BY DEF ReadSnapshot, transport
<1>2. Len(log) \in Answer /\ Refused \in Answer
  BY DEF Answer, Typed
<1>3. IsFiniteSet(fibers') /\ Runs(t)' \subseteq Runs(t)
  BY <1>1, <1>2, AnswerCarries
<1>4. Waits(t)' = Waits(t) /\ Said(t)' = Said(t)
  BY <1>1 DEF Waits, Said
<1>. QED  BY <1>1, <1>3, <1>4, CarriedLess DEF Finite

(* Only onSend makes a copy: that of the composer's text. *)
LEMMA NextCarries ==
  ASSUME Finite, IInv, Composed, [Next]_vars, NEW t, t # NoText
  PROVE  /\ Finite'
         /\ \/ Carried(t)' <= Carried(t)
            \/ Send /\ prompt = t /\ Carried(t)' <= Carried(t) + 1
<1> USE DEF IInv
<1>1. CASE Server
  <2>1. CASE Publish
    BY <2>1, LosingCarries DEF Publish, transport
  <2>2. ASSUME NEW f \in fibers, Respond(f)
        PROVE  Finite' /\ Carried(t)' <= Carried(t)
    BY <2>2, LosingCarries DEF Respond, transport
  <2>. QED  BY <1>1, <2>1, <2>2, ReadSnapshotCarries, DispatchCarries DEF Server, Handle
<1>2. CASE Receives
  <2>1. log' = log
    BY <1>2 DEF Receives, Receive, ReceiveWelcome, ReceiveEvent, ReceiveSnapshot,
         ReceiveNoSnapshot, ReceiveStale, ReceiveDispatched
  <2>2. Issue(NoMessage) \/ NothingIssued \/ SyncSnapshot
    BY <1>2 DEF Receives, ReceiveWelcome, ReceiveEvent, ReceiveSnapshot,
         ReceiveNoSnapshot, ReceiveStale, ReceiveDispatched
  <2>. QED  BY <2>1, <2>2, FetchCarries
<1>3. CASE Flush
  BY <1>3, SendWaitingCarries DEF Flush
<1>4. CASE TypeText \/ Connect \/ UNCHANGED vars
  BY <1>4, LosingCarries DEF TypeText, Connect, vars, server, transport
<1>5. CASE Send
  <2> DEFINE m == [text |-> prompt, id |-> nextId]
  <2>1. Issue(m) /\ log' = log /\ prompt \in Texts
    BY <1>5 DEF Send, Composed
  <2>2. m \in Message /\ m.text = prompt
    BY <2>1, NextIdFresh DEF Issue, Message
  <2> HIDE DEF m
  <2>. QED  BY <1>5, <2>1, <2>2, IssueCarries
<1>6. CASE CommitOther
  BY <1>6, LosingCarries DEF CommitOther, transport
<1>7. CASE Crash
  BY <1>7, LosingCarries DEF Crash, transport
<1>8. CASE Drop
  BY <1>8, DropCarries
<1>9. CASE TimeoutLost \/ TimeoutSlow
  BY <1>9, LosingCarries
     DEF TimeoutLost, TimeoutSlow, SyncExpires, SendExpires, Expires, server
<1>10. CASE Remount
  BY <1>10, FetchCarries DEF Remount
<1>. QED
  BY <1>1, <1>2, <1>3, <1>4, <1>5, <1>6, <1>7, <1>8, <1>9, <1>10 DEF Next, User, Environment

(* What becomes of the composer's text and of the message in flight. *)
ComposerKept == UNCHANGED <<prompt, sending, dispatching, typed, reported>>

ComposerStep ==
  \/ ComposerKept
  \/ TypeText \/ Send
  \/ dispatching # NoRequest /\ SendFailed
  \/ dispatching' = NoRequest /\ UNCHANGED <<prompt, sending, typed, reported>>

LEMMA ComposerSteps == ASSUME IInv, [Next]_vars PROVE ComposerStep
<1> USE DEF ComposerStep, ComposerKept, composer
<1>1. CASE Server
  BY <1>1 DEF Server, Handle, Publish, ReadSnapshot, Dispatch, Respond
<1>2. CASE ReceiveWelcome \/ ReceiveEvent \/ ReceiveSnapshot \/ ReceiveNoSnapshot \/ ReceiveStale
  BY <1>2 DEF ReceiveWelcome, ReceiveEvent, ReceiveSnapshot, ReceiveNoSnapshot, ReceiveStale,
       SyncFails
<1>3. CASE ReceiveDispatched
  <2>1. /\ Receive("response") /\ Head(down).id = dispatching
        /\ SendFailed \/ (dispatching' = NoRequest /\ UNCHANGED <<prompt, sending, typed, reported>>)
    BY <1>3 DEF ReceiveDispatched
  <2>2. Head(down) = down[1] /\ 1 \in DOMAIN down /\ Head(down).type = "response"
    BY <2>1, ReceiveSteps DEF IInv
  <2>3. dispatching \in Ids
    BY <2>1, <2>2 DEF IInv, AnswersNew
  <2>4. dispatching # NoRequest
    BY <2>3, IdsPositive DEF NoRequest
  <2>. QED  BY <2>1, <2>4
<1>4. CASE TimeoutLost \/ TimeoutSlow
  BY <1>4 DEF TimeoutLost, TimeoutSlow, SyncExpires, SendExpires, Expires, SyncFails
<1>5. CASE Flush \/ Connect \/ User \/ UNCHANGED vars
  BY <1>5 DEF Flush, SendWaiting, Connect, User, vars
<1>6. CASE CommitOther \/ Crash \/ Drop \/ Remount
  BY <1>6 DEF CommitOther, Crash, Drop, Remount
<1>. QED  BY <1>1, <1>2, <1>3, <1>4, <1>5, <1>6 DEF Next, Receives, Environment

LEMMA CarriedNat == Finite /\ Typed => \A t \in Texts : Carried(t) \in Nat
BY CarriedType DEF Carried

LEMMA CountedSteps ==
  ASSUME Counted, IInv, IInv', Composed, [Next]_vars
  PROVE  Counted'
<1>1. 1 # NoText /\ \A t \in Texts : t # NoText
  BY DEF NoText, Texts
<1>2. /\ Finite'
      /\ \A t \in Texts : \/ Carried(t)' <= Carried(t)
                          \/ Send /\ prompt = t /\ Carried(t)' <= Carried(t) + 1
  BY <1>1, NextCarries DEF Counted
<1>3. \A t \in Texts : Carried(t) \in Nat /\ Carried(t)' \in Nat
  <2>1. Finite /\ Typed /\ Finite' /\ Typed'
    BY <1>2 DEF Counted, IInv
  <2>2. (\A t \in Texts : Carried(t) \in Nat) /\ (\A t \in Texts : Carried(t) \in Nat)'
    BY <2>1, CarriedNat, PTL
  <2>. QED  BY <2>2
<1>4. /\ typed \in Nat /\ Texts \subseteq Nat \ {NoText}
      /\ prompt \in Texts \cup {NoText} /\ reported \in [Texts -> Nat]
      /\ \A t \in Texts : Carried(t) + Held(t) <= Allowed(t)
      /\ dispatching # NoRequest => sending.text \in Texts /\ sending.text <= typed
  BY ClientAssumption DEF Composed, Counted, Texts, NoText
<1>5. CASE Send
  <2>1. /\ prompt # NoText /\ prompt' = NoText /\ sending'.text = prompt
        /\ UNCHANGED <<typed, reported>>
    BY <1>5 DEF Send
  <2>2. prompt \in Texts /\ prompt <= typed
    BY <1>3, <1>4, <2>1 DEF Held, Allowed
  <2>3. ASSUME NEW t \in Texts PROVE Carried(t)' + Held(t)' <= Allowed(t)'
    <3>1. Held(t)' = 0 /\ Allowed(t)' = Allowed(t)
      BY <1>4, <2>1 DEF Held, Allowed
    <3>2. Allowed(t) \in Nat
      BY <1>4 DEF Allowed
    <3>3. Carried(t)' <= Carried(t) + Held(t) /\ Held(t) \in Nat
      BY <1>2, <1>3 DEF Held
    <3>4. Carried(t) + Held(t) <= Allowed(t)
      BY <1>4
    <3>. QED  BY <1>3, <3>1, <3>2, <3>3, <3>4
  <2>. QED  BY <1>2, <1>4, <2>1, <2>2, <2>3 DEF Counted
<1>6. CASE ~Send
  <2>1. \A t \in Texts : Carried(t)' <= Carried(t)
    BY <1>2, <1>6
  <2>2. ASSUME NEW t \in Texts
        PROVE  Held(t) \in {0, 1} /\ Held(t)' \in {0, 1} /\ Allowed(t) \in Nat
    BY <1>4 DEF Held, Allowed
  <2>3. CASE /\ UNCHANGED <<prompt, sending, typed, reported>>
             /\ dispatching' = dispatching \/ dispatching' = NoRequest
    <3>1. ASSUME NEW t \in Texts PROVE Carried(t)' + Held(t)' <= Allowed(t)'
      <4>1. Held(t)' = Held(t) /\ Allowed(t)' = Allowed(t)
        BY <2>3 DEF Held, Allowed
      <4>. QED  BY <1>3, <1>4, <2>1, <2>2, <4>1
    <3>. QED  BY <1>2, <1>4, <2>3, <3>1 DEF Counted
  <2>4. CASE TypeText
    <3>1. /\ prompt = NoText /\ typed' = typed + 1 /\ prompt' = typed'
          /\ UNCHANGED <<reported, dispatching, sending>>
      BY <2>4 DEF TypeText
    <3>2. ASSUME NEW t \in Texts PROVE Carried(t)' + Held(t)' <= Allowed(t)'
      <4>1. CASE t = typed'
        <5>1. Allowed(t) = 0 /\ Allowed(t)' = 1 + reported[t] /\ reported[t] \in Nat
          BY <1>4, <3>1, <4>1 DEF Allowed
        <5>. QED  BY <1>3, <1>4, <2>1, <2>2, <5>1
      <4>2. CASE t # typed'
        <5>1. Allowed(t)' = Allowed(t) /\ Held(t)' = 0
          BY <1>4, <3>1, <4>2 DEF Allowed, Held
        <5>. QED  BY <1>3, <1>4, <2>1, <2>2, <5>1
      <4>. QED  BY <4>1, <4>2
    <3>. QED  BY <1>2, <1>4, <3>1, <3>2 DEF Counted, Texts
  <2>5. CASE dispatching # NoRequest /\ SendFailed
    <3> DEFINE s == sending.text
    <3>1. /\ s \in Texts /\ s <= typed /\ dispatching' = NoRequest /\ typed' = typed
          /\ reported' = [reported EXCEPT ![s] = @ + 1]
          /\ prompt' = IF prompt = NoText THEN s ELSE prompt
      BY <1>4, <2>5 DEF SendFailed
    <3> HIDE DEF s
    <3>2. ASSUME NEW t \in Texts PROVE Carried(t)' + Held(t)' <= Allowed(t)'
      <4>1. CASE t = s
        <5>1. Allowed(t)' = Allowed(t) + 1
          BY <1>4, <3>1, <4>1 DEF Allowed
        <5>2. Held(t)' <= Held(t) + 1
          BY <2>2
        <5>. QED  BY <1>3, <1>4, <2>1, <2>2, <5>1, <5>2
      <4>2. CASE t # s
        <5>1. Allowed(t)' = Allowed(t)
          BY <1>4, <3>1, <4>2 DEF Allowed
        <5>2. Held(t)' = Held(t)
          BY <1>4, <3>1, <4>2 DEF Held
        <5>. QED  BY <1>3, <1>4, <2>1, <2>2, <5>1, <5>2
      <4>. QED  BY <4>1, <4>2
    <3>3. reported' \in [Texts -> Nat]
      BY <1>4, <3>1
    <3>. QED  BY <1>2, <3>1, <3>2, <3>3 DEF Counted
  <2>. QED  BY <1>6, <2>3, <2>4, <2>5, ComposerSteps DEF ComposerStep, ComposerKept
<1>. QED  BY <1>5, <1>6

(* A text is in the thread at most once, and once more for every failure   *)
(* the user was told of, however many sockets and servers are lost: a      *)
(* request of onSend is carried out once, and never sent again.            *)
THEOREM SentOncePerReport == Spec => []SentOnce
<1>1. Init => Counted
  <2> SUFFICES ASSUME Init PROVE Counted
    OBVIOUS
  <2>1. /\ waiting = {[id |-> 1, message |-> NoMessage]} /\ fibers = {} /\ log = << >>
        /\ prompt = NoText /\ typed = 0 /\ reported = [t \in Texts |-> 0]
        /\ dispatching = NoRequest
    BY DEF Init
  <2>2. ASSUME NEW t \in Texts PROVE Carried(t) = 0 /\ Held(t) = 0 /\ Allowed(t) = 0
    <3>1. t \in Nat /\ t > 0 /\ t # NoText
      BY DEF Texts, NoText
    <3>2. Waits(t) = {} /\ Runs(t) = {} /\ Said(t) = {}
      BY <2>1, <3>1 DEF Waits, Runs, Said, NoMessage
    <3>. QED  BY <2>1, <3>1, <3>2, FS_EmptySet DEF Carried, Held, Allowed
  <2>3. Finite
    BY <2>1, FS_EmptySet, FS_Singleton DEF Finite
  <2>. QED  BY <2>1, <2>2, <2>3 DEF Counted
<1>2. ASSUME Counted, IInv, IInv', Composed, [Next]_vars
      PROVE  Counted'
  BY <1>2, CountedSteps
<1>3. ASSUME Counted, IInv, Composed
      PROVE  SentOnce
  <2>1. ASSUME NEW t \in Texts PROVE Cardinality(Said(t)) <= 1 + reported[t]
    <3>1. /\ Cardinality(Waits(t)) \in Nat /\ Cardinality(Runs(t)) \in Nat
          /\ Cardinality(Said(t)) \in Nat
      BY <1>3, CarriedType DEF Counted, IInv
    <3>2. Held(t) \in Nat /\ reported[t] \in Nat /\ Allowed(t) <= 1 + reported[t]
      BY <1>3 DEF Held, Allowed, Counted
    <3>3. Carried(t) + Held(t) <= Allowed(t) /\ Allowed(t) \in Nat
      BY <1>3, <3>2 DEF Counted, Allowed
    <3>. QED  BY <3>1, <3>2, <3>3 DEF Carried
  <2>. QED  BY <2>1 DEF SentOnce, Said
<1>. QED
  BY <1>1, <1>2, <1>3, NothingOldAccepted, ComposedInvariant, PTL DEF Spec
=============================================================================
