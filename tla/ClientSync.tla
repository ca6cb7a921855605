------------------------------ MODULE ClientSync ------------------------------
(***************************************************************************)
(* The web client's copy of the read model and the composer's way of       *)
(* sending a message, over a socket that drops and a server that restarts. *)
(*                                                                         *)
(* Source: wsTransport.ts, wsNativeApi.ts, routes/__root.tsx (EventRouter) *)
(* and store.ts, with onSend of components/ChatView.tsx, on the client;    *)
(* wsServer.ts and ProjectionSnapshotQuery.ts on the server.               *)
(*                                                                         *)
(* The server's commits are the entries of log: a snapshot is the number   *)
(* of entries it adds up, which is its snapshotSequence.  Every request is *)
(* handled by a fiber of its own, so answers overtake each other; what one *)
(* socket carries in one direction stays in order and is lost with it.     *)
(***************************************************************************)
EXTENDS Integers, Sequences, FiniteSets

CONSTANTS
  MaxTexts, MaxIds,   \* bounds: texts the user types, ids of requests and messages in use
  Scopes              \* bounds that go together, one of which a behaviour keeps to

(* The sends and the commits of others in a behaviour, and its faults: a   *)
(* lost socket, a server restart, a failing request, one that times out    *)
(* though it is being handled, a remount.                                  *)
ASSUME ClientAssumption ==
  /\ MaxTexts \in Nat /\ MaxIds \in Nat \ {0}
  /\ Scopes \subseteq [sends : Nat, others : Nat, faults : Nat]

Texts == 1 .. MaxTexts   \* in the order in which the user types them
NoText == 0
NoRequest == 0

VARIABLES
  \* the server
  log,          \* the committed events: a message, or NoMessage for one of another kind
  published,    \* how many of them were broadcast, or never will be
  fibers,       \* the requests on their way to a fiber of the server, or handled by it
  \* the socket
  open, down,
  \* the transport: requests waiting for a socket, the cached welcome
  waiting, welcomed,
  \* EventRouter: the snapshot in the store, latestSequence, syncing, pending, and
  \* the getSnapshot request it awaits
  view, latest, syncing, resync, fetching,
  \* ChatView: the composer's prompt, the optimistic messages, the message a send
  \* is in flight for with the id of its request
  prompt, optimistic, sending, dispatching,
  \* history: texts typed, reported failures by text, and whether the last sync failed
  typed, reported, gaveUp,
  sends, others, faults, scope   \* what the bounds count, and the bounds

server    == <<log, published, fibers>>
socket    == <<open, down>>
transport == <<waiting, welcomed>>
router    == <<view, latest, syncing, resync, fetching, gaveUp>>
composer  == <<prompt, optimistic, sending, dispatching, typed, reported>>
bounds    == <<sends, others, faults, scope>>
vars == <<server, socket, transport, router, composer, bounds>>

-----------------------------------------------------------------------------
Ids == 1 .. MaxIds
Message == [text : Texts, id : Ids]
NoMessage == [text |-> NoText, id |-> 0]

(* A getSnapshot request carries no message, thread.turn.start one. *)
Request == [id : Ids, message : Message \cup {NoMessage}]
IsFetch(r) == r.message = NoMessage

(* A fiber: the answer it will send, and whether its socket is still open. *)
NoAnswer == -2
Refused  == -1
Answer   == Nat \cup {Refused}
Fiber    == [request : Request, answer : Answer \cup {NoAnswer}, live : BOOLEAN]

Welcome    == [type |-> "welcome", id |-> 0, n |-> 0]
Event(n)   == [type |-> "event", id |-> 0, n |-> n]
Reply(f)   == [type |-> "response", id |-> f.request.id, n |-> f.answer]

Fault == faults < scope.faults /\ faults' = faults + 1 /\ UNCHANGED <<sends, others, scope>>

-----------------------------------------------------------------------------
Transmit(r) == fibers' = fibers \cup {[request |-> r, answer |-> NoAnswer, live |-> TRUE]}

(* The ids of requests and messages are never used twice: here an id that  *)
(* nothing refers to any more stands for a new one.                        *)
InUse == {r.id : r \in waiting} \cup {f.request.id : f \in fibers}
           \cup {down[i].id : i \in DOMAIN down} \cup {log[i].id : i \in DOMAIN log}
           \cup {m.id : m \in optimistic} \cup {fetching, dispatching}
nextId == CHOOSE id \in Ids : id \notin InUse

(* WsTransport.request: sent at once on an open socket, otherwise a timer  *)
(* of its own sends it once there is one.                                  *)
Issue(message) ==
  LET r == [id |-> nextId, message |-> message]
  IN /\ ~(Ids \subseteq InUse)
     /\ IF open THEN Transmit(r) /\ UNCHANGED waiting
                ELSE waiting' = waiting \cup {r} /\ UNCHANGED fibers

NothingIssued == UNCHANGED <<waiting, fibers>>

SendWaiting(r) ==
  /\ open /\ r \in waiting
  /\ waiting' = waiting \ {r}
  /\ Transmit(r)
  /\ UNCHANGED <<log, published, socket, welcomed, router, composer, bounds>>

(* Mutated form: a sync that is asked for during another is dropped. *)
SyncSnapshot_Dropped ==
  IF syncing THEN /\ UNCHANGED <<syncing, resync, fetching>> /\ NothingIssued
             ELSE /\ syncing' = TRUE /\ resync' = FALSE
                  /\ fetching' = nextId /\ Issue(NoMessage)

(* syncSnapshot *)
SyncSnapshot ==
  IF syncing THEN /\ resync' = TRUE
                  /\ UNCHANGED <<syncing, fetching>> /\ NothingIssued
             ELSE /\ syncing' = TRUE /\ resync' = FALSE
                  /\ fetching' = nextId /\ Issue(NoMessage)

-----------------------------------------------------------------------------
(* The server.  A dispatch that is accepted is committed and, later,       *)
(* broadcast; one that is refused, or fails, commits nothing.              *)
Answers(f, answer) == fibers' = (fibers \ {f}) \cup {[f EXCEPT !.answer = answer]}

(* getSnapshot reads all tables and the cursors in one transaction. *)
ReadSnapshot(f) ==
  /\ f \in fibers /\ f.answer = NoAnswer /\ IsFetch(f.request)
  /\ \/ Answers(f, Len(log)) /\ UNCHANGED bounds
     \/ Answers(f, Refused) /\ Fault
  /\ UNCHANGED <<log, published, socket, transport, router, composer>>

Dispatch(f) ==
  /\ f \in fibers /\ f.answer = NoAnswer /\ ~IsFetch(f.request)
  /\ \/ /\ log' = Append(log, f.request.message)
        /\ Answers(f, Len(log'))
        /\ UNCHANGED bounds
     \/ /\ Fault
        /\ Answers(f, Refused)
        /\ UNCHANGED log
  /\ UNCHANGED <<published, socket, transport, router, composer>>

Respond(f) ==
  /\ f \in fibers /\ f.answer # NoAnswer
  /\ fibers' = fibers \ {f}
  /\ down' = IF f.live THEN Append(down, Reply(f)) ELSE down
  /\ UNCHANGED <<log, published, open, transport, router, composer, bounds>>

(* What other clients, the provider and the reactors have committed. *)
CommitOther ==
  /\ others < scope.others
  /\ others' = others + 1
  /\ log' = Append(log, NoMessage)
  /\ UNCHANGED <<published, fibers, socket, transport, router, composer, sends, faults, scope>>

(* broadcastPush of the next domain event, to the open sockets. *)
Publish ==
  /\ published < Len(log)
  /\ published' = published + 1
  /\ down' = IF open THEN Append(down, Event(published')) ELSE down
  /\ UNCHANGED <<log, fibers, open, transport, router, composer, bounds>>

(* A new server process has no fibers, and never broadcasts what the old   *)
(* one had committed but not broadcast.                                    *)
Crash ==
  /\ Fault
  /\ fibers' = {}
  /\ published' = Len(log)
  /\ open' = FALSE /\ down' = << >>
  /\ UNCHANGED <<log, transport, router, composer>>

-----------------------------------------------------------------------------
(* The socket.  The server knows the client, and greets it, from the       *)
(* moment it is open.  A dropped one loses requests the server has not     *)
(* handled and all answers and pushes on their way.                        *)
Connect ==
  /\ ~open
  /\ open' = TRUE
  /\ down' = <<Welcome>>
  /\ UNCHANGED <<server, transport, router, composer, bounds>>

(* Mutated form: the transport sends what was not answered again. *)
Drop_Resends ==
  /\ open
  /\ Fault
  /\ open' = FALSE /\ down' = << >>
  /\ waiting' = waiting \cup {f.request : f \in {g \in fibers : g.live}}
  /\ fibers' = {[f EXCEPT !.live = FALSE] : f \in fibers}
  /\ UNCHANGED <<log, published, welcomed, router, composer>>

Drop ==
  /\ open
  /\ Fault
  /\ open' = FALSE /\ down' = << >>
  /\ \E lost \in SUBSET {f \in fibers : f.answer = NoAnswer} :
       fibers' = {[f EXCEPT !.live = FALSE] : f \in fibers \ lost}
  /\ UNCHANGED <<log, published, transport, router, composer>>

-----------------------------------------------------------------------------
(* What the client does with the next message on the socket.               *)
Receive(type) == /\ down # << >> /\ Head(down).type = type
                 /\ down' = Tail(down)
                 /\ UNCHANGED <<log, published, open, bounds>>

ReceiveWelcome ==
  /\ Receive("welcome")
  /\ welcomed' = TRUE
  /\ SyncSnapshot
  /\ UNCHANGED <<view, latest, gaveUp, composer>>

ReceiveEvent ==
  LET n == Head(down).n
  IN /\ Receive("event")
     /\ IF n <= latest
        THEN UNCHANGED <<latest, syncing, resync, fetching>> /\ NothingIssued
        ELSE latest' = n /\ SyncSnapshot
     /\ UNCHANGED <<welcomed, view, gaveUp, composer>>

(* Mutated form: any answer to a snapshot request will do. *)
Awaited_Any(id) == id # dispatching /\ syncing

(* The request an answer belongs to is still in the transport's map, and   *)
(* the router that made it still mounted.                                  *)
Awaited(id) == id = fetching

(* flushSnapshotSync after its await: the snapshot is stored, and fetched  *)
(* again if a sync was asked for meanwhile.  Messages of the snapshot are  *)
(* optimistic no more.                                                     *)
ReceiveSnapshot ==
  LET n == Head(down).n
  IN /\ Receive("response") /\ Awaited(Head(down).id) /\ n # Refused
     /\ view' = n
     /\ latest' = IF n > latest THEN n ELSE latest
     /\ resync' = FALSE
     /\ optimistic' = {m \in optimistic : \A i \in 1 .. n : log[i] # m}
     /\ IF resync THEN fetching' = nextId /\ Issue(NoMessage) /\ UNCHANGED <<syncing, gaveUp>>
        ELSE syncing' = FALSE /\ fetching' = NoRequest /\ gaveUp' = FALSE /\ NothingIssued
     /\ UNCHANGED <<welcomed, prompt, sending, dispatching, typed, reported>>

(* The catch of syncSnapshot. *)
SyncFails == /\ syncing' = FALSE /\ fetching' = NoRequest /\ gaveUp' = TRUE
             /\ UNCHANGED <<view, latest, resync, composer>>

ReceiveNoSnapshot ==
  /\ Receive("response") /\ Awaited(Head(down).id) /\ Head(down).n = Refused
  /\ SyncFails
  /\ NothingIssued /\ UNCHANGED welcomed

(* The transport has forgotten the request, or the router was unmounted.   *)
ReceiveStale ==
  /\ Receive("response")
  /\ ~Awaited(Head(down).id) /\ Head(down).id # dispatching
  /\ NothingIssued
  /\ UNCHANGED <<welcomed, router, composer>>

-----------------------------------------------------------------------------
(* The user and the composer                                               *)
TypeText ==
  /\ prompt = NoText /\ typed < MaxTexts /\ scope.sends > 0
  /\ typed' = typed + 1
  /\ prompt' = typed'
  /\ UNCHANGED <<server, socket, transport, router, optimistic, sending, dispatching, reported,
                 bounds>>

(* onSend: every attempt is a message with an id of its own. *)
Send ==
  LET m == [text |-> prompt, id |-> nextId]
  IN /\ prompt # NoText /\ dispatching = NoRequest
     /\ sends < scope.sends /\ sends' = sends + 1
     /\ Issue(m)
     /\ prompt' = NoText
     /\ optimistic' = optimistic \cup {m}
     /\ sending' = m /\ dispatching' = m.id
     /\ UNCHANGED <<log, published, socket, welcomed, router, typed, reported, others,
                    faults, scope>>

(* Mutated form: the optimistic message goes though the prompt is in use. *)
SendFailed_Forgets ==
  /\ dispatching' = NoRequest
  /\ reported' = [reported EXCEPT ![sending.text] = @ + 1]
  /\ optimistic' = optimistic \ {sending}
  /\ prompt' = IF prompt = NoText THEN sending.text ELSE prompt
  /\ UNCHANGED <<sending, typed>>

(* The catch of onSend: the text returns to the composer if that is empty. *)
SendFailed ==
  /\ dispatching' = NoRequest
  /\ reported' = [reported EXCEPT ![sending.text] = @ + 1]
  /\ IF prompt = NoText THEN prompt' = sending.text /\ optimistic' = optimistic \ {sending}
     ELSE UNCHANGED <<prompt, optimistic>>
  /\ UNCHANGED <<sending, typed>>

ReceiveDispatched ==
  /\ Receive("response") /\ Head(down).id = dispatching
  /\ IF Head(down).n = Refused THEN SendFailed
     ELSE /\ dispatching' = NoRequest
          /\ UNCHANGED <<prompt, optimistic, sending, typed, reported>>
  /\ NothingIssued
  /\ UNCHANGED <<welcomed, router>>

-----------------------------------------------------------------------------
(* Requests that time out.                                                 *)

(* Nothing will answer the request any more. *)
IsLost(id) ==
  /\ \A r \in waiting : r.id # id
  /\ \A f \in fibers : f.request.id = id => ~f.live
  /\ \A i \in DOMAIN down : down[i].id # id

Expires(id) == /\ id # NoRequest
               /\ waiting' = {r \in waiting : r.id # id}
               /\ UNCHANGED <<server, socket, welcomed>>

SyncExpires == Expires(fetching) /\ SyncFails

SendExpires == Expires(dispatching) /\ SendFailed /\ UNCHANGED router

TimeoutLost == /\ \/ IsLost(fetching) /\ SyncExpires
                  \/ IsLost(dispatching) /\ SendExpires
               /\ UNCHANGED bounds

TimeoutSlow == /\ \/ ~IsLost(fetching) /\ SyncExpires
                  \/ ~IsLost(dispatching) /\ SendExpires
               /\ Fault

(* EventRouter is mounted anew: it fetches a snapshot, and the welcome the *)
(* transport has cached asks for another.  The old one is disposed.        *)
Remount ==
  /\ Fault
  /\ latest' = 0 /\ syncing' = TRUE /\ resync' = welcomed
  /\ fetching' = nextId /\ Issue(NoMessage)
  /\ UNCHANGED <<log, published, socket, welcomed, view, gaveUp, composer>>

-----------------------------------------------------------------------------
(* The page has been loaded: EventRouter waits for its first snapshot.     *)
Init ==
  /\ log = << >> /\ published = 0 /\ fibers = {}
  /\ open = FALSE /\ down = << >>
  /\ waiting = {[id |-> 1, message |-> NoMessage]} /\ welcomed = FALSE
  /\ view = 0 /\ latest = 0 /\ syncing = TRUE /\ resync = FALSE /\ fetching = 1 /\ gaveUp = FALSE
  /\ prompt = NoText /\ optimistic = {} /\ sending = NoMessage /\ dispatching = NoRequest
  /\ typed = 0 /\ reported = [t \in Texts |-> 0]
  /\ sends = 0 /\ others = 0 /\ faults = 0 /\ scope \in Scopes

Handle   == \E f \in fibers : ReadSnapshot(f) \/ Dispatch(f) \/ Respond(f)
Server   == Handle \/ Publish
Receives == \/ ReceiveWelcome \/ ReceiveEvent
            \/ ReceiveSnapshot \/ ReceiveNoSnapshot \/ ReceiveStale \/ ReceiveDispatched
Flush    == \E r \in waiting : SendWaiting(r)
User     == Send \/ TypeText
Environment == CommitOther \/ Crash \/ Drop \/ TimeoutSlow \/ Remount

Next == Server \/ Receives \/ Flush \/ User \/ Environment \/ Connect \/ TimeoutLost

Spec == Init /\ [][Next]_vars

(* The server's fibers and its broadcast go on, the socket delivers, the   *)
(* transport reconnects, flushes what waits and times out what is lost.    *)
FairSpec == /\ Spec
            /\ WF_vars(Handle) /\ WF_vars(Publish)
            /\ WF_vars(Receives) /\ WF_vars(Flush) /\ WF_vars(Connect) /\ WF_vars(TimeoutLost)
-----------------------------------------------------------------------------
TypeOK ==
  /\ log \in Seq(Message \cup {NoMessage}) /\ published \in 0 .. Len(log)
  /\ fibers \subseteq Fiber
  /\ open \in BOOLEAN
  /\ down \in Seq([type : {"welcome", "event", "response"}, id : Ids \cup {0}, n : Answer])
  /\ waiting \subseteq Request /\ welcomed \in BOOLEAN
  /\ view \in 0 .. Len(log) /\ latest \in 0 .. Len(log)
  /\ {syncing, resync, gaveUp} \subseteq BOOLEAN
  /\ {fetching, dispatching} \subseteq Ids \cup {NoRequest}
  /\ prompt \in Texts \cup {NoText} /\ optimistic \subseteq Message
  /\ sending \in Message \cup {NoMessage}
  /\ typed \in 0 .. MaxTexts /\ reported \in [Texts -> Nat]
  /\ {sends, others, faults} \subseteq Nat /\ scope \in Scopes

(* The client implements the follower of the log: whatever is answered     *)
(* late, lost or out of order, its state only moves forward through states *)
(* the server has committed.                                               *)
Follower == INSTANCE LogFollower WITH Entries <- Message \cup {NoMessage}, shown <- view
FollowerSpec == Follower!Spec

(* The client ends up with everything that was committed, events that were *)
(* committed while it was away or never broadcast included, unless its     *)
(* last snapshot request failed: then it waits for the next event.         *)
CatchesUp == <>[](view = Len(log) \/ gaveUp)

(* No text the user has sent vanishes: it is in the conversation, or shown *)
(* as being sent, or back in the composer.                                 *)
TextKept ==
  \A t \in 1 .. typed :
    \/ prompt = t
    \/ \E m \in optimistic : m.text = t
    \/ \E i \in 1 .. view : log[i].text = t

(* A text reaches the thread again only if the user was told that sending  *)
(* it had failed, however often sockets drop.                              *)
SentOnce ==
  \A t \in Texts : Cardinality({i \in DOMAIN log : log[i].text = t}) <= 1 + reported[t]
=============================================================================
