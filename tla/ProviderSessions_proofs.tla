------------------------ MODULE ProviderSessions_proofs ------------------------
(***************************************************************************)
(* What is stored of a provider session is what runs, and the stored       *)
(* conversation is kept, for any number of requests, turns, processes and  *)
(* faults.                                                                 *)
(*                                                                         *)
(* The argument: between the start of a session and the row that is stored *)
(* for it the reactor is busy, so nobody else starts one; the map holds    *)
(* the session that was started, or nothing when its process has exited.   *)
(*                                                                         *)
(* A turn that is shown ends: a live process runs it, or its end is queued.*)
(***************************************************************************)
EXTENDS ProviderSessions, TLAPS, SequenceTheorems

Starting == reactor.at \in {"open", "upsert"}
Asked    == reactor.at \in {"reply", "record"}

(* A program that has ended has left nothing behind but its database. *)
NothingRuns == ~up => reactor = Idle /\ intents = << >> /\ Live = {}

(* The session that is being started is the one in the map, if any is. *)
StartedIsCurrent ==
  /\ reactor.at \in {"open", "upsert", "reply"} => reactor.server \in DOMAIN servers
  /\ Starting => current \in {0, reactor.server}
  /\ reactor.at = "upsert" /\ current # 0
       => servers[current].conversation = reactor.conversation /\ reactor.conversation # 0

(* It goes on with the stored conversation unless that is given up; so     *)
(* does the session a turn was sent to.                                    *)
GoesOn ==
  /\ Starting /\ ~reactor.excused /\ binding # None
       => reactor.conversation = binding.conversation /\ reactor.conversation # 0
  /\ Asked => binding # None /\ reactor.conversation = binding.conversation

ConversationOpen ==
  up /\ current # 0 /\ ~Starting => servers[current].conversation # 0

(* The inductive invariant. *)
IInv == /\ TypeOK /\ NothingRuns /\ StartedIsCurrent /\ GoesOn /\ ConversationOpen
        /\ RecoversWhatRan /\ OnlyRestartsStrand

-----------------------------------------------------------------------------
(* Types *)

LEMMA Replaced ==
  ASSUME NEW S, NEW q \in Seq(S), NEW i, NEW x \in S
  PROVE  /\ [q EXCEPT ![i] = x] \in Seq(S)
         /\ DOMAIN [q EXCEPT ![i] = x] = DOMAIN q
         /\ Len([q EXCEPT ![i] = x]) = Len(q)
         /\ \A j \in DOMAIN q : [q EXCEPT ![i] = x][j] = IF j = i THEN x ELSE q[j]
<1> DEFINE r == [q EXCEPT ![i] = x]
<1>1. Len(q) \in Nat /\ DOMAIN q = 1 .. Len(q) /\ q \in [1 .. Len(q) -> S]
  OBVIOUS
<1>2. r \in [1 .. Len(q) -> S] /\ \A j \in DOMAIN q : r[j] = IF j = i THEN x ELSE q[j]
  BY <1>1
<1> HIDE DEF r
<1>3. r \in Seq(S) /\ Len(r) = Len(q)
  BY <1>1, <1>2, SeqDef, LenProperties
<1>. QED  BY <1>1, <1>2, <1>3 DEF r

LEMMA Appended ==
  ASSUME NEW S, NEW q \in Seq(S), NEW x \in S
  PROVE  /\ Append(q, x) \in Seq(S)
         /\ DOMAIN Append(q, x) = DOMAIN q \cup {Len(q) + 1}
         /\ Append(q, x)[Len(q) + 1] = x /\ Len(q) + 1 \in Nat \ {0}
         /\ \A j \in DOMAIN q : Append(q, x)[j] = q[j] /\ j # Len(q) + 1
OBVIOUS

LEMMA IdleType == Idle \in Reactor /\ Idle.at = "idle"
BY DEF Idle, Reactor, Requests, Modes

LEMMA GoType ==
  ASSUME reactor \in Reactor,
         NEW step \in {"upsert", "bind", "route", "send", "record", "stopped"}, Go(step)
  PROVE  /\ reactor' \in Reactor /\ reactor'.at = step
         /\ reactor'.server = reactor.server /\ reactor'.conversation = reactor.conversation
         /\ reactor'.excused = reactor.excused
BY DEF Go, Reactor

LEMMA ReportType ==
  ASSUME TypeOK, NEW turn \in Nat,
         NEW type \in {"connecting", "ready", "exited", "error", "turn.started", "turn.completed"}
  PROVE  /\ Report(type, turn) \in Seq(Event)
         /\ runtime \o Report(type, turn) \in Seq(Event)
<1>1. [type |-> type, turn |-> turn] \in Event
  BY DEF Event
<1>2. Report(type, turn) \in Seq(Event)
  BY <1>1 DEF Report
<1>. QED  BY <1>2 DEF TypeOK

LEMMA ServerType ==
  /\ \A s \in Server : Dead(s) \in Server /\ ~Dead(s).live
  /\ \A mode \in Modes, c \in Nat :
       Booted(mode, c) \in Server /\ Booted(mode, c).live
         /\ Booted(mode, c).mode = mode /\ Booted(mode, c).conversation = c
BY DEF Server, Dead, Booted

LEMMA FaultType ==
  ASSUME TypeOK, Fault \/ UNCHANGED faults
  PROVE  faults' \in 0 .. MaxFaults
BY SessionsAssumption DEF TypeOK, Fault

(* A context is replaced by one that runs exactly when it did. *)
LEMMA SameLive ==
  ASSUME TypeOK, NEW n \in DOMAIN servers, NEW x \in Server, x.live = servers[n].live,
         servers' = [servers EXCEPT ![n] = x]
  PROVE  /\ servers' \in Seq(Server) /\ DOMAIN servers' = DOMAIN servers /\ Live' = Live
         /\ servers'[n] = x /\ \A j \in DOMAIN servers : j # n => servers'[j] = servers[j]
<1>1. servers \in Seq(Server)
  BY DEF TypeOK
<1>. QED  BY <1>1, Replaced DEF Live

LEMMA OneDead ==
  ASSUME TypeOK, NEW n \in DOMAIN servers, servers' = [servers EXCEPT ![n] = Dead(servers[n])]
  PROVE  /\ servers' \in Seq(Server) /\ DOMAIN servers' = DOMAIN servers
         /\ Live' = Live \ {n}
<1>1. servers \in Seq(Server) /\ servers[n] \in Server
  BY DEF TypeOK
<1>2. Dead(servers[n]) \in Server /\ ~Dead(servers[n]).live
  BY <1>1, ServerType
<1>3. PICK d : d = Dead(servers[n])
  OBVIOUS
<1>4. /\ servers' \in Seq(Server) /\ DOMAIN servers' = DOMAIN servers
      /\ \A j \in DOMAIN servers : servers'[j] = IF j = n THEN d ELSE servers[j]
  BY <1>1, <1>2, <1>3, Replaced
<1>5. \A j \in DOMAIN servers : j = n => ~servers'[j].live
  BY <1>2, <1>3, <1>4
<1>. QED  BY <1>4, <1>5 DEF Live

LEMMA OneMore ==
  ASSUME TypeOK, NEW x \in Server, x.live, servers' = Append(servers, x)
  PROVE  /\ servers' \in Seq(Server) /\ Len(servers) + 1 \in DOMAIN servers'
         /\ servers'[Len(servers) + 1] = x /\ Len(servers) + 1 \in Nat \ {0}
         /\ Live' = Live \cup {Len(servers) + 1}
<1>1. servers \in Seq(Server)
  BY DEF TypeOK
<1>. QED  BY <1>1, Appended DEF Live

LEMMA ServerFacts ==
  ASSUME TypeOK
  PROVE  /\ servers \in Seq(Server) /\ DOMAIN servers \subseteq Nat \ {0}
         /\ current # 0 => current \in DOMAIN servers /\ servers[current].live
         /\ \A n \in DOMAIN servers : servers[n] \in Server
         /\ current \in Nat
<1>1. servers \in Seq(Server) /\ current \in Live \cup {0}
  BY DEF TypeOK
<1>. QED  BY <1>1 DEF Live

-----------------------------------------------------------------------------
LEMMA InitKeeps == Init => IInv
<1> SUFFICES ASSUME Init PROVE IInv
  OBVIOUS
<1>1. TypeOK
  <2>1. 0 \in 0 .. MaxRequests /\ 0 \in 0 .. MaxFaults /\ threadMode \in Modes
    BY SessionsAssumption DEF Init
  <2>2. << >> \in Seq(Requests) /\ << >> \in Seq(Server) /\ << >> \in Seq(Event)
    OBVIOUS
  <2>. QED  BY <2>1, <2>2, IdleType DEF Init, TypeOK
<1>2. Live = {} /\ reactor.at = "idle"
  BY IdleType DEF Init, Live
<1>. QED
  BY <1>1, <1>2 DEF Init, IInv, NothingRuns, StartedIsCurrent, GoesOn, ConversationOpen,
                    RecoversWhatRan, OnlyRestartsStrand, Starting, Asked

LEMMA BusyIsUp == ASSUME IInv, reactor.at # "idle" PROVE up
BY IdleType DEF IInv, NothingRuns

(* Steps that concern neither what is stored nor the processes, and after  *)
(* which no session is being started.                                      *)
LEMMA QuietSteps ==
  ASSUME IInv, TypeOK', UNCHANGED <<binding, servers, current, up, displaced>>,
         ~up => UNCHANGED <<reactor, intents>>,
         \/ UNCHANGED reactor
         \/ ~Starting /\ reactor'.at \notin {"open", "upsert", "reply", "record"}
  PROVE  IInv'
<1>1. Live' = Live
  BY DEF Live
<1>2. CASE UNCHANGED reactor
  BY <1>1, <1>2 DEF IInv, NothingRuns, StartedIsCurrent, GoesOn, ConversationOpen,
                    RecoversWhatRan, OnlyRestartsStrand, Starting, Asked
<1>3. CASE ~Starting /\ reactor'.at \notin {"open", "upsert", "reply", "record"}
  BY <1>1, <1>3 DEF IInv, NothingRuns, StartedIsCurrent, GoesOn, ConversationOpen,
                    RecoversWhatRan, OnlyRestartsStrand, Starting, Asked
<1>. QED  BY <1>2, <1>3

LEMMA AskKeeps == ASSUME IInv, NEW request \in Requests, Ask(request) PROVE IInv'
<1>1. threadMode' \in Modes /\ requests' \in 0 .. MaxRequests /\ intents' \in Seq(Requests)
  BY SessionsAssumption DEF Ask, IInv, TypeOK
<1>2. UNCHANGED <<binding, servers, current, up, displaced, reactor>> /\ up
  BY DEF Ask, processes, history
<1>3. TypeOK'
  BY <1>1, <1>2 DEF Ask, processes, history, IInv, TypeOK, Live
<1>. QED  BY <1>2, <1>3, QuietSteps

LEMMA TakeKeeps == ASSUME IInv, Take PROVE IInv'
<1>1. PICK job : job = Head(intents)
  OBVIOUS
<1>2. PICK step : step = FirstStep(job)
  OBVIOUS
<1>3. PICK mode : mode = IF job # "stop" THEN threadMode
                         ELSE IF session = None THEN "full-access" ELSE session.mode
  OBVIOUS
<1>4. job \in Requests /\ intents' \in Seq(Requests)
  BY <1>1 DEF Take, IInv, TypeOK
<1>5. mode \in Modes
  BY <1>3 DEF IInv, TypeOK, Session, Modes
<1>6. step \in {"idle", "start", "restart", "route", "kill", "stopped"}
  BY <1>2, <1>4 DEF FirstStep, Ensure, Requests
<1>7. /\ UNCHANGED <<threadMode, requests, session, binding, servers, current, runtime, ingest, up,
                      turns, faults, displaced, ended>>
      /\ reactor' = IF step = "idle" THEN Idle
                    ELSE [Idle EXCEPT !.at = step, !.job = job, !.want = mode]
      /\ reactor.at = "idle" /\ intents # << >>
  BY <1>1, <1>2, <1>3 DEF Take, processes, history
<1>8. reactor' \in Reactor /\ reactor'.at = step
  BY <1>4, <1>5, <1>6, <1>7, IdleType DEF Reactor
<1>9. TypeOK'
  BY <1>4, <1>7, <1>8 DEF IInv, TypeOK, Live
<1>10. up
  BY <1>7 DEF IInv, NothingRuns
<1>. QED  BY <1>6, <1>7, <1>8, <1>9, <1>10, QuietSteps DEF Starting

LEMMA StartRefusedKeeps == ASSUME IInv, StartRefused PROVE IInv'
<1>1. /\ UNCHANGED <<user, session, binding, servers, current, ingest, up, turns, displaced, ended>>
      /\ reactor' = Idle /\ reactor.at \in {"start", "restart", "route"} /\ up
  BY BusyIsUp DEF StartRefused, processes, history
<1>2. runtime' \in Seq(Event) /\ faults' \in 0 .. MaxFaults
  BY ReportType, FaultType DEF StartRefused, IInv
<1>3. TypeOK'
  BY <1>1, <1>2, IdleType DEF user, IInv, TypeOK, Live
<1>. QED  BY <1>1, <1>3, IdleType, QuietSteps DEF Starting

LEMMA BindKeeps == ASSUME IInv, Bind PROVE IInv'
<1>1. /\ UNCHANGED <<user, binding, servers, current, runtime, ingest, up, turns, faults, displaced,
                      ended>>
      /\ reactor.at = "bind" /\ up
  BY BusyIsUp DEF Bind, processes, history
<1>2. reactor' \in Reactor /\ reactor'.at \in {"route", "idle"}
  BY GoType, IdleType DEF Bind, IInv, TypeOK
<1>3. session' \in Session
  BY DEF Bind, IInv, TypeOK, Reactor, Session
<1>4. TypeOK'
  BY <1>1, <1>2, <1>3 DEF user, IInv, TypeOK, Live
<1>. QED  BY <1>1, <1>2, <1>4, QuietSteps DEF Starting

LEMMA RouteKeeps == ASSUME IInv, Route \/ Timeout PROVE IInv'
<1>1. /\ UNCHANGED <<user, session, binding, servers, current, runtime, ingest, up, turns, faults,
                      displaced, ended>>
      /\ reactor.at \in {"route", "reply"} /\ up
  BY BusyIsUp DEF Route, Timeout, processes, history
<1>2. reactor' \in Reactor /\ reactor'.at \in {"send", "idle"}
  BY GoType, IdleType DEF Route, Timeout, IInv, TypeOK
<1>3. TypeOK'
  BY <1>1, <1>2 DEF user, IInv, TypeOK, Live
<1>. QED  BY <1>1, <1>2, <1>3, QuietSteps DEF Starting

LEMMA SetStoppedKeeps == ASSUME IInv, SetStopped PROVE IInv'
<1>1. /\ UNCHANGED <<user, binding, servers, current, runtime, ingest, up, turns, faults, displaced,
                      ended>>
      /\ reactor.at = "stopped" /\ up /\ reactor' = Idle
  BY BusyIsUp DEF SetStopped, processes, history
<1>2. session' \in Session
  BY DEF SetStopped, IInv, TypeOK, Reactor, Session
<1>3. TypeOK'
  BY <1>1, <1>2, IdleType DEF user, IInv, TypeOK, Live
<1>. QED  BY <1>1, <1>3, IdleType, QuietSteps DEF Starting

LEMMA IngestReadKeeps == ASSUME IInv, IngestRead PROVE IInv'
<1>1. /\ UNCHANGED <<user, session, binding, reactor, servers, current, up, turns, faults,
                      displaced, ended>>
  BY DEF IngestRead, processes, history
<1>2. /\ runtime' \in Seq(Event)
      /\ ingest' \in [event : Event, seen : Session \cup {None}]
  BY DEF IngestRead, IInv, TypeOK
<1>3. TypeOK'
  BY <1>1, <1>2 DEF user, IInv, TypeOK, Live
<1>. QED  BY <1>1, <1>3, QuietSteps DEF user

LEMMA IngestWriteKeeps == ASSUME IInv, IngestWrite PROVE IInv'
<1>1. /\ UNCHANGED <<user, binding, reactor, servers, current, runtime, up, turns, faults,
                      displaced, ended>>
      /\ ingest' = None
  BY DEF IngestWrite, processes, history
<1>2. PICK event, seen : event = ingest.event /\ seen = ingest.seen
  OBVIOUS
<1>3. event \in Event /\ seen \in Session \cup {None}
  BY <1>2 DEF IngestWrite, IInv, TypeOK
<1>4. SeenMode(seen) \in Modes /\ SeenTurn(seen) \in Nat
  BY <1>3 DEF SeenMode, SeenTurn, Session, Modes
<1>5. StatusAfter(event.type) \in {"starting", "ready", "running", "stopped", "error"}
  BY <1>3 DEF StatusAfter, Event
<1>6. TurnAfter(event, seen) \in Nat
  BY <1>3, <1>4 DEF TurnAfter, Event
<1>7. session' \in Session \cup {None}
  <2>1. [status |-> StatusAfter(event.type), mode |-> SeenMode(seen),
         turn |-> TurnAfter(event, seen)] \in Session
    BY <1>4, <1>5, <1>6 DEF Session
  <2>. QED  BY <1>2, <2>1 DEF IngestWrite, IInv, TypeOK
<1>8. TypeOK'
  BY <1>1, <1>7 DEF user, IInv, TypeOK, Live
<1>. QED  BY <1>1, <1>8, QuietSteps DEF user

-----------------------------------------------------------------------------
(* Starting a session *)

LEMMA SpawnKeeps ==
  ASSUME IInv, NEW mode \in Modes, NEW conversation \in Nat,
         NEW recovering \in BOOLEAN, NEW excused \in BOOLEAN,
         Spawn(mode, conversation, recovering, excused), up, ~Starting,
         UNCHANGED <<user, session, binding, ingest, up, turns, faults, ended>>,
         ~excused /\ binding # None => conversation = binding.conversation /\ conversation # 0
  PROVE  IInv'
<1> DEFINE new == Len(servers) + 1
           x   == Booted(mode, 0)
<1>1. x \in Server /\ x.live
  BY ServerType
<1>2. servers' = Append(servers, x) /\ current' = new
  BY DEF Spawn
<1>3. /\ servers' \in Seq(Server) /\ new \in DOMAIN servers' /\ new \in Nat \ {0}
      /\ Live' = Live \cup {new}
  BY <1>1, <1>2, OneMore DEF IInv
<1> HIDE DEF new, x
<1>4. /\ reactor' \in Reactor /\ reactor'.at = "open" /\ reactor'.server = new
      /\ reactor'.conversation = conversation /\ reactor'.excused = excused
  <2>1. reactor' = [reactor EXCEPT !.at = "open", !.server = new, !.conversation = conversation,
                                   !.recovering = recovering, !.excused = excused]
    BY DEF Spawn, new
  <2>. QED  BY <1>3, <2>1 DEF IInv, TypeOK, Reactor
<1>5. runtime' \in Seq(Event) /\ displaced' \in BOOLEAN
  <2>1. displaced' = (displaced \/ current # 0)
    BY DEF Spawn
  <2>2. (displaced \/ current # 0) \in BOOLEAN
    OBVIOUS
  <2>. QED  BY <2>1, <2>2, ReportType DEF Spawn, IInv
<1>6. TypeOK'
  BY <1>2, <1>3, <1>4, <1>5 DEF user, IInv, TypeOK
<1>7. OnlyRestartsStrand'
  <2>1. ~displaced' => ~displaced /\ current = 0
    BY DEF Spawn
  <2>. QED  BY <1>2, <1>3, <2>1, ServerFacts DEF IInv, OnlyRestartsStrand, Live
<1>. QED
  BY <1>2, <1>3, <1>4, <1>6, <1>7
     DEF IInv, NothingRuns, StartedIsCurrent, GoesOn, ConversationOpen, RecoversWhatRan, Starting,
         Asked

LEMMA BindingType ==
  ASSUME TypeOK, binding # None
  PROVE  binding \in Binding /\ binding.conversation \in Nat /\ binding.mode \in Modes
BY DEF TypeOK, Binding

LEMMA StartKeeps == ASSUME IInv, Start PROVE IInv'
<1> DEFINE conversation == ResumedBy(reactor.at)
           excused == reactor.at = "start" \/ current = 0
<1>1. /\ Spawn(reactor.want, conversation, FALSE, excused)
      /\ UNCHANGED <<user, session, binding, ingest, up, turns, faults, ended>>
      /\ reactor.at \in {"start", "restart"} /\ up
  BY BusyIsUp DEF Start
<1>2. conversation \in Nat /\ reactor.want \in Modes /\ excused \in BOOLEAN
  BY ServerFacts DEF ResumedBy, IInv, TypeOK, Server, Reactor
<1>3. ~excused /\ binding # None => conversation = binding.conversation /\ conversation # 0
  BY <1>1 DEF ResumedBy, IInv, RecoversWhatRan, ConversationOpen, Starting
<1> HIDE DEF conversation, excused
<1>. QED  BY <1>1, <1>2, <1>3, SpawnKeeps DEF Starting

LEMMA RecoverKeeps == ASSUME IInv, Recover PROVE IInv'
<1>1. /\ Spawn(binding.mode, binding.conversation, TRUE, FALSE)
      /\ UNCHANGED <<user, session, binding, ingest, up, turns, faults, ended>>
      /\ reactor.at = "route" /\ up /\ HasCursor
  BY BusyIsUp DEF Recover
<1>2. binding.mode \in Modes /\ binding.conversation \in Nat /\ binding.conversation # 0
  BY <1>1, BindingType DEF HasCursor, IInv
<1>. QED  BY <1>1, <1>2, SpawnKeeps DEF Starting

(* The answer names the conversation: the one asked for, unless it is lost *)
(* or none was, which gives the stored one up.                             *)
LEMMA OpenedKeeps == ASSUME IInv, Opened PROVE IInv'
<1> DEFINE n == reactor.server
<1>1. PICK conversation \in {reactor.conversation, n} \ {0} :
        /\ servers' = [servers EXCEPT ![n].conversation = conversation]
        /\ LET lost == reactor.conversation \notin {0, conversation}
           IN  /\ reactor' = [reactor EXCEPT !.at = "upsert", !.excused = @ \/ lost,
                                             !.conversation = conversation]
               /\ IF lost THEN Fault ELSE UNCHANGED faults
  BY DEF Opened
<1>2. /\ UNCHANGED <<user, session, binding, current, ingest, up, turns, displaced, ended>>
      /\ reactor.at = "open" /\ up /\ runtime' = runtime \o Report("ready", 0)
  BY BusyIsUp DEF Opened
<1>3. n \in DOMAIN servers /\ servers[n] \in Server /\ n \in Nat /\ current \in {0, n}
  BY <1>2, ServerFacts DEF IInv, StartedIsCurrent, Starting
<1>4. conversation \in Nat /\ conversation # 0
  BY <1>1, <1>3 DEF IInv, TypeOK, Reactor
<1> DEFINE x == [servers[n] EXCEPT !.conversation = conversation]
<1>5. x \in Server /\ x.live = servers[n].live /\ x.conversation = conversation
  BY <1>3, <1>4 DEF Server
<1>6. servers' = [servers EXCEPT ![n] = x]
  BY <1>1, <1>3
<1> HIDE DEF x, n
<1>7. /\ servers' \in Seq(Server) /\ DOMAIN servers' = DOMAIN servers /\ Live' = Live
      /\ servers'[n] = x
  BY <1>3, <1>5, <1>6, SameLive DEF IInv
<1>8. PICK lost \in BOOLEAN : lost = (reactor.conversation \notin {0, conversation})
  OBVIOUS
<1>9. /\ reactor' \in Reactor /\ reactor'.at = "upsert" /\ reactor'.server = n
      /\ reactor'.conversation = conversation /\ reactor'.excused = (reactor.excused \/ lost)
  <2>1. reactor' = [reactor EXCEPT !.at = "upsert", !.excused = reactor.excused \/ lost,
                                   !.conversation = conversation]
    BY <1>1, <1>8
  <2>2. (reactor.excused \/ lost) \in BOOLEAN
    OBVIOUS
  <2>. QED  BY <1>4, <2>1, <2>2, Zenon DEF IInv, TypeOK, Reactor, n
<1>10. faults' \in 0 .. MaxFaults /\ runtime' \in Seq(Event)
  BY <1>1, <1>2, FaultType, ReportType DEF IInv
<1>11. TypeOK'
  BY <1>2, <1>7, <1>9, <1>10 DEF user, IInv, TypeOK
<1>12. GoesOn'
  <2>1. ~reactor'.excused => ~reactor.excused /\ reactor.conversation \in {0, conversation}
    BY <1>8, <1>9
  <2>. QED  BY <1>2, <1>4, <1>9, <2>1 DEF IInv, GoesOn, Starting, Asked
<1>13. StartedIsCurrent'
  BY <1>2, <1>3, <1>4, <1>5, <1>7, <1>9 DEF StartedIsCurrent, Starting
<1>. QED
  BY <1>2, <1>7, <1>9, <1>11, <1>12, <1>13
     DEF IInv, NothingRuns, ConversationOpen, RecoversWhatRan, OnlyRestartsStrand, Starting

(* Steps after which the map is empty: nothing is left to be compared with *)
(* the row, which stays or, for a session nobody starts, is removed.       *)
LEMMA EmptyMap ==
  ASSUME IInv, TypeOK', up, up', current' = 0, UNCHANGED displaced,
         DOMAIN servers' = DOMAIN servers, Live' \subseteq Live \ {current},
         \/ UNCHANGED <<binding, reactor>>
         \/ ~(Starting \/ Asked)'
  PROVE  IInv'
<1>1. OnlyRestartsStrand'
  BY ServerFacts DEF IInv, OnlyRestartsStrand
<1>2. CASE UNCHANGED <<binding, reactor>>
  BY <1>1, <1>2 DEF IInv, NothingRuns, StartedIsCurrent, GoesOn, ConversationOpen, RecoversWhatRan,
                    Starting, Asked
<1>3. CASE ~(Starting \/ Asked)'
  BY <1>1, <1>3 DEF IInv, NothingRuns, StartedIsCurrent, GoesOn, ConversationOpen, RecoversWhatRan,
                    Starting, Asked
<1>. QED  BY <1>2, <1>3

(* The context in the map is dead, if there is one. *)
LEMMA CurrentDead ==
  ASSUME TypeOK,
         servers' = IF current # 0 THEN [servers EXCEPT ![current] = Dead(servers[current])]
                    ELSE servers
  PROVE  /\ servers' \in Seq(Server) /\ DOMAIN servers' = DOMAIN servers
         /\ Live' = Live \ {current}
<1>1. CASE current = 0
  BY <1>1, ServerFacts DEF Live
<1>2. CASE current # 0
  BY <1>2, ServerFacts, OneDead
<1>. QED  BY <1>1, <1>2

LEMMA OpenFailsKeeps == ASSUME IInv, OpenFails PROVE IInv'
<1>1. /\ UNCHANGED <<user, session, binding, ingest, up, turns, displaced, ended>>
      /\ current' = 0 /\ reactor' = Idle /\ reactor.at = "open" /\ up
  BY BusyIsUp DEF OpenFails, history
<1>2. servers' = IF current # 0 THEN [servers EXCEPT ![current] = Dead(servers[current])]
                 ELSE servers
  BY DEF OpenFails
<1>3. /\ servers' \in Seq(Server) /\ DOMAIN servers' = DOMAIN servers
      /\ Live' = Live \ {current}
  BY <1>2, CurrentDead DEF IInv
<1>4. runtime' \in Seq(Event)
  <2>1. /\ runtime \o Report("error", 0) \in Seq(Event)
        /\ Report("exited", 0) \in Seq(Event) /\ << >> \in Seq(Event)
    BY ReportType DEF IInv
  <2>. QED  BY <2>1 DEF OpenFails
<1>5. faults' \in 0 .. MaxFaults
  BY FaultType DEF OpenFails, IInv
<1>6. TypeOK'
  BY <1>1, <1>3, <1>4, <1>5, IdleType DEF user, IInv, TypeOK
<1>. QED  BY <1>1, <1>3, <1>6, IdleType, EmptyMap DEF Starting, Asked

LEMMA StopSessionKeeps == ASSUME IInv, StopSession PROVE IInv'
<1>1. /\ UNCHANGED <<user, session, ingest, up, turns, faults, displaced, ended>>
      /\ binding' = None /\ reactor.at = "kill" /\ up
  BY BusyIsUp DEF StopSession, history
<1>2. binding = None => current = 0
  BY <1>1 DEF IInv, RecoversWhatRan
<1>3. /\ servers' = IF current # 0 THEN [servers EXCEPT ![current] = Dead(servers[current])]
                    ELSE servers
      /\ current' = 0
      /\ runtime' = runtime \/ runtime' = runtime \o Report("exited", 0)
  BY <1>2 DEF StopSession, processes
<1>4. reactor' \in Reactor /\ reactor'.at \in {"idle", "stopped"}
  BY GoType, IdleType DEF StopSession, IInv, TypeOK
<1>5. /\ servers' \in Seq(Server) /\ DOMAIN servers' = DOMAIN servers
      /\ Live' = Live \ {current}
  BY <1>3, CurrentDead DEF IInv
<1>6. runtime' \in Seq(Event)
  BY <1>3, ReportType DEF IInv, TypeOK
<1>7. TypeOK'
  BY <1>1, <1>3, <1>4, <1>5, <1>6 DEF user, IInv, TypeOK
<1>. QED  BY <1>1, <1>3, <1>4, <1>5, <1>7, EmptyMap DEF Starting, Asked

LEMMA UpsertKeeps == ASSUME IInv, Upsert PROVE IInv'
<1>1. /\ UNCHANGED <<user, session, servers, current, runtime, ingest, up, turns, faults, displaced,
                      ended>>
      /\ reactor.at = "upsert" /\ up
      /\ binding' = [status |-> "running", mode |-> servers[reactor.server].mode,
                     conversation |-> reactor.conversation]
  BY BusyIsUp DEF Upsert, processes, history
<1>2. reactor.server \in DOMAIN servers /\ servers[reactor.server] \in Server
  BY <1>1, ServerFacts DEF IInv, StartedIsCurrent
<1>3. binding' \in Binding /\ binding' # None
  BY <1>1, <1>2, NoneAssumption DEF IInv, TypeOK, Reactor, Server, Binding
<1>4. reactor' \in Reactor /\ reactor'.at \in {"bind", "send", "idle"}
  BY GoType, IdleType DEF Upsert, AfterUpsert, IInv, TypeOK
<1>5. TypeOK'
  BY <1>1, <1>3, <1>4 DEF user, IInv, TypeOK, Live
<1>6. current # 0 => /\ current = reactor.server /\ reactor.conversation # 0
                     /\ servers[current].conversation = reactor.conversation
  BY <1>1 DEF IInv, StartedIsCurrent, Starting
<1>7. Live' = Live
  BY <1>1 DEF Live
<1>. QED
  BY <1>1, <1>3, <1>4, <1>5, <1>6, <1>7
     DEF IInv, NothingRuns, StartedIsCurrent, GoesOn, ConversationOpen, RecoversWhatRan,
         OnlyRestartsStrand, Starting, Asked

LEMMA RecordKeeps == ASSUME IInv, Record PROVE IInv'
<1>1. /\ UNCHANGED <<user, session, servers, current, runtime, ingest, up, turns, faults, displaced,
                      ended>>
      /\ reactor.at = "record" /\ up /\ reactor' = Idle
      /\ binding # None /\ reactor.conversation = binding.conversation
  BY BusyIsUp DEF Record, processes, history, IInv, GoesOn, Asked
<1>2. binding' = [status |-> "running", conversation |-> binding.conversation,
                  mode |-> binding.mode]
  BY <1>1 DEF Record
<1>3. binding' \in Binding /\ binding' # None
  BY <1>1, <1>2, NoneAssumption, BindingType DEF IInv, Binding
<1>4. TypeOK'
  BY <1>1, <1>3, IdleType DEF user, IInv, TypeOK, Live
<1>5. Live' = Live
  BY <1>1 DEF Live
<1>. QED
  BY <1>1, <1>2, <1>3, <1>4, <1>5, IdleType
     DEF IInv, NothingRuns, StartedIsCurrent, GoesOn, ConversationOpen, RecoversWhatRan,
         OnlyRestartsStrand, Starting, Asked

(* Contexts that change nothing but what they were asked and their turn.   *)
SameContexts(before, after) ==
  /\ DOMAIN after = DOMAIN before
  /\ \A n \in DOMAIN before : /\ after[n].live = before[n].live
                              /\ after[n].mode = before[n].mode
                              /\ after[n].conversation = before[n].conversation

LEMMA TurnSteps ==
  ASSUME IInv, TypeOK', SameContexts(servers, servers'), up,
         UNCHANGED <<binding, current, up, displaced>>,
         \/ UNCHANGED reactor
         \/ /\ reactor.at = "reply" /\ reactor'.at = "record"
            /\ reactor'.conversation = reactor.conversation
         \/ /\ reactor.at = "send" /\ reactor'.at = "reply" /\ current # 0
            /\ reactor'.server = current /\ reactor'.conversation = servers[current].conversation
  PROVE  IInv'
<1>1. Live' = Live
  BY DEF SameContexts, Live
<1>2. current # 0 => current \in DOMAIN servers
  BY ServerFacts DEF IInv
<1>3. NothingRuns' /\ OnlyRestartsStrand'
  BY <1>1 DEF IInv, NothingRuns, OnlyRestartsStrand
<1>4. StartedIsCurrent'
  BY <1>2 DEF IInv, StartedIsCurrent, Starting, SameContexts
<1>5. GoesOn'
  BY DEF IInv, GoesOn, Starting, Asked, RecoversWhatRan
<1>6. ConversationOpen' /\ RecoversWhatRan'
  BY <1>2 DEF IInv, ConversationOpen, RecoversWhatRan, Starting, SameContexts
<1>. QED  BY <1>3, <1>4, <1>5, <1>6 DEF IInv

LEMMA TurnContexts ==
  ASSUME TypeOK, NEW n \in DOMAIN servers, NEW asked \in Nat, NEW turn \in Nat,
         servers' = [servers EXCEPT ![n] = [servers[n] EXCEPT !.asked = asked, !.turn = turn]]
  PROVE  servers' \in Seq(Server) /\ SameContexts(servers, servers') /\ Live' = Live
<1> DEFINE x == [servers[n] EXCEPT !.asked = asked, !.turn = turn]
<1>1. servers[n] \in Server
  BY ServerFacts
<1>2. /\ x \in Server /\ x.live = servers[n].live /\ x.mode = servers[n].mode
      /\ x.conversation = servers[n].conversation
  BY <1>1 DEF Server
<1> HIDE DEF x
<1>3. /\ servers' \in Seq(Server) /\ DOMAIN servers' = DOMAIN servers /\ Live' = Live
      /\ servers'[n] = x /\ \A j \in DOMAIN servers : j # n => servers'[j] = servers[j]
  BY <1>2, SameLive DEF x
<1>. QED  BY <1>2, <1>3 DEF SameContexts

LEMMA SendKeeps == ASSUME IInv, Send PROVE IInv'
<1>1. /\ UNCHANGED <<user, session, binding, current, runtime, ingest, up, turns, faults, displaced,
                      ended>>
      /\ reactor.at = "send" /\ up
  BY BusyIsUp DEF Send, history
<1>2. CASE current = 0
  <2>1. reactor' = Idle /\ servers' = servers
    BY <1>2 DEF Send
  <2>2. TypeOK'
    BY <1>1, <2>1, IdleType DEF user, IInv, TypeOK, Live
  <2>. QED  BY <1>1, <2>1, <2>2, IdleType, QuietSteps DEF Starting
<1>3. CASE current # 0
  <2> DEFINE x == servers[current]
  <2>1. current \in DOMAIN servers /\ current \in Nat /\ x \in Server
    BY <1>3, ServerFacts DEF IInv
  <2>2. x.asked + 1 \in Nat /\ x.turn \in Nat /\ x.conversation \in Nat
    BY <2>1 DEF Server
  <2>3. servers' = [servers EXCEPT ![current] = [x EXCEPT !.asked = x.asked + 1, !.turn = x.turn]]
    <3>1. [x EXCEPT !.asked = x.asked + 1] = [x EXCEPT !.asked = x.asked + 1, !.turn = x.turn]
      BY <2>1 DEF Server
    <3>. QED  BY <1>3, <2>1, <3>1 DEF Send
  <2>4. servers' \in Seq(Server) /\ SameContexts(servers, servers') /\ Live' = Live
    BY <2>1, <2>2, <2>3, TurnContexts DEF IInv
  <2>5. /\ reactor' \in Reactor /\ reactor'.at = "reply" /\ reactor'.server = current
        /\ reactor'.conversation = x.conversation
    BY <1>3, <2>1, <2>2 DEF Send, IInv, TypeOK, Reactor
  <2>6. TypeOK'
    BY <1>1, <2>4, <2>5 DEF user, IInv, TypeOK
  <2>. QED  BY <1>1, <1>3, <2>4, <2>5, <2>6, TurnSteps
<1>. QED  BY <1>2, <1>3

LEMMA BeginKeeps == ASSUME IInv, NEW n \in DOMAIN servers, Begin(n) PROVE IInv'
<1> DEFINE x == servers[n]
<1>1. /\ UNCHANGED <<user, session, binding, current, ingest, up, faults, displaced, ended>>
      /\ x.live /\ x.asked > 0 /\ turns' = turns + 1 /\ turns \in Nat
  BY DEF Begin, history, IInv, TypeOK
<1>2. up
  BY <1>1 DEF IInv, NothingRuns, Live
<1>3. x \in Server /\ x.asked \in Nat
  BY ServerFacts DEF IInv, Server
<1>4. x.asked - 1 \in Nat /\ turns + 1 \in Nat
  BY <1>1, <1>3
<1>5. servers' = [servers EXCEPT ![n] = [x EXCEPT !.asked = x.asked - 1, !.turn = turns + 1]]
  BY <1>3 DEF Begin, IInv, TypeOK
<1>6. servers' \in Seq(Server) /\ SameContexts(servers, servers') /\ Live' = Live
  BY <1>4, <1>5, TurnContexts DEF IInv
<1>7. \/ UNCHANGED reactor
      \/ /\ reactor.at = "reply" /\ reactor' \in Reactor /\ reactor'.at = "record"
         /\ reactor'.conversation = reactor.conversation
  BY GoType DEF Begin, IInv, TypeOK
<1>8. runtime' \in Seq(Event)
  BY <1>4, ReportType DEF Begin, IInv
<1>9. TypeOK'
  BY <1>1, <1>6, <1>7, <1>8 DEF user, IInv, TypeOK
<1>. QED  BY <1>1, <1>2, <1>6, <1>7, <1>9, TurnSteps

LEMMA FinishKeeps == ASSUME IInv, NEW n \in DOMAIN servers, Finish(n) PROVE IInv'
<1> DEFINE x == servers[n]
<1>1. /\ UNCHANGED <<user, session, binding, reactor, current, ingest, up, turns, faults, displaced,
                      ended>>
      /\ x.live
  BY DEF Finish, history
<1>2. up
  BY <1>1 DEF IInv, NothingRuns, Live
<1>3. x \in Server /\ x.asked \in Nat /\ x.turn \in Nat
  BY ServerFacts DEF IInv, Server
<1>4. servers' = [servers EXCEPT ![n] = [x EXCEPT !.asked = x.asked, !.turn = 0]]
  <2>1. [x EXCEPT !.turn = 0] = [x EXCEPT !.asked = x.asked, !.turn = 0]
    BY <1>3 DEF Server
  <2>. QED  BY <2>1 DEF Finish, IInv, TypeOK
<1>5. servers' \in Seq(Server) /\ SameContexts(servers, servers') /\ Live' = Live
  BY <1>3, <1>4, TurnContexts DEF IInv
<1>6. runtime' \in Seq(Event)
  BY <1>3, ReportType DEF Finish, IInv
<1>7. TypeOK'
  BY <1>1, <1>5, <1>6 DEF user, IInv, TypeOK
<1>. QED  BY <1>1, <1>2, <1>5, <1>7, TurnSteps

(* Whichever process exits, the map is empty. *)
LEMMA ExitKeeps == ASSUME IInv, NEW n \in DOMAIN servers, Exit(n) PROVE IInv'
<1>1. /\ UNCHANGED <<user, session, binding, reactor, ingest, up, turns, displaced, ended>>
      /\ servers[n].live /\ current' = 0
      /\ servers' = [servers EXCEPT ![n] = Dead(servers[n])]
  BY DEF Exit, history
<1>2. up /\ n \in Live
  BY <1>1 DEF IInv, NothingRuns, Live
<1>3. servers' \in Seq(Server) /\ DOMAIN servers' = DOMAIN servers /\ Live' = Live \ {n}
  BY <1>1, OneDead DEF IInv
<1>4. runtime' \in Seq(Event) /\ faults' \in 0 .. MaxFaults
  BY ReportType, FaultType DEF Exit, IInv
<1>5. TypeOK'
  BY <1>1, <1>3, <1>4 DEF user, IInv, TypeOK
<1>6. OnlyRestartsStrand'
  BY <1>1, <1>2, <1>3 DEF IInv, OnlyRestartsStrand
<1>. QED
  BY <1>1, <1>2, <1>3, <1>5, <1>6
     DEF IInv, NothingRuns, StartedIsCurrent, GoesOn, ConversationOpen, RecoversWhatRan, Starting,
         Asked

-----------------------------------------------------------------------------
(* The program ends and starts again. *)

LEMMA EndKeeps == ASSUME IInv, NEW graceful \in BOOLEAN, End(graceful) PROVE IInv'
<1>1. /\ UNCHANGED <<threadMode, requests, session, turns, faults, displaced>>
      /\ ~up' /\ up' \in BOOLEAN /\ ended' \in BOOLEAN /\ current' = 0
      /\ servers' = [k \in DOMAIN servers |-> Dead(servers[k])]
      /\ intents' = << >> /\ runtime' = << >> /\ reactor' = Idle /\ ingest' = None
  BY DEF End
<1>2. servers' \in Seq(Server) /\ Live' = {}
  <2>1. servers \in Seq(Server) /\ DOMAIN servers = 1 .. Len(servers) /\ Len(servers) \in Nat
    BY DEF IInv, TypeOK
  <2>2. \A k \in DOMAIN servers : servers[k] \in Server
    BY <2>1
  <2>3. \A k \in DOMAIN servers : Dead(servers[k]) \in Server /\ ~Dead(servers[k]).live
    BY <2>2, ServerType
  <2>4. servers' \in [1 .. Len(servers) -> Server]
    BY <1>1, <2>1, <2>3
  <2>. QED  BY <1>1, <2>1, <2>3, <2>4, SeqDef DEF Live
<1>3. binding' \in Binding \cup {None}
  BY DEF End, IInv, TypeOK, Binding
<1>4. TypeOK'
  <2>1. << >> \in Seq(Requests) /\ << >> \in Seq(Event)
    OBVIOUS
  <2>. QED  BY <1>1, <1>2, <1>3, <2>1, IdleType DEF IInv, TypeOK
<1>. QED
  BY <1>1, <1>2, <1>4, IdleType
     DEF IInv, NothingRuns, StartedIsCurrent, GoesOn, ConversationOpen, RecoversWhatRan,
         OnlyRestartsStrand, Starting, Asked

LEMMA BootKeeps == ASSUME IInv, Boot PROVE IInv'
<1>1. /\ UNCHANGED <<user, session, reactor, runtime, ingest, turns, displaced, ended>>
      /\ ~up /\ up' /\ up' \in BOOLEAN
  BY DEF Boot, history
<1>2. reactor = Idle /\ reactor.at = "idle" /\ Live = {} /\ current = 0
  BY <1>1, IdleType, ServerFacts DEF IInv, NothingRuns, Live
<1>3. faults' \in 0 .. MaxFaults
  BY FaultType DEF Boot, IInv
<1>4. CASE UNCHANGED <<processes, binding>>
  <2>1. UNCHANGED <<servers, current, binding>> /\ Live' = Live
    BY <1>4 DEF processes, Live
  <2>2. TypeOK'
    BY <1>1, <1>3, <2>1 DEF user, IInv, TypeOK
  <2>. QED
    BY <1>1, <1>2, <2>1, <2>2
       DEF IInv, NothingRuns, StartedIsCurrent, GoesOn, ConversationOpen, RecoversWhatRan,
           OnlyRestartsStrand, Starting, Asked
<1>5. ASSUME Restorable, NEW conversation \in {binding.conversation, Len(servers) + 1},
             servers' = Append(servers, Booted(binding.mode, conversation)),
             binding' = [binding EXCEPT !.conversation = conversation],
             current' = Len(servers) + 1
      PROVE  IInv'
  <2> DEFINE x == Booted(binding.mode, conversation)
  <2>1. /\ binding # None /\ binding \in Binding /\ binding.mode \in Modes
        /\ binding.conversation \in Nat \ {0} /\ binding.status = "running"
    BY <1>5, BindingType DEF Restorable, HasCursor, IInv
  <2>2. Len(servers) + 1 \in Nat \ {0}
    BY ServerFacts DEF IInv
  <2>3. conversation \in Nat \ {0}
    BY <2>1, <2>2
  <2>4. x \in Server /\ x.live /\ x.mode = binding.mode /\ x.conversation = conversation
    BY <2>1, <2>3, ServerType
  <2> HIDE DEF x
  <2>5. servers' = Append(servers, x)
    BY <1>5 DEF x
  <2>6. /\ servers' \in Seq(Server) /\ current' \in DOMAIN servers' /\ servers'[current'] = x
        /\ Live' = Live \cup {current'} /\ current' # 0
    BY <1>5, <2>4, <2>5, OneMore DEF IInv
  <2>7. /\ binding' \in Binding /\ binding'.mode = binding.mode
        /\ binding'.conversation = conversation /\ binding'.status = "running" /\ binding' # None
    BY <1>5, <2>1, <2>3, NoneAssumption DEF Binding
  <2>8. TypeOK'
    BY <1>1, <1>3, <2>6, <2>7 DEF user, IInv, TypeOK
  <2>. QED
    BY <1>1, <1>2, <2>3, <2>4, <2>6, <2>7, <2>8
       DEF IInv, NothingRuns, StartedIsCurrent, GoesOn, ConversationOpen, RecoversWhatRan,
           OnlyRestartsStrand, Starting, Asked
<1>. QED  BY <1>4, <1>5 DEF Boot

-----------------------------------------------------------------------------
(* In every reachable state the reactor, the map, the row and the          *)
(* processes fit together as IInv says.                                    *)
THEOREM SessionsConsistent == Spec => []IInv
<1>1. ASSUME IInv, [Next]_vars PROVE IInv'
  <2>1. CASE UNCHANGED vars
    <3>1. UNCHANGED <<threadMode, intents, requests, session, binding, reactor, servers, current,
                      runtime, ingest, up, turns, faults, displaced, ended>>
      BY <2>1 DEF vars, user, processes, history
    <3>2. TypeOK'
      BY <1>1, <3>1 DEF IInv, TypeOK, Live
    <3>. QED  BY <1>1, <3>1, <3>2, QuietSteps
  <2>2. CASE ReactorStep
    BY <1>1, <2>2, TakeKeeps, StartKeeps, RecoverKeeps, StartRefusedKeeps, OpenedKeeps,
       OpenFailsKeeps, UpsertKeeps, BindKeeps, RouteKeeps, SendKeeps, RecordKeeps,
       StopSessionKeeps, SetStoppedKeeps DEF ReactorStep
  <2>3. CASE \E n \in DOMAIN servers : Begin(n) \/ Finish(n) \/ Exit(n)
    BY <1>1, <2>3, BeginKeeps, FinishKeeps, ExitKeeps
  <2>. QED
    BY <1>1, <2>1, <2>2, <2>3, AskKeeps, IngestReadKeeps, IngestWriteKeeps, EndKeeps, BootKeeps
       DEF Next
<1>. QED  BY <1>1, InitKeeps, PTL DEF Spec

(* What is stored is what runs, whenever no session is being opened.       *)
THEOREM RecoversWhatRanHolds == Spec => []RecoversWhatRan
<1>1. IInv => RecoversWhatRan
  BY DEF IInv
<1>. QED  BY <1>1, SessionsConsistent, PTL

(* Only a session started over another leaves a process nobody can stop.   *)
THEOREM OnlyRestartsStrandHolds == Spec => []OnlyRestartsStrand
<1>1. IInv => OnlyRestartsStrand
  BY DEF IInv
<1>. QED  BY <1>1, SessionsConsistent, PTL

(* The rows of a running program, and what may change their conversation.  *)
LEMMA BindingSteps ==
  ASSUME IInv, [Next]_vars, up
  PROVE  \/ binding' = binding \/ binding' = None
         \/ binding # None /\ binding'.conversation = binding.conversation
         \/ Upsert
<1>1. CASE ReactorStep
  <2>1. CASE Record
    <3>1. binding # None /\ reactor.conversation = binding.conversation
      BY <2>1 DEF Record, IInv, GoesOn, Asked
    <3>. QED  BY <2>1, <3>1 DEF Record
  <2>2. CASE Take \/ Start \/ Recover \/ StartRefused \/ Opened \/ OpenFails
    BY <2>2 DEF Take, Start, Recover, StartRefused, Opened, OpenFails
  <2>3. CASE Bind \/ Route \/ Send \/ Timeout \/ StopSession \/ SetStopped
    BY <2>3 DEF Bind, Route, Send, Timeout, StopSession, SetStopped
  <2>. QED  BY <1>1, <2>1, <2>2, <2>3 DEF ReactorStep
<1>2. CASE \E n \in DOMAIN servers : Begin(n) \/ Finish(n) \/ Exit(n)
  BY <1>2 DEF Begin, Finish, Exit
<1>3. CASE \E graceful \in BOOLEAN : End(graceful)
  <2>1. binding # None => binding \in Binding
    BY BindingType DEF IInv
  <2>. QED  BY <1>3, <2>1 DEF End, Binding
<1>4. CASE IngestRead \/ IngestWrite \/ \E request \in Requests : Ask(request)
  BY <1>4 DEF IngestRead, IngestWrite, Ask
<1>5. CASE UNCHANGED vars
  BY <1>5 DEF vars
<1>. QED  BY <1>1, <1>2, <1>3, <1>4, <1>5 DEF Next, Boot

(* The stored conversation changes only when it is given up. *)
THEOREM ConversationKeptHolds == Spec => ConversationKept
<1>1. ASSUME IInv, [Next]_vars, binding # None, up, binding' # None
      PROVE  binding'.conversation = binding.conversation \/ reactor.excused
  <2>1. CASE Upsert
    BY <1>1, <2>1 DEF Upsert, IInv, GoesOn, Starting
  <2>. QED  BY <1>1, <2>1, BindingSteps
<1>2. IInv /\ [Next]_vars
        => [binding # None /\ up /\ binding' # None
              => binding'.conversation = binding.conversation \/ reactor.excused]_vars
  BY <1>1
<1>. QED  BY <1>2, SessionsConsistent, PTL DEF Spec, ConversationKept

-----------------------------------------------------------------------------
(* The turn a thread shows. *)

(* A report after which no thread shows turn t any more, whatever else is  *)
(* reported; and what keeps one coming: the process that runs t, or a      *)
(* report behind the first i that wait.                                    *)
Clears(e, t) == \/ e.type \in {"exited", "error"}
                \/ e.type = "turn.completed" /\ e.turn = t
Carries(t) == \E n \in DOMAIN servers : servers[n].live /\ servers[n].turn = t
EndsAfter(i, t) == \/ Carries(t)
                   \/ \E j \in DOMAIN runtime : j > i /\ Clears(runtime[j], t)

ReportedEnds ==
  \A i \in DOMAIN runtime :
    runtime[i].type = "turn.started" => runtime[i].turn # 0 /\ EndsAfter(i, runtime[i].turn)

(* What the ingestion has in hand; only it shows a turn. *)
InHandEnds ==
  ingest # None =>
    /\ ingest.event.type = "turn.started"
         => ingest.event.turn # 0 /\ EndsAfter(0, ingest.event.turn)
    /\ SeenTurn(ingest.seen) # 0
         => EndsAfter(0, SeenTurn(ingest.seen)) \/ Clears(ingest.event, SeenTurn(ingest.seen))
    /\ SeenTurn(session) \in {0, SeenTurn(ingest.seen)}

ShownEnds ==
  /\ SeenTurn(session) # 0
       => \/ EndsAfter(0, SeenTurn(session))
          \/ ingest # None /\ Clears(ingest.event, SeenTurn(session))
  /\ session # None => (session.status = "running" => session.turn # 0)

(* The inductive invariant behind NoGhostTurn. *)
TurnsEnd == ~ended => up /\ ReportedEnds /\ InHandEnds /\ ShownEnds

LEMMA ReportedEndsNext ==
  ASSUME \A i \in DOMAIN runtime' : \A t :
           t = runtime'[i].turn /\ runtime'[i].type = "turn.started"
             => t # 0 /\ EndsAfter(i, t)'
  PROVE  ReportedEnds'
BY DEF ReportedEnds, EndsAfter, Carries, Clears

(* The processes report something, or do something else; a turn that is no *)
(* longer carried is reported as ended.                                    *)
LEMMA ReportSteps ==
  ASSUME TypeOK, TurnsEnd, UNCHANGED <<session, ingest, up, ended>>,
         NEW new \in Seq(Event), runtime' = runtime \o new,
         \A t : t # 0 /\ Carries(t)
                  => Carries(t)' \/ \E k \in DOMAIN new : Clears(new[k], t),
         \A k \in DOMAIN new : new[k].type = "turn.started"
                                 => new[k].turn # 0 /\ Carries(new[k].turn)'
  PROVE  TurnsEnd'
<1> SUFFICES ASSUME ~ended
             PROVE  up' /\ ReportedEnds' /\ InHandEnds' /\ ShownEnds'
  BY DEF TurnsEnd
<1>1. up /\ ReportedEnds /\ InHandEnds /\ ShownEnds
  BY DEF TurnsEnd
<1>2. /\ runtime \in Seq(Event) /\ Len(runtime) \in Nat /\ Len(new) \in Nat
      /\ DOMAIN runtime = 1 .. Len(runtime) /\ DOMAIN new = 1 .. Len(new)
      /\ DOMAIN runtime' = 1 .. Len(runtime) + Len(new)
      /\ \A i \in DOMAIN runtime : i \in DOMAIN runtime' /\ runtime'[i] = runtime[i]
      /\ \A k \in DOMAIN new : /\ Len(runtime) + k \in DOMAIN runtime'
                               /\ runtime'[Len(runtime) + k] = new[k]
  BY DEF TypeOK
<1>3. \A i \in DOMAIN runtime' : i \notin DOMAIN runtime =>
        i - Len(runtime) \in DOMAIN new /\ runtime'[i] = new[i - Len(runtime)]
  BY <1>2
<1>4. ASSUME NEW i \in 0 .. Len(runtime), NEW t, t # 0, EndsAfter(i, t)
      PROVE  EndsAfter(i, t)'
  <2>1. CASE \E j \in DOMAIN runtime : j > i /\ Clears(runtime[j], t)
    BY <1>2, <2>1 DEF EndsAfter, Clears
  <2>2. CASE \E k \in DOMAIN new : Clears(new[k], t)
    <3>1. PICK k \in DOMAIN new : Clears(new[k], t)
      BY <2>2
    <3>2. Len(runtime) + k > i
      BY <1>2, <3>1
    <3>. QED  BY <1>2, <3>1, <3>2 DEF EndsAfter, Clears
  <2>3. CASE Carries(t)'
    BY <2>3 DEF EndsAfter
  <2>. QED  BY <1>4, <2>1, <2>2, <2>3 DEF EndsAfter
<1>5. ReportedEnds'
  <2> SUFFICES ASSUME NEW i \in DOMAIN runtime', NEW t, t = runtime'[i].turn,
                      runtime'[i].type = "turn.started"
               PROVE  t # 0 /\ EndsAfter(i, t)'
    BY ReportedEndsNext
  <2>1. CASE i \in DOMAIN runtime
    <3>1. /\ i \in 0 .. Len(runtime) /\ runtime'[i] = runtime[i]
          /\ t # 0 /\ EndsAfter(i, t)
      BY <1>1, <1>2, <2>1 DEF ReportedEnds
    <3>. QED  BY <1>4, <3>1
  <2>2. CASE i \notin DOMAIN runtime
    BY <1>3, <2>2 DEF EndsAfter
  <2>. QED  BY <2>1, <2>2
<1>6. InHandEnds' /\ ShownEnds'
  <2>1. 0 \in 0 .. Len(runtime)
    BY <1>2
  <2>. QED  BY <1>1, <1>4, <2>1 DEF InHandEnds, ShownEnds, SeenTurn, Clears
<1>. QED  BY <1>1, <1>5, <1>6

(* The steps that report nothing and leave every turn where it runs. *)
LEMMA SilentSteps ==
  ASSUME TypeOK, TurnsEnd, UNCHANGED <<session, ingest, up, ended, runtime>>,
         \A t : t # 0 /\ Carries(t) => Carries(t)'
  PROVE  TurnsEnd'
<1>1. << >> \in Seq(Event) /\ DOMAIN << >> = {} /\ runtime' = runtime \o << >>
  BY DEF TypeOK
<1>. QED  BY <1>1, ReportSteps

(* The reactor sets the thread's session: no turn runs in it. *)
LEMMA SetSteps ==
  ASSUME TurnsEnd, UNCHANGED <<servers, runtime, ingest, up, ended>>,
         session'.turn = 0, session'.status # "running"
  PROVE  TurnsEnd'
<1>1. SeenTurn(session') = 0
  BY DEF SeenTurn
<1>. QED
  BY <1>1 DEF TurnsEnd, ReportedEnds, InHandEnds, ShownEnds, EndsAfter, Carries, Clears, SeenTurn

LEMMA IngestReadSettles == ASSUME TypeOK, TurnsEnd, IngestRead PROVE TurnsEnd'
<1> SUFFICES ASSUME ~ended
             PROVE  up' /\ ReportedEnds' /\ InHandEnds' /\ ShownEnds'
  BY DEF TurnsEnd, IngestRead, history
<1>0. PICK e : e = Head(runtime)
  OBVIOUS
<1>1. /\ up /\ ReportedEnds /\ ShownEnds /\ ingest = None
      /\ UNCHANGED <<session, servers, up>> /\ runtime' = Tail(runtime)
      /\ ingest' = [event |-> e, seen |-> session]
  BY <1>0 DEF TurnsEnd, IngestRead, processes
<1>2. /\ runtime \in Seq(Event) /\ runtime # << >>
  BY DEF TypeOK, IngestRead
<1>3. /\ Len(runtime) \in Nat /\ DOMAIN runtime = 1 .. Len(runtime)
      /\ e = runtime[1] /\ 1 \in DOMAIN runtime
      /\ DOMAIN runtime' = 1 .. Len(runtime) - 1
      /\ \A i \in DOMAIN runtime' : i + 1 \in DOMAIN runtime /\ runtime'[i] = runtime[i + 1]
  BY <1>0, <1>1, <1>2
<1>4. \A j \in DOMAIN runtime : j # 1 => j - 1 \in DOMAIN runtime' /\ runtime'[j - 1] = runtime[j]
  BY <1>3
<1>5. ingest'.event = e /\ ingest'.seen = session
  BY <1>1
<1>6. ASSUME NEW i \in Nat \ {0}, NEW t, EndsAfter(i, t)
      PROVE  EndsAfter(i - 1, t)'
  <2>1. CASE Carries(t)
    BY <1>1, <2>1 DEF EndsAfter, Carries
  <2>2. CASE \E j \in DOMAIN runtime : j > i /\ Clears(runtime[j], t)
    <3>1. PICK j \in DOMAIN runtime : j > i /\ Clears(runtime[j], t)
      BY <2>2
    <3>2. j - 1 \in DOMAIN runtime' /\ runtime'[j - 1] = runtime[j] /\ j - 1 > i - 1
      BY <1>3, <1>4, <3>1
    <3>. QED  BY <3>1, <3>2 DEF EndsAfter, Clears
  <2>. QED  BY <1>6, <2>1, <2>2 DEF EndsAfter
<1>7. ReportedEnds'
  <2> SUFFICES ASSUME NEW i \in DOMAIN runtime', NEW t, t = runtime'[i].turn,
                      runtime'[i].type = "turn.started"
               PROVE  t # 0 /\ EndsAfter(i, t)'
    BY ReportedEndsNext
  <2>1. /\ runtime'[i] = runtime[i + 1] /\ i + 1 \in Nat \ {0} /\ (i + 1) - 1 = i
        /\ t # 0 /\ EndsAfter(i + 1, t)
    BY <1>1, <1>3 DEF ReportedEnds
  <2>2. EndsAfter((i + 1) - 1, t)'
    BY <1>6, <2>1
  <2>. QED  BY <2>1, <2>2
<1>8. e.type = "turn.started" => e.turn # 0 /\ EndsAfter(0, e.turn)'
  <2>1. e.type = "turn.started" => e.turn # 0 /\ EndsAfter(1, e.turn)
    BY <1>1, <1>3 DEF ReportedEnds
  <2>2. EndsAfter(1, e.turn) => EndsAfter(1 - 1, e.turn)'
    BY <1>6
  <2>. QED  BY <2>1, <2>2
<1>9. ASSUME NEW t, EndsAfter(0, t)
      PROVE  EndsAfter(0, t)' \/ Clears(e, t)
  <2>1. CASE Carries(t)
    BY <1>1, <2>1 DEF EndsAfter, Carries
  <2>2. CASE \E j \in DOMAIN runtime : j > 0 /\ Clears(runtime[j], t)
    <3>1. PICK j \in DOMAIN runtime : j > 0 /\ Clears(runtime[j], t)
      BY <2>2
    <3>2. CASE j = 1
      BY <1>3, <3>1, <3>2
    <3>3. CASE j # 1
      <4>1. j - 1 \in DOMAIN runtime' /\ runtime'[j - 1] = runtime[j] /\ j - 1 > 0
        BY <1>3, <1>4, <3>1, <3>3
      <4>. QED  BY <3>1, <4>1 DEF EndsAfter, Clears
    <3>. QED  BY <3>2, <3>3
  <2>. QED  BY <1>9, <2>1, <2>2 DEF EndsAfter
<1>10. PICK t : t = SeenTurn(session)
  OBVIOUS
<1>11. SeenTurn(session)' = t /\ SeenTurn(ingest.seen)' = t
  BY <1>1, <1>5, <1>10 DEF SeenTurn
<1>12. t # 0 => EndsAfter(0, t)' \/ Clears(e, t)
  BY <1>1, <1>9, <1>10 DEF ShownEnds
<1>13. ingest' # None
  <2>1. e \in Event /\ session \in Session \cup {None}
    BY <1>2, <1>3 DEF TypeOK
  <2>. QED  BY <1>1, <2>1, NoneAssumption
<1>14. InHandEnds'
  BY <1>5, <1>8, <1>11, <1>12 DEF InHandEnds, Clears, EndsAfter, Carries
<1>15. ShownEnds'
  BY <1>1, <1>5, <1>11, <1>12, <1>13 DEF ShownEnds, Clears, EndsAfter, Carries
<1>. QED  BY <1>1, <1>7, <1>14, <1>15

LEMMA IngestWriteSettles == ASSUME TypeOK, TurnsEnd, IngestWrite PROVE TurnsEnd'
<1> SUFFICES ASSUME ~ended
             PROVE  up' /\ ReportedEnds' /\ InHandEnds' /\ ShownEnds'
  BY DEF TurnsEnd, IngestWrite, history
<1> DEFINE e == ingest.event
           seen == SeenTurn(ingest.seen)
<1>1. /\ up /\ ReportedEnds /\ InHandEnds /\ ShownEnds /\ ingest # None /\ ingest' = None
      /\ UNCHANGED <<servers, runtime, up>>
  BY DEF TurnsEnd, IngestWrite, processes
<1>2. e \in Event
  BY <1>1 DEF TypeOK
<1>3. ReportedEnds'
  BY <1>1 DEF ReportedEnds, EndsAfter, Carries, Clears
<1>4. \A t : EndsAfter(0, t)' = EndsAfter(0, t)
  BY <1>1 DEF EndsAfter, Carries, Clears
<1>5. /\ e.type = "turn.started" => e.turn # 0 /\ EndsAfter(0, e.turn)
      /\ seen # 0 => EndsAfter(0, seen) \/ Clears(e, seen)
      /\ SeenTurn(session) \in {0, seen}
  BY <1>1 DEF InHandEnds
<1>6. CASE ~Applies(e, ingest.seen)
  <2>1. session' = session /\ e.type \in {"turn.started", "turn.completed"} /\ e.turn # seen
    BY <1>6 DEF IngestWrite, Applies
  <2>2. SeenTurn(session) # 0 => EndsAfter(0, SeenTurn(session))
    BY <1>5, <2>1 DEF Clears
  <2>3. SeenTurn(session)' = SeenTurn(session)
    BY <2>1 DEF SeenTurn
  <2>4. ShownEnds'
    BY <1>1, <1>4, <2>1, <2>2, <2>3 DEF ShownEnds
  <2>. QED  BY <1>1, <1>3, <2>4 DEF InHandEnds
<1>7. CASE Applies(e, ingest.seen)
  <2> DEFINE turn == TurnAfter(e, ingest.seen)
  <2>1. session'.turn = turn /\ session'.status = StatusAfter(e.type)
    BY <1>7 DEF IngestWrite
  <2>2. turn # 0 => EndsAfter(0, turn)
    <3>1. CASE e.type \in {"connecting", "ready"}
      BY <1>5, <3>1 DEF TurnAfter, Clears
    <3>2. CASE e.type = "turn.started"
      BY <1>5, <3>2 DEF TurnAfter
    <3>3. CASE e.type \notin {"connecting", "ready", "turn.started"}
      BY <3>3 DEF TurnAfter
    <3>. QED  BY <3>1, <3>2, <3>3
  <2>3. StatusAfter(e.type) = "running" => turn # 0
    <3>1. CASE e.type = "turn.started"
      BY <1>5, <3>1 DEF TurnAfter
    <3>2. CASE e.type # "turn.started"
      BY <1>2, <3>2 DEF Event, StatusAfter
    <3>. QED  BY <3>1, <3>2
  <2> HIDE DEF turn
  <2>4. SeenTurn(session)' \in {0, turn}
    BY <2>1 DEF SeenTurn
  <2>5. PICK t : t = turn
    OBVIOUS
  <2>6. t # 0 => EndsAfter(0, t)'
    BY <1>4, <2>2, <2>5
  <2>7. ShownEnds'
    BY <2>1, <2>3, <2>4, <2>5, <2>6 DEF ShownEnds
  <2>. QED  BY <1>1, <1>3, <2>7 DEF InHandEnds
<1>. QED  BY <1>6, <1>7

(* A context that is replaced goes on with its turn, or is the only one to *)
(* lose it.                                                                *)
LEMMA CarriesReplaced ==
  ASSUME TypeOK, NEW n \in DOMAIN servers, NEW x, servers' = [servers EXCEPT ![n] = x],
         NEW t, Carries(t)
  PROVE  Carries(t)' \/ (servers[n].live /\ servers[n].turn = t /\ ~(x.live /\ x.turn = t))
<1>1. /\ DOMAIN servers' = DOMAIN servers
      /\ \A j \in DOMAIN servers : j # n => servers'[j] = servers[j]
      /\ servers'[n] = x
  BY DEF TypeOK
<1>. QED  BY <1>1 DEF Carries

LEMMA CarriesAppended ==
  ASSUME TypeOK, NEW x, servers' = Append(servers, x), NEW t, Carries(t)
  PROVE  Carries(t)'
<1>1. /\ \A j \in DOMAIN servers : j \in DOMAIN servers' /\ servers'[j] = servers[j]
  BY DEF TypeOK
<1>. QED  BY <1>1 DEF Carries

LEMMA Reported ==
  /\ \A type \in {"connecting", "ready", "exited", "error", "turn.started", "turn.completed"},
        turn \in Nat :
       /\ Report(type, turn) \in Seq(Event) /\ DOMAIN Report(type, turn) = {1}
       /\ Report(type, turn)[1].type = type /\ Report(type, turn)[1].turn = turn
BY DEF Report, Event

(* One report, of a turn that has started or of something that is none. *)
LEMMA OneReport ==
  ASSUME TypeOK, TurnsEnd, UNCHANGED <<session, ingest, up, ended>>,
         NEW type \in {"connecting", "ready", "exited", "error", "turn.started", "turn.completed"},
         NEW turn \in Nat, runtime' = runtime \o Report(type, turn),
         type = "turn.started" => turn # 0 /\ Carries(turn)',
         \A t : t # 0 /\ Carries(t) => \/ Carries(t)' \/ type \in {"exited", "error"}
                                       \/ type = "turn.completed" /\ t = turn
  PROVE  TurnsEnd'
<1> DEFINE new == Report(type, turn)
<1>1. /\ new \in Seq(Event) /\ DOMAIN new = {1} /\ new[1].type = type /\ new[1].turn = turn
  BY Reported
<1>2. runtime' = runtime \o new
  OBVIOUS
<1> HIDE DEF new
<1>3. \A t : t # 0 /\ Carries(t) => Carries(t)' \/ \E k \in DOMAIN new : Clears(new[k], t)
  BY <1>1 DEF Clears
<1>4. \A k \in DOMAIN new : new[k].type = "turn.started" => new[k].turn # 0 /\ Carries(new[k].turn)'
  BY <1>1
<1>. QED  BY <1>1, <1>2, <1>3, <1>4, ReportSteps

LEMMA UnmovedSteps ==
  ASSUME TypeOK, TurnsEnd, UNCHANGED <<session, ingest, up, ended, runtime, servers>>
  PROVE  TurnsEnd'
BY SilentSteps DEF Carries

LEMMA SpawnSettles ==
  ASSUME TypeOK, TurnsEnd, Start \/ Recover
  PROVE  TurnsEnd'
<1>1. /\ UNCHANGED <<session, ingest, up, ended>>
      /\ runtime' = runtime \o Report("connecting", 0)
      /\ \E mode, c : servers' = Append(servers, Booted(mode, c))
  BY DEF Start, Recover, Spawn
<1>2. PICK x : servers' = Append(servers, x)
  BY <1>1
<1>3. \A t : Carries(t) => Carries(t)'
  BY <1>2, CarriesAppended
<1>. QED  BY <1>1, <1>3, OneReport

LEMMA StartRefusedSettles == ASSUME TypeOK, TurnsEnd, StartRefused PROVE TurnsEnd'
<1>1. /\ UNCHANGED <<session, ingest, up, ended>> /\ runtime' = runtime \o Report("error", 0)
  BY DEF StartRefused, history
<1>. QED  BY <1>1, OneReport

LEMMA OpenedSettles == ASSUME IInv, TurnsEnd, Opened PROVE TurnsEnd'
<1>1. PICK n : n = reactor.server
  OBVIOUS
<1>2. n \in DOMAIN servers /\ servers[n] \in Server
  BY <1>1, ServerFacts DEF Opened, IInv, StartedIsCurrent
<1>3. /\ UNCHANGED <<session, ingest, up, ended>> /\ runtime' = runtime \o Report("ready", 0)
      /\ \E c : servers' = [servers EXCEPT ![n].conversation = c]
  BY <1>1 DEF Opened
<1>4. PICK c : servers' = [servers EXCEPT ![n].conversation = c]
  BY <1>3
<1>5. PICK x : x = [servers[n] EXCEPT !.conversation = c]
  OBVIOUS
<1>6. servers' = [servers EXCEPT ![n] = x] /\ x.live = servers[n].live /\ x.turn = servers[n].turn
  BY <1>2, <1>4, <1>5 DEF Server
<1>7. \A t : Carries(t) => Carries(t)'
  BY <1>2, <1>6, CarriesReplaced DEF IInv
<1>. QED  BY <1>3, <1>7, OneReport DEF IInv

LEMMA OpenFailsSettles == ASSUME TypeOK, TurnsEnd, OpenFails PROVE TurnsEnd'
<1>1. PICK new : new = Report("error", 0)
                         \o (IF current # 0 THEN Report("exited", 0) ELSE << >>)
  OBVIOUS
<1>2. /\ Report("error", 0) \in Seq(Event) /\ DOMAIN Report("error", 0) = {1}
      /\ Report("error", 0)[1].type = "error"
      /\ Report("exited", 0) \in Seq(Event) /\ DOMAIN Report("exited", 0) = {1}
      /\ Report("exited", 0)[1].type = "exited"
  BY Reported
<1>3. runtime \in Seq(Event)
  BY DEF TypeOK
<1>4. UNCHANGED <<session, ingest, up, ended>> /\ runtime' = runtime \o new
  <2>1. UNCHANGED <<session, ingest, up, ended>>
    BY DEF OpenFails, history
  <2>2. runtime' = (runtime \o Report("error", 0))
                     \o (IF current # 0 THEN Report("exited", 0) ELSE << >>)
    BY DEF OpenFails
  <2>3. PICK first : first = Report("error", 0)
    OBVIOUS
  <2>4. PICK last : last = IF current # 0 THEN Report("exited", 0) ELSE << >>
    OBVIOUS
  <2>5. first \in Seq(Event) /\ last \in Seq(Event)
    BY <1>2, <2>3, <2>4
  <2>6. new = first \o last /\ runtime' = (runtime \o first) \o last
    BY <1>1, <2>2, <2>3, <2>4
  <2>7. (runtime \o first) \o last = runtime \o (first \o last)
    BY <1>3, <2>5, ConcatAssociative
  <2>. QED  BY <2>1, <2>6, <2>7
<1>5. /\ new \in Seq(Event) /\ 1 \in DOMAIN new /\ new[1].type = "error"
      /\ \A k \in DOMAIN new : new[k].type \in {"error", "exited"}
  <2>1. CASE current # 0
    <3>1. new = Report("error", 0) \o Report("exited", 0)
      BY <1>1, <2>1
    <3>2. /\ Len(Report("error", 0)) = 1 /\ Len(Report("exited", 0)) = 1
      BY <1>2
    <3>3. /\ new \in Seq(Event) /\ DOMAIN new = {1, 2}
          /\ new[1] = Report("error", 0)[1] /\ new[2] = Report("exited", 0)[1]
      BY <1>2, <3>1, <3>2
    <3>. QED  BY <1>2, <3>3
  <2>2. CASE current = 0
    <3>1. new = Report("error", 0) \o << >>
      BY <1>1, <2>2
    <3>2. new = Report("error", 0)
      BY <1>2, <3>1
    <3>. QED  BY <1>2, <3>2
  <2>. QED  BY <2>1, <2>2
<1>6. \A t : \E k \in DOMAIN new : Clears(new[k], t)
  BY <1>5 DEF Clears
<1>. QED  BY <1>4, <1>5, <1>6, ReportSteps

LEMMA SetSettles == ASSUME TurnsEnd, Bind \/ SetStopped PROVE TurnsEnd'
<1>1. /\ UNCHANGED <<servers, runtime, ingest, up, ended>>
      /\ session'.turn = 0 /\ session'.status # "running"
  BY DEF Bind, SetStopped, processes, history
<1>. QED  BY <1>1, SetSteps

LEMMA SendSettles == ASSUME TypeOK, TurnsEnd, Send PROVE TurnsEnd'
<1>1. UNCHANGED <<session, ingest, up, ended, runtime>>
  BY DEF Send, history
<1>2. CASE current = 0
  BY <1>1, <1>2, UnmovedSteps DEF Send
<1>3. CASE current # 0
  <2>1. PICK n : n = current
    OBVIOUS
  <2>2. n \in DOMAIN servers /\ servers[n] \in Server
    BY <1>3, <2>1, ServerFacts
  <2>3. PICK x : x = [servers[n] EXCEPT !.asked = servers[n].asked + 1]
    OBVIOUS
  <2>4. servers' = [servers EXCEPT ![n] = x] /\ x.live = servers[n].live /\ x.turn = servers[n].turn
    BY <1>3, <2>1, <2>2, <2>3 DEF Send, Server
  <2>5. \A t : Carries(t) => Carries(t)'
    BY <2>2, <2>4, CarriesReplaced
  <2>. QED  BY <1>1, <2>5, SilentSteps
<1>. QED  BY <1>2, <1>3

LEMMA StopSessionSettles == ASSUME TypeOK, TurnsEnd, StopSession PROVE TurnsEnd'
<1>1. /\ UNCHANGED <<session, ingest, up, ended>>
      /\ UNCHANGED <<servers, runtime>> \/ runtime' = runtime \o Report("exited", 0)
  BY DEF StopSession, history, processes
<1>. QED  BY <1>1, UnmovedSteps, OneReport

(* The processes. *)

LEMMA BeginSettles == ASSUME IInv, TurnsEnd, NEW n \in DOMAIN servers, Begin(n) PROVE TurnsEnd'
<1>1. PICK turn : turn = turns + 1
  OBVIOUS
<1>2. PICK x : x = [servers[n] EXCEPT !.asked = servers[n].asked - 1, !.turn = turn]
  OBVIOUS
<1>3. servers[n] \in Server /\ servers[n].live /\ servers[n].turn = 0 /\ turn \in Nat \ {0}
  BY <1>1, ServerFacts DEF Begin, IInv, TypeOK
<1>4. /\ UNCHANGED <<session, ingest, up, ended>>
      /\ runtime' = runtime \o Report("turn.started", turn)
      /\ servers' = [servers EXCEPT ![n] = x]
  BY <1>1, <1>2, <1>3 DEF Begin, history, Server, IInv, TypeOK
<1>5. x.live /\ x.turn = turn
  BY <1>2, <1>3 DEF Server
<1>6. Carries(turn)'
  <2>1. n \in DOMAIN servers' /\ servers'[n] = x
    BY <1>4 DEF IInv, TypeOK
  <2>. QED  BY <1>5, <2>1 DEF Carries
<1>7. \A t : t # 0 /\ Carries(t) => Carries(t)'
  BY <1>3, <1>4, CarriesReplaced DEF IInv
<1>. QED  BY <1>3, <1>4, <1>6, <1>7, OneReport DEF IInv

LEMMA FinishSettles == ASSUME IInv, TurnsEnd, NEW n \in DOMAIN servers, Finish(n) PROVE TurnsEnd'
<1>1. PICK turn : turn = servers[n].turn
  OBVIOUS
<1>2. PICK x : x = [servers[n] EXCEPT !.turn = 0]
  OBVIOUS
<1>3. turn \in Nat
  BY <1>1, ServerFacts DEF IInv, Server
<1>4. /\ UNCHANGED <<session, ingest, up, ended>>
      /\ runtime' = runtime \o Report("turn.completed", turn)
      /\ servers' = [servers EXCEPT ![n] = x]
  BY <1>1, <1>2 DEF Finish, history
<1>5. \A t : t # 0 /\ Carries(t) => Carries(t)' \/ t = turn
  BY <1>1, <1>4, CarriesReplaced DEF IInv
<1>. QED  BY <1>3, <1>4, <1>5, OneReport DEF IInv

LEMMA ExitSettles == ASSUME TypeOK, TurnsEnd, NEW n \in DOMAIN servers, Exit(n) PROVE TurnsEnd'
<1>1. /\ UNCHANGED <<session, ingest, up, ended>> /\ runtime' = runtime \o Report("exited", 0)
  BY DEF Exit, history
<1>. QED  BY <1>1, OneReport

(* A turn that is shown runs, or its end is on its way: so it goes away    *)
(* once everything is handled, late, early and displaced reports included, *)
(* for all interleavings of the ingestion with the reactor's own writes.   *)
THEOREM NoGhostTurnHolds == Spec => []NoGhostTurn
<1>1. Init => TurnsEnd
  BY DEF Init, TurnsEnd, ReportedEnds, InHandEnds, ShownEnds, SeenTurn
<1>2. ASSUME IInv, TurnsEnd, [Next]_vars PROVE TurnsEnd'
  <2>1. TypeOK
    BY <1>2 DEF IInv
  <2>2. CASE UNCHANGED vars \/ \E request \in Requests : Ask(request)
    <3>1. UNCHANGED <<session, ingest, up, ended, runtime, servers>>
      BY <2>2 DEF vars, Ask, history, processes
    <3>. QED  BY <1>2, <2>1, <3>1, UnmovedSteps
  <2>3. CASE ReactorStep
    <3>1. CASE Take \/ Upsert \/ Route \/ Timeout \/ Record
      <4>1. UNCHANGED <<session, ingest, up, ended, runtime, servers>>
        BY <3>1 DEF Take, Upsert, Route, Timeout, Record, history, processes
      <4>. QED  BY <1>2, <2>1, <4>1, UnmovedSteps
    <3>. QED
      BY <1>2, <2>1, <2>3, <3>1, SpawnSettles, StartRefusedSettles, OpenedSettles,
         OpenFailsSettles, SetSettles, SendSettles, StopSessionSettles DEF ReactorStep
  <2>4. CASE \E n \in DOMAIN servers : Begin(n) \/ Finish(n) \/ Exit(n)
    BY <1>2, <2>1, <2>4, BeginSettles, FinishSettles, ExitSettles
  <2>5. CASE IngestRead \/ IngestWrite
    BY <1>2, <2>1, <2>5, IngestReadSettles, IngestWriteSettles
  <2>6. CASE Boot \/ \E graceful \in BOOLEAN : End(graceful)
    BY <1>2, <2>6 DEF Boot, End, TurnsEnd, history
  <2>. QED  BY <1>2, <2>2, <2>3, <2>4, <2>5, <2>6 DEF Next
<1>3. ASSUME IInv, TurnsEnd PROVE NoGhostTurn
  <2> SUFFICES ASSUME Quiet, ~ended,
                      \A n \in Live : servers[n].turn = 0 /\ servers[n].asked = 0,
                      session # None
               PROVE  session.turn = 0 /\ session.status # "running"
    BY DEF NoGhostTurn
  <2>1. ShownEnds /\ ingest = None /\ DOMAIN runtime = {}
    BY <1>3 DEF TurnsEnd, Quiet
  <2>2. session.turn # 0 => Carries(session.turn)
    BY <2>1 DEF ShownEnds, SeenTurn, EndsAfter
  <2>3. session.turn = 0
    BY <2>2 DEF Carries, Live
  <2>. QED  BY <2>1, <2>3 DEF ShownEnds
<1>. QED  BY <1>1, <1>2, <1>3, SessionsConsistent, PTL DEF Spec
=============================================================================
