------------------------- MODULE TelegramBridge_proofs -------------------------
(***************************************************************************)
(* The Telegram bridge confirms no update it has neither handled nor       *)
(* skipped as a backlog, and no server echoes what it gave to the thread,  *)
(* for any number of servers, updates, restarts and failures.              *)
(*                                                                         *)
(* Offsets: each one stored anywhere, in the runtimes' copies, the file    *)
(* and the writes still under way in any order, has only such updates up   *)
(* to it, so it does not matter which one wins.  Echoes: the one flow that *)
(* a server has of a message it took from the chat finds its origin        *)
(* remembered, and a message is remembered before the one flow that sends  *)
(* it goes on, unless it is forgotten for others.                          *)
(***************************************************************************)
EXTENDS TelegramBridge, TLAPS, SequenceTheorems

(* Everything up to offset n has been handled or skipped. *)
Cleared(u) == Handled(u) \/ u \in skipped
Safe(n) == n \in Offsets /\ \A u \in 1 .. n : Cleared(u)

OffsetsSafe ==
  /\ Safe(confirmed) /\ Safe(file.offset)
  /\ \A s \in Servers : /\ Safe(mem[s].offset)
                        /\ \A i \in DOMAIN tick[s].write : Safe(tick[s].write[i].offset)
                        /\ \A f \in flows[s] : Safe(f.state.offset)

(* The updates of a batch have arrived.  What is not in it has been        *)
(* cleared, and its first update has been handled, or is older than the    *)
(* configuration the tick has read, when the offset is to advance past it. *)
TickSafe(t) ==
  /\ t.step \in {"text", "dispatch", "advance"} => t.batch # << >>
  /\ t.step = "advance" => Handled(t.batch[1]) \/ dates[t.batch[1]] < t.since
  /\ t.since <= config.epoch
  /\ \A i \in DOMAIN t.batch : t.batch[i] <= arrived
  /\ \A i \in DOMAIN t.batch : \A u \in Ids :
       u < t.batch[i] => Cleared(u) \/ \E j \in 1 .. i - 1 : t.batch[j] = u

SkippedOld == \A u \in skipped : u <= arrived /\ dates[u] < config.epoch

(* The inductive invariant. *)
IInv == TypeOK /\ OffsetsSafe /\ SkippedOld /\ \A s \in Servers : TickSafe(tick[s])

-----------------------------------------------------------------------------
(* Types *)

LEMMA LengthType == Len(Updates) \in Nat /\ Offsets \subseteq Nat /\ Ids \subseteq Nat \ {0}
BY BridgeAssumption DEF Offsets, Ids

LEMMA StateType == Fresh \in State
BY LengthType DEF Fresh, State, Offsets

LEMMA ResolvedType ==
  ASSUME TypeOK, NEW state \in State
  PROVE  Resolved(state) \in State /\ Resolved(state).offset = state.offset
<1>1. available \in BOOLEAN /\ state.replied \in BOOLEAN
  BY DEF TypeOK, State
<1>2. (~available /\ state.replied) \in BOOLEAN
  BY <1>1
<1>. QED  BY <1>2, ZenonT(20) DEF State, Resolved

LEMMA IdleType == Idle \in TickState /\ NoLock \in LockFile
BY DEF Idle, TickState, NoLock, LockFile, Step

LEMMA ScopeType ==
  ASSUME TypeOK
  PROVE  /\ scope.servers \subseteq Servers /\ scope.updates \in Offsets /\ scope.born \in BOOLEAN
BY BridgeAssumption DEF TypeOK, Offsets

LEMMA CountType ==
  ASSUME TypeOK, NEW kind \in CountedKind, Count(kind)
  PROVE  scope' \in Scopes /\ counted' \in [CountedKind -> Nat]
BY DEF TypeOK, Count

LEMMA ReadableType == ASSUME TypeOK PROVE Readable \subseteq State
BY StateType DEF TypeOK, Readable

LEMMA GotoType ==
  ASSUME TypeOK, NEW s \in Servers, NEW step \in Step, Goto(s, step)
  PROVE  /\ tick' \in [Servers -> TickState]
         /\ tick' = [tick EXCEPT ![s] = tick'[s]]
         /\ tick'[s].step = step /\ tick'[s].batch = tick[s].batch
         /\ tick'[s].write = tick[s].write /\ tick'[s].since = tick[s].since
<1>1. tick \in [Servers -> TickState]
  BY DEF TypeOK
<1>2. tick' = [tick EXCEPT ![s] = [tick[s] EXCEPT !.step = step]]
  BY <1>1 DEF Goto
<1>3. [tick[s] EXCEPT !.step = step] \in TickState
  BY <1>1 DEF TickState
<1>. QED  BY <1>1, <1>2, <1>3 DEF TickState

LEMMA PersistType ==
  ASSUME TypeOK, NEW s \in Servers, NEW state \in State, NEW step \in Step,
         Persist(s, state, step)
  PROVE  /\ tick' \in [Servers -> TickState] /\ mem' \in [Servers -> State]
         /\ tick' = [tick EXCEPT ![s] = tick'[s]] /\ mem' = [mem EXCEPT ![s] = state]
         /\ tick'[s].step = step /\ tick'[s].batch = tick[s].batch
         /\ tick'[s].write = <<state>> /\ tick'[s].since = tick[s].since
<1> DEFINE t == [tick[s] EXCEPT !.write = <<state>>, !.step = step]
<1>1. tick \in [Servers -> TickState] /\ mem \in [Servers -> State]
  BY DEF TypeOK
<1>2. <<state>> \in Seq(State)
  OBVIOUS
<1>3. tick[s] \in TickState
  BY <1>1
<1>4. /\ t.step = step /\ t.batch = tick[s].batch /\ t.write = <<state>>
      /\ t.since = tick[s].since /\ t \in TickState
  BY <1>2, <1>3 DEF TickState
<1>5. tick' = [tick EXCEPT ![s] = t] /\ mem' = [mem EXCEPT ![s] = state]
  BY <1>1 DEF Persist
<1> HIDE DEF t
<1>. QED  BY <1>1, <1>4, <1>5

LEMMA ContinueType ==
  ASSUME NEW batch \in Seq(Ids), NEW since \in Nat
  PROVE  Continue(batch, since) \in TickState
<1>1. CASE batch = << >>
  BY <1>1, IdleType DEF Continue
<1>2. CASE batch # << >>
  <2> DEFINE step == IF Updates[Head(batch)] = "text" /\ dates[Head(batch)] >= since
                     THEN "text" ELSE "advance"
  <2>1. Continue(batch, since) = [Idle EXCEPT !.batch = batch, !.since = since, !.step = step]
    BY <1>2 DEF Continue
  <2>2. step \in Step
    BY DEF Step
  <2> HIDE DEF step
  <2>. QED  BY <2>1, <2>2, IdleType DEF TickState
<1>. QED  BY <1>1, <1>2

LEMMA NewFlowType ==
  ASSUME NEW m \in Messages
  PROVE  NewFlow(m) \in Flow /\ NewFlow(m).state = Fresh
BY StateType DEF NewFlow, Flow, FlowStep

LEMMA UpToDateType ==
  ASSUME NEW knows \in BOOLEAN
  PROVE  UpToDate(knows) \in View /\ UpToDate(knows).ahead = {}
BY DEF UpToDate, View

(* A message is published by the server that commits it, and lies ahead of *)
(* the read models of the others.                                          *)
LEMMA CommitsType ==
  ASSUME TypeOK, NEW s \in Servers, NEW m \in Messages, Commits(s, m)
  PROVE  /\ engine' \in [Servers -> View] /\ flows' \in [Servers -> SUBSET Flow]
         /\ \A r \in Servers : \A f \in flows'[r] : f \in flows[r] \/ (r = s /\ f = NewFlow(m))
         /\ \A r \in Servers : flows[r] \subseteq flows'[r]
         /\ engine'[s].ahead = {}
         /\ \A r \in Servers : r # s => engine'[r].ahead = engine[r].ahead \cup {m}
<1>1. engine \in [Servers -> View] /\ flows \in [Servers -> SUBSET Flow]
  BY DEF TypeOK
<1>2. UpToDate(engine[s].knows) \in View /\ UpToDate(engine[s].knows).ahead = {}
  BY <1>1, UpToDateType DEF View
<1>3. ASSUME NEW r \in Servers
      PROVE  /\ [engine[r] EXCEPT !.ahead = @ \cup {m}] \in View
             /\ [engine[r] EXCEPT !.ahead = @ \cup {m}].ahead = engine[r].ahead \cup {m}
  BY <1>1 DEF View
<1>4. \A r \in Servers : engine'[r] = IF r = s THEN UpToDate(engine[s].knows)
                                      ELSE [engine[r] EXCEPT !.ahead = @ \cup {m}]
  BY DEF Commits
<1>5. engine' \in [Servers -> View]
  BY <1>2, <1>3 DEF Commits
<1>6. flows' \in [Servers -> SUBSET Flow]
  BY <1>1, NewFlowType DEF Commits
<1>7. /\ \A r \in Servers : \A f \in flows'[r] : f \in flows[r] \/ (r = s /\ f = NewFlow(m))
      /\ \A r \in Servers : flows[r] \subseteq flows'[r]
  BY <1>1 DEF Commits
<1>. QED  BY <1>2, <1>3, <1>4, <1>5, <1>6, <1>7

(* What lay ahead of a read model is published. *)
LEMMA ReconcilesType ==
  ASSUME TypeOK, NEW s \in Servers, Reconciles(s)
  PROVE  /\ engine' \in [Servers -> View] /\ flows' \in [Servers -> SUBSET Flow]
         /\ \A r \in Servers : \A f \in flows'[r] :
              f \in flows[r] \/ (r = s /\ \E m \in engine[s].ahead : f = NewFlow(m) /\ m \in Messages)
         /\ \A r \in Servers : flows[r] \subseteq flows'[r]
         /\ engine'[s].ahead = {}
         /\ \A r \in Servers : r # s => engine'[r] = engine[r]
<1>1. engine \in [Servers -> View] /\ flows \in [Servers -> SUBSET Flow]
  BY DEF TypeOK
<1>2. engine[s].ahead \subseteq Messages /\ (engine[s].knows \/ engine[s].created) \in BOOLEAN
  BY <1>1 DEF View
<1> DEFINE v == UpToDate(engine[s].knows \/ engine[s].created)
           new == {NewFlow(m) : m \in engine[s].ahead}
<1>3. v \in View /\ v.ahead = {}
  BY <1>2, UpToDateType
<1>4. engine' = [engine EXCEPT ![s] = v] /\ flows' = [flows EXCEPT ![s] = flows[s] \cup new]
  BY <1>1 DEF Reconciles
<1>5. new \subseteq Flow /\ \A f \in new : \E m \in engine[s].ahead : f = NewFlow(m) /\ m \in Messages
  BY <1>2, NewFlowType
<1> HIDE DEF v, new
<1>. QED  BY <1>1, <1>3, <1>4, <1>5

-----------------------------------------------------------------------------
(* What a step may do without harm. *)

LEMMA InitIInv == Init => IInv
<1> SUFFICES ASSUME Init PROVE IInv
  OBVIOUS
<1>1. TypeOK
  <2>1. scope \in Scopes /\ scope.born \in BOOLEAN
    BY BridgeAssumption DEF Init
  <2>2. engine \in [Servers -> View]
    BY <2>1, UpToDateType DEF Init
  <2>3. config \in Config
    BY DEF Init, Config
  <2>4. counted \in [CountedKind -> Nat] /\ dates \in [Ids -> Nat] /\ arrived \in Offsets
        /\ confirmed \in Offsets /\ chat \in [Servers -> [Messages -> Nat]]
    BY LengthType DEF Init, Offsets
  <2>5. /\ lock \in LockFile /\ file \in State /\ mem \in [Servers -> State]
        /\ tick \in [Servers -> TickState]
    BY StateType, IdleType DEF Init
  <2>6. relayed \in [Servers -> Seq(Messages)]
    BY DEF Init
  <2>. QED  BY <2>1, <2>2, <2>3, <2>4, <2>5, <2>6 DEF Init, TypeOK
<1>2. Safe(0)
  BY LengthType DEF Safe, Offsets
<1>3. /\ Fresh.offset = 0 /\ Idle.step = "idle" /\ Idle.batch = << >> /\ Idle.write = << >>
      /\ Idle.since = 0
  BY DEF Fresh, Idle
<1>4. OffsetsSafe
  BY <1>2, <1>3 DEF Init, OffsetsSafe
<1>5. \A s \in Servers : TickSafe(tick[s])
  BY <1>3 DEF Init, TickSafe
<1>6. SkippedOld
  BY DEF Init, SkippedOld
<1>. QED  BY <1>1, <1>4, <1>5, <1>6 DEF IInv

(* Updates keep their dates, configurations go up, and what has been       *)
(* handled or skipped stays so.                                            *)
Monotone ==
  /\ arrived <= arrived' /\ config.epoch <= config'.epoch
  /\ \A u \in 1 .. arrived : dates'[u] = dates[u]
  /\ dropped \subseteq dropped' /\ skipped \subseteq skipped'
  /\ \A u \in Ids : delivered[u] # "none" => delivered'[u] # "none"

LEMMA EpochType ==
  ASSUME TypeOK
  PROVE  /\ config.epoch \in Nat /\ arrived \in Nat /\ 1 .. arrived \subseteq Ids
         /\ \A u \in Ids : dates[u] \in Nat
         /\ \A t \in TickState : t.since \in Nat /\ t.batch \in Seq(Ids)
<1>1. config.epoch \in Nat /\ \A u \in Ids : dates[u] \in Nat
  BY DEF TypeOK, Config
<1>2. arrived \in Nat /\ arrived <= Len(Updates)
  BY LengthType DEF TypeOK, Offsets
<1>3. 1 .. arrived \subseteq Ids
  BY <1>2, LengthType DEF Ids
<1>4. \A t \in TickState : t.since \in Nat /\ t.batch \in Seq(Ids)
  BY DEF TickState
<1>. QED  BY <1>1, <1>2, <1>3, <1>4

LEMMA BatchType == \A q \in Seq(Ids) : \A i \in DOMAIN q : q[i] \in Ids /\ q[i] \in Nat \ {0}
<1> SUFFICES ASSUME NEW q \in Seq(Ids), NEW i \in DOMAIN q PROVE q[i] \in Ids /\ q[i] \in Nat \ {0}
  OBVIOUS
<1>1. q[i] \in Ids
  OBVIOUS
<1>. QED  BY <1>1, LengthType

LEMMA MonotoneKeeps ==
  ASSUME TypeOK, TypeOK', Monotone
  PROVE  /\ \A u \in Ids : (Handled(u) => Handled(u)') /\ (Cleared(u) => Cleared(u)')
         /\ \A n : Safe(n) => Safe(n)'
         /\ \A t \in TickState : TickSafe(t) => TickSafe(t)'
         /\ \A u \in skipped : SkippedOld => u <= arrived' /\ dates'[u] < config'.epoch
<1>0. arrived' \in Nat /\ config'.epoch \in Nat
  <2>1. arrived' \in Offsets /\ config' \in Config
    BY DEF TypeOK
  <2>. QED  BY <2>1, LengthType DEF Config
<1>1. \A u \in Ids : (Handled(u) => Handled(u)') /\ (Cleared(u) => Cleared(u)')
  BY DEF Monotone, Handled, Cleared
<1>2. \A n : Safe(n) => Safe(n)'
  <2>1. \A n \in Offsets : \A u \in 1 .. n : u \in Ids
    BY LengthType DEF Offsets, Ids
  <2>. QED  BY <1>1, <2>1 DEF Safe
<1>3. ASSUME NEW t \in TickState, TickSafe(t) PROVE TickSafe(t)'
  <2>1. t.since \in Nat /\ t.batch \in Seq(Ids) /\ config.epoch \in Nat /\ config'.epoch \in Nat
        /\ arrived \in Nat /\ arrived' \in Nat
    BY <1>0, EpochType
  <2>2. \A i \in DOMAIN t.batch : t.batch[i] \in Ids /\ t.batch[i] \in Nat \ {0}
    BY <2>1, BatchType
  <2>3. t.since <= config'.epoch
    <3>1. t.since <= config.epoch /\ config.epoch <= config'.epoch
      BY <1>3 DEF TickSafe, Monotone
    <3>. QED  BY <1>0, <2>1, <3>1
  <2>4. \A i \in DOMAIN t.batch : t.batch[i] <= arrived' /\ dates'[t.batch[i]] = dates[t.batch[i]]
    <3>1. \A i \in DOMAIN t.batch : t.batch[i] <= arrived
      BY <1>3 DEF TickSafe
    <3>. QED  BY <2>1, <2>2, <3>1 DEF Monotone
  <2>5. t.step = "advance" => (Handled(t.batch[1]) \/ dates[t.batch[1]] < t.since)'
    <3>1. t.step = "advance" => 1 \in DOMAIN t.batch
      BY <1>3, <2>1 DEF TickSafe
    <3>. QED  BY <1>1, <1>3, <2>2, <2>4, <3>1 DEF TickSafe
  <2>6. (\A i \in DOMAIN t.batch : \A u \in Ids :
           u < t.batch[i] => Cleared(u) \/ \E j \in 1 .. i - 1 : t.batch[j] = u)'
    BY <1>1, <1>3 DEF TickSafe
  <2>. QED  BY <1>3, <2>3, <2>4, <2>5, <2>6 DEF TickSafe
<1>4. ASSUME NEW u \in skipped, SkippedOld PROVE u <= arrived' /\ dates'[u] < config'.epoch
  <2>1. u \in Ids /\ u \in Nat \ {0} /\ u <= arrived /\ dates[u] < config.epoch
    BY <1>4, LengthType DEF SkippedOld, TypeOK
  <2>2. /\ arrived \in Nat /\ arrived' \in Nat /\ config.epoch \in Nat /\ config'.epoch \in Nat
        /\ dates[u] \in Nat
    BY <1>0, <2>1, EpochType
  <2>3. dates'[u] = dates[u]
    BY <2>1, <2>2 DEF Monotone
  <2>. QED  BY <2>1, <2>2, <2>3 DEF Monotone
<1>. QED  BY <1>1, <1>2, <1>3, <1>4

LEMMA Still ==
  ASSUME TypeOK, UNCHANGED <<arrived, dates, config, delivered, dropped, skipped>>
  PROVE  /\ Monotone
         /\ \A u : (Handled(u) <=> Handled(u)') /\ (Cleared(u) <=> Cleared(u)')
         /\ \A n : Safe(n) <=> Safe(n)'
         /\ \A t : TickSafe(t) <=> TickSafe(t)'
<1>1. Monotone
  BY EpochType DEF Monotone
<1>2. \A u : (Handled(u) <=> Handled(u)') /\ (Cleared(u) <=> Cleared(u)')
  BY DEF Handled, Cleared
<1>3. \A n : Safe(n) <=> Safe(n)'
  BY <1>2 DEF Safe
<1>4. ASSUME NEW t PROVE TickSafe(t) <=> TickSafe(t)'
  BY <1>2 DEF TickSafe
<1>. QED  BY <1>1, <1>2, <1>3, <1>4

(* The invariant is kept by a step whose new offsets, ticks and skipped    *)
(* updates are safe.                                                       *)
LEMMA SafeSteps ==
  ASSUME IInv, TypeOK', Monotone, Safe(confirmed)', Safe(file.offset)',
         \A r \in Servers : mem'[r] = mem[r] \/ Safe(mem[r].offset)',
         \A r \in Servers : \A i \in DOMAIN tick'[r].write :
           tick'[r].write = tick[r].write \/ Safe(tick[r].write[i].offset)',
         \A r \in Servers : tick'[r] = tick[r] \/ TickSafe(tick[r])',
         \A r \in Servers : \A f \in flows'[r] : f \in flows[r] \/ Safe(f.state.offset)',
         \A u \in skipped' : u \in skipped \/ (u <= arrived' /\ dates'[u] < config'.epoch)
  PROVE  IInv'
<1>1. /\ \A n : Safe(n) => Safe(n)'
      /\ \A t \in TickState : TickSafe(t) => TickSafe(t)'
      /\ \A u \in skipped : SkippedOld => u <= arrived' /\ dates'[u] < config'.epoch
  BY MonotoneKeeps DEF IInv
<1>2. OffsetsSafe'
  BY <1>1 DEF IInv, OffsetsSafe
<1>3. \A r \in Servers : TickSafe(tick[r])'
  <2> SUFFICES ASSUME NEW r \in Servers, tick'[r] = tick[r] PROVE TickSafe(tick[r])'
    OBVIOUS
  <2>1. tick[r] \in TickState /\ TickSafe(tick[r])
    BY DEF IInv, TypeOK
  <2>2. PICK t \in TickState : t = tick[r]
    BY <2>1
  <2>3. TickSafe(t)'
    BY <1>1, <2>1, <2>2
  <2>. QED  BY <2>2, <2>3 DEF TickSafe
<1>4. SkippedOld'
  BY <1>1 DEF IInv, SkippedOld
<1>. QED  BY <1>2, <1>3, <1>4 DEF IInv

(* A step that only moves on the tick of server s, and its copy of the     *)
(* state to what it begins to write, and may begin flows.                  *)
LEMMA TickSteps ==
  ASSUME IInv, NEW s \in Servers,
         UNCHANGED <<arrived, dates, config, confirmed, file, delivered, dropped, skipped>>, TypeOK',
         tick' = [tick EXCEPT ![s] = tick'[s]],
         mem' = [mem EXCEPT ![s] = mem'[s]],
         Safe(mem'[s].offset),
         \/ tick'[s].write = tick[s].write \/ tick'[s].write = << >>
         \/ tick'[s].write = <<mem'[s]>>,
         TickSafe(tick'[s]),
         \A r \in Servers : \A f \in flows'[r] : f \in flows[r] \/ f.state = Fresh
  PROVE  IInv'
<1>1. /\ Monotone
      /\ \A n : Safe(n) <=> Safe(n)'
      /\ \A t : TickSafe(t) <=> TickSafe(t)'
  BY Still DEF IInv
<1>2. tick \in [Servers -> TickState] /\ mem \in [Servers -> State]
  BY DEF IInv, TypeOK
<1>3. \A r \in Servers : r # s => tick'[r] = tick[r] /\ mem'[r] = mem[r]
  BY <1>2
<1>4. \A i \in DOMAIN tick'[s].write :
        tick'[s].write = tick[s].write \/ Safe(tick'[s].write[i].offset)
  OBVIOUS
<1>5. \A r \in Servers : tick'[r] = tick[r] \/ TickSafe(tick[r])'
  <2>1. PICK t : t = tick'[s]
    OBVIOUS
  <2>2. TickSafe(t)'
    BY <1>1, <2>1
  <2>3. TickSafe(tick[s])'
    BY <2>1, <2>2 DEF TickSafe
  <2>. QED  BY <1>3, <2>3
<1>6. /\ Safe(confirmed)' /\ Safe(file.offset)'
      /\ \A r \in Servers : mem'[r] = mem[r] \/ Safe(mem[r].offset)'
      /\ \A r \in Servers : \A i \in DOMAIN tick'[r].write :
           tick'[r].write = tick[r].write \/ Safe(tick[r].write[i].offset)'
  BY <1>1, <1>3, <1>4 DEF IInv, OffsetsSafe, Safe, Cleared, Handled
<1>7. \A r \in Servers : \A f \in flows'[r] : f \in flows[r] \/ Safe(f.state.offset)'
  <2>1. Safe(Fresh.offset)
    BY LengthType DEF Fresh, Safe, Offsets
  <2>. QED  BY <1>1, <2>1 DEF Safe, Cleared, Handled
<1>. QED  BY <1>1, <1>5, <1>6, <1>7, SafeSteps

-----------------------------------------------------------------------------
(* tick *)

LEMMA StartTickKeeps == ASSUME IInv, NEW s \in Servers, StartTick(s) PROVE IInv'
<1> DEFINE t == [tick[s] EXCEPT !.step = "lock", !.lock = lock]
<1>1. tick \in [Servers -> TickState] /\ tick[s] \in TickState /\ lock \in LockFile
  BY DEF IInv, TypeOK
<1>2. /\ t \in TickState /\ t.step = "lock" /\ t.batch = tick[s].batch
      /\ t.write = tick[s].write /\ t.since = tick[s].since
  BY <1>1 DEF TickState, Step
<1>3. tick' = [tick EXCEPT ![s] = t]
  BY <1>1 DEF StartTick
<1> HIDE DEF t
<1>4. tick' \in [Servers -> TickState] /\ tick'[s] = t /\ mem' = mem /\ mem \in [Servers -> State]
  BY <1>1, <1>2, <1>3 DEF StartTick, IInv, TypeOK
<1>5. TypeOK'
  BY <1>4 DEF StartTick, telegram, database, files, relays, history, bounds, IInv, TypeOK
<1>6. TickSafe(t)
  BY <1>2 DEF IInv, TickSafe
<1>7. Safe(mem[s].offset)
  BY DEF IInv, OffsetsSafe
<1>. QED
  BY <1>2, <1>3, <1>4, <1>5, <1>6, <1>7, TickSteps
     DEF StartTick, telegram, database, files, relays, history

LEMMA IdleSafe ==
  ASSUME TypeOK, NEW step \in {"idle", "config"}
  PROVE  /\ TickSafe([Idle EXCEPT !.step = step]) /\ [Idle EXCEPT !.step = step] \in TickState
         /\ [Idle EXCEPT !.step = step].write = << >>
         /\ TickSafe(Idle) /\ Idle.write = << >> /\ Idle \in TickState
<1>1. /\ Idle \in TickState /\ Idle.batch = << >> /\ Idle.write = << >> /\ Idle.step = "idle"
      /\ Idle.since = 0
  BY IdleType DEF Idle
<1>2. /\ [Idle EXCEPT !.step = step] \in TickState
      /\ [Idle EXCEPT !.step = step].batch = << >> /\ [Idle EXCEPT !.step = step].write = << >>
      /\ [Idle EXCEPT !.step = step].step = step /\ [Idle EXCEPT !.step = step].since = 0
  BY <1>1 DEF TickState, Step
<1>3. 0 <= config.epoch
  BY EpochType
<1>. QED  BY <1>1, <1>2, <1>3 DEF TickSafe

LEMMA EnsureBridgeLockKeeps == ASSUME IInv, NEW s \in Servers, EnsureBridgeLock(s) PROVE IInv'
<1>1. /\ tick \in [Servers -> TickState] /\ mem' = mem /\ mem \in [Servers -> State]
      /\ owns \in [Servers -> BOOLEAN] /\ run \in [Servers -> Nat]
  BY DEF EnsureBridgeLock, IInv, TypeOK
<1>2. PICK t \in {Idle, [Idle EXCEPT !.step = "config"]} : tick' = [tick EXCEPT ![s] = t]
  BY DEF EnsureBridgeLock, Abort
<1>3. t \in TickState /\ TickSafe(t) /\ t.write = << >>
  BY <1>2, IdleSafe DEF IInv
<1>4. tick' \in [Servers -> TickState] /\ tick'[s] = t
  BY <1>1, <1>2, <1>3
<1>5. lock' \in LockFile /\ owns' \in [Servers -> BOOLEAN]
  <2>1. [server |-> s, run |-> run[s], recent |-> TRUE] \in LockFile
    BY <1>1 DEF LockFile
  <2>2. lock \in LockFile
    BY DEF IInv, TypeOK
  <2>3. \/ owns' = [owns EXCEPT ![s] = TRUE]
        \/ owns' = [owns EXCEPT ![s] = FALSE]
    BY DEF EnsureBridgeLock
  <2>. QED  BY <1>1, <2>1, <2>2, <2>3 DEF EnsureBridgeLock
<1>6. TypeOK'
  BY <1>4, <1>5 DEF EnsureBridgeLock, telegram, database, relays, history, bounds, IInv, TypeOK
<1>7. Safe(mem[s].offset)
  BY DEF IInv, OffsetsSafe
<1>. QED
  BY <1>1, <1>2, <1>3, <1>4, <1>6, <1>7, TickSteps
     DEF EnsureBridgeLock, telegram, database, relays, history

(* The write that is under way ends. *)
LEMMA TickWrittenKeeps == ASSUME IInv, NEW s \in Servers, TickWritten(s) PROVE IInv'
<1>0. PICK t : t = [tick[s] EXCEPT !.write = << >>]
  OBVIOUS
<1>1. tick \in [Servers -> TickState] /\ tick[s] \in TickState /\ tick[s].write # << >>
  BY DEF IInv, TypeOK, TickWritten
<1>2. /\ t \in TickState /\ t.write = << >> /\ t.batch = tick[s].batch
      /\ t.step = tick[s].step /\ t.since = tick[s].since
  <2>1. << >> \in Seq(State)
    OBVIOUS
  <2>. QED  BY <1>0, <1>1, <2>1 DEF TickState
<1>3. tick[s].write \in Seq(State)
  BY <1>1 DEF TickState
<1>4. /\ 1 \in DOMAIN tick[s].write /\ file' = tick[s].write[1] /\ file' \in State
  BY <1>1, <1>3 DEF TickWritten
<1>5. tick' = [tick EXCEPT ![s] = t]
  BY <1>0, <1>1 DEF TickWritten
<1>6. /\ tick' \in [Servers -> TickState] /\ tick'[s] = t
      /\ \A r \in Servers : r # s => tick'[r] = tick[r]
  BY <1>1, <1>2, <1>5
<1>7. TypeOK'
  BY <1>4, <1>6 DEF TickWritten, telegram, database, relays, history, bounds, IInv, TypeOK
<1>8. /\ UNCHANGED <<arrived, dates, config, delivered, dropped, skipped, confirmed, mem, flows>>
  BY DEF TickWritten, telegram, database, relays, history
<1>9. Monotone /\ (\A n : Safe(n) <=> Safe(n)') /\ \A x : TickSafe(x) <=> TickSafe(x)'
  BY <1>8, Still DEF IInv
<1>10. Safe(file.offset)' /\ Safe(confirmed)'
  BY <1>4, <1>8, <1>9 DEF IInv, OffsetsSafe, Safe, Cleared, Handled
<1>11. TickSafe(tick[s])'
  <2>1. TickSafe(t)
    BY <1>2 DEF IInv, TickSafe
  <2>2. TickSafe(t)'
    BY <1>9, <2>1
  <2>. QED  BY <1>6, <2>2 DEF TickSafe
<1>. QED  BY <1>2, <1>6, <1>7, <1>8, <1>9, <1>10, <1>11, SafeSteps

(* The tick begins to write a state whose offset is safe. *)
LEMMA PersistKeeps ==
  ASSUME IInv, NEW s \in Servers, NEW state \in State, NEW step \in Step,
         Persist(s, state, step), Safe(state.offset),
         UNCHANGED <<telegram, database, files, run, owns, relays, engine, history, bounds>>,
         reload' \in [Servers -> BOOLEAN],
         step = "dispatch", tick[s].step = "text"
  PROVE  IInv'
<1>1. /\ tick' \in [Servers -> TickState] /\ mem' \in [Servers -> State]
      /\ tick' = [tick EXCEPT ![s] = tick'[s]] /\ mem' = [mem EXCEPT ![s] = state]
      /\ tick'[s].step = step /\ tick'[s].batch = tick[s].batch
      /\ tick'[s].write = <<state>> /\ tick'[s].since = tick[s].since
  BY PersistType DEF IInv
<1>2. TypeOK'
  BY <1>1 DEF telegram, database, files, relays, history, bounds, IInv, TypeOK
<1>3. mem'[s] = state /\ mem' = [mem EXCEPT ![s] = mem'[s]]
  BY <1>1 DEF IInv, TypeOK
<1>4. TickSafe(tick'[s])
  BY <1>1 DEF IInv, TickSafe
<1>. QED
  BY <1>1, <1>2, <1>3, <1>4, TickSteps DEF telegram, database, files, relays, history

(* What may be read from the file is safe, and so is the initial state. *)
LEMMA ReadableSafe ==
  ASSUME IInv, NEW state \in Readable
  PROVE  state \in State /\ Safe(state.offset)
<1>1. Fresh.offset = 0 /\ Safe(0)
  BY LengthType DEF Fresh, Safe, Offsets
<1>2. state = file \/ state = Fresh
  BY DEF Readable
<1>. QED  BY <1>1, <1>2, ReadableType DEF IInv, OffsetsSafe

LEMMA ResolveConfigKeeps == ASSUME IInv, NEW s \in Servers, ResolveConfig(s) PROVE IInv'
<1>0. /\ tick \in [Servers -> TickState] /\ mem \in [Servers -> State] /\ tick[s] \in TickState
      /\ reload' \in [Servers -> BOOLEAN] /\ TickSafe(tick[s])
      /\ UNCHANGED <<telegram, database, files, run, owns, relays, engine, history, bounds>>
  BY DEF ResolveConfig, IInv, TypeOK
<1>1. CASE config.enabled
  <2>1. PICK state \in IF reload[s] THEN Readable ELSE {mem[s]} :
          /\ mem' = [mem EXCEPT ![s] = Resolved(state)]
          /\ tick' = [tick EXCEPT ![s].step = "poll", ![s].write = <<Resolved(state)>>,
                                  ![s].since = config.epoch]
    BY <1>1 DEF ResolveConfig
  <2>2. state \in State /\ Safe(state.offset)
    BY ReadableSafe DEF IInv, OffsetsSafe, TypeOK
  <2>3. PICK next : next = Resolved(state)
    OBVIOUS
  <2>4. next \in State /\ Safe(next.offset)
    BY <2>2, <2>3, ResolvedType DEF IInv
  <2>5. PICK t : t = [tick[s] EXCEPT !.step = "poll", !.write = <<next>>, !.since = config.epoch]
    OBVIOUS
  <2>6. config.epoch \in Nat /\ <<next>> \in Seq(State)
    BY <2>4, EpochType DEF IInv
  <2>7. /\ t \in TickState /\ t.step = "poll" /\ t.write = <<next>> /\ t.since = config.epoch
        /\ t.batch = tick[s].batch
    BY <1>0, <2>5, <2>6 DEF TickState, Step
  <2>8. tick' = [tick EXCEPT ![s] = t] /\ mem' = [mem EXCEPT ![s] = next]
    BY <1>0, <2>1, <2>3, <2>5
  <2>9. /\ tick' \in [Servers -> TickState] /\ tick'[s] = t
        /\ mem' \in [Servers -> State] /\ mem'[s] = next
    BY <1>0, <2>4, <2>7, <2>8
  <2>10. TypeOK'
    BY <1>0, <2>9 DEF telegram, database, files, relays, history, bounds, IInv, TypeOK
  <2>11. config.epoch <= config.epoch
    BY <2>6
  <2>12. TickSafe(t)
    BY <1>0, <2>7, <2>11 DEF TickSafe
  <2>. QED
    BY <1>0, <2>4, <2>7, <2>8, <2>9, <2>10, <2>12, TickSteps
       DEF telegram, database, files, relays, history
<1>2. CASE ~config.enabled
  <2>1. tick' = [tick EXCEPT ![s] = Idle] /\ mem' = mem
    BY <1>2 DEF ResolveConfig, Abort
  <2>2. tick' \in [Servers -> TickState] /\ tick'[s] = Idle /\ TickSafe(Idle) /\ Idle.write = << >>
    BY <1>0, <2>1, IdleSafe DEF IInv
  <2>3. TypeOK'
    BY <1>0, <2>1, <2>2 DEF telegram, database, files, relays, history, bounds, IInv, TypeOK
  <2>4. Safe(mem[s].offset) /\ mem' = [mem EXCEPT ![s] = mem'[s]]
    BY <1>0, <2>1 DEF IInv, OffsetsSafe
  <2>. QED
    BY <1>0, <2>1, <2>2, <2>3, <2>4, TickSteps DEF telegram, database, files, relays, history
<1>. QED  BY <1>1, <1>2

(* The text is given to the thread, or dropped after the chat was told. *)
LEMMA HandleTextKeeps == ASSUME IInv, NEW s \in Servers, HandleText(s) PROVE IInv'
<1>1. mem[s] \in State /\ Safe(mem[s].offset) /\ reload \in [Servers -> BOOLEAN]
  BY DEF IInv, OffsetsSafe, TypeOK
<1>2. CASE available
  <2>1. Resolved(mem[s]) \in State /\ Safe(Resolved(mem[s]).offset)
    BY <1>1, ResolvedType DEF IInv
  <2>2. "dispatch" \in Step /\ tick[s].step = "text"
    BY DEF Step, HandleText, At
  <2>3. Persist(s, Resolved(mem[s]), "dispatch") /\ dropped' = dropped
    BY <1>2 DEF HandleText
  <2>. QED
    BY <1>1, <2>1, <2>2, <2>3, PersistKeeps DEF HandleText, history
<1>3. CASE ~available
  <2>0. PICK state, u : state = [mem[s] EXCEPT !.replied = TRUE] /\ u = Head(tick[s].batch)
    OBVIOUS
  <2>1. /\ Persist(s, state, "advance") /\ dropped' = dropped \cup {u}
        /\ tick[s].step = "text"
    BY <1>3, <2>0 DEF HandleText, At
  <2>2. state \in State /\ state.offset = mem[s].offset
    BY <1>1, <2>0 DEF State
  <2>3. tick[s] \in TickState /\ tick[s].batch \in Seq(Ids) /\ tick[s].batch # << >>
    BY <2>1 DEF IInv, TypeOK, TickState, TickSafe
  <2>4. u = tick[s].batch[1] /\ u \in Ids
    BY <2>0, <2>3
  <2>5. "advance" \in Step
    BY DEF Step
  <2>6. /\ tick' \in [Servers -> TickState] /\ mem' \in [Servers -> State]
        /\ tick' = [tick EXCEPT ![s] = tick'[s]] /\ mem' = [mem EXCEPT ![s] = state]
        /\ tick'[s].step = "advance" /\ tick'[s].batch = tick[s].batch
        /\ tick'[s].write = <<state>> /\ tick'[s].since = tick[s].since
    BY <2>1, <2>2, <2>5, PersistType DEF IInv
  <2>7. UNCHANGED <<telegram, database, files, run, reload, owns, relays, engine, skipped, forgotten,
                    bounds>>
    BY DEF HandleText
  <2>8. TypeOK'
    BY <2>1, <2>4, <2>6, <2>7 DEF telegram, database, files, relays, bounds, IInv, TypeOK
  <2>9. Monotone
    BY <2>1, <2>7, EpochType DEF Monotone, telegram, database, files, IInv
  <2>10. /\ \A v \in Ids : (Handled(v) => Handled(v)') /\ (Cleared(v) => Cleared(v)')
         /\ \A n : Safe(n) => Safe(n)'
    BY <2>8, <2>9, MonotoneKeeps DEF IInv
  <2>11. Handled(u)'
    BY <2>1 DEF Handled
  <2>12. TickSafe(tick[s])'
    <3>1. PICK t \in TickState : t = tick[s]
      BY <2>3
    <3>2. TickSafe(t)'
      BY <2>8, <2>9, <3>1, MonotoneKeeps DEF IInv
    <3>. QED  BY <2>4, <2>3, <2>6, <2>11, <3>1, <3>2 DEF TickSafe
  <2>13. \A r \in Servers : r # s => tick'[r] = tick[r] /\ mem'[r] = mem[r]
    BY <2>6 DEF IInv, TypeOK
  <2>14. mem'[s] = state /\ Safe(state.offset)'
    <3>1. mem'[s] = state
      BY <2>6 DEF IInv, TypeOK
    <3>. QED  BY <1>1, <2>2, <2>10, <3>1
  <2>15. \A i \in DOMAIN tick'[s].write : tick'[s].write[i] = state
    BY <2>6
  <2>16. Safe(confirmed)' /\ Safe(file.offset)' /\ flows' = flows /\ skipped' = skipped
    BY <2>7, <2>10 DEF telegram, files, relays, IInv, OffsetsSafe
  <2>. QED
    BY <2>8, <2>9, <2>12, <2>13, <2>14, <2>15, <2>16, SafeSteps
<1>. QED  BY <1>2, <1>3

(* A batch is handled in order, from its first update. *)
InOrder(batch) ==
  /\ \A i \in DOMAIN batch : batch[i] <= arrived
  /\ \A i \in DOMAIN batch : \A u \in Ids :
       u < batch[i] => Cleared(u) \/ \E j \in 1 .. i - 1 : batch[j] = u

LEMMA ContinueSafe ==
  ASSUME TypeOK, NEW batch \in Seq(Ids), InOrder(batch),
         NEW since \in Nat, since <= config.epoch
  PROVE  TickSafe(Continue(batch, since)) /\ Continue(batch, since).write = << >>
<1>1. CASE batch = << >>
  BY <1>1, IdleSafe DEF Continue
<1>2. CASE batch # << >>
  <2> DEFINE step == IF Updates[Head(batch)] = "text" /\ dates[Head(batch)] >= since
                     THEN "text" ELSE "advance"
             t    == [Idle EXCEPT !.batch = batch, !.since = since, !.step = step]
  <2>1. Continue(batch, since) = t
    BY <1>2 DEF Continue
  <2>2. t.batch = batch /\ t.step = step /\ t.write = << >> /\ t.since = since
    BY DEF Idle
  <2>3. step = "advance" => Handled(batch[1]) \/ dates[batch[1]] < since
    <3>1. batch[1] \in Ids /\ Head(batch) = batch[1]
      BY <1>2
    <3>2. dates[batch[1]] \in Nat
      BY <3>1, EpochType
    <3>. QED  BY <3>1, <3>2 DEF Handled
  <2> HIDE DEF step, t
  <2>. QED  BY <1>2, <2>1, <2>2, <2>3 DEF TickSafe, InOrder
<1>. QED  BY <1>1, <1>2

LEMMA GetUpdatesKeeps == ASSUME IInv, NEW s \in Servers, GetUpdates(s) PROVE IInv'
<1>0. PICK known : known = IF mem[s].offset > confirmed THEN mem[s].offset ELSE confirmed
  OBVIOUS
<1>1. PICK batch : batch = [i \in 1 .. arrived - known |-> known + i]
  OBVIOUS
<1>2. /\ confirmed' = known
      /\ tick' = [tick EXCEPT ![s].step = "received", ![s].batch = batch]
      /\ UNCHANGED <<arrived, dates, chat, database, files, run, mem, reload, owns, relays, engine,
                     history, bounds>>
  BY <1>0, <1>1 DEF GetUpdates
<1>3. Safe(known) /\ known \in Nat /\ known \in Offsets
  BY <1>0, LengthType DEF IInv, OffsetsSafe, Safe
<1>4. arrived \in Nat /\ arrived <= Len(Updates) /\ Len(Updates) \in Nat
  BY LengthType DEF IInv, TypeOK, Offsets
<1>5. DOMAIN batch = 1 .. arrived - known /\ \A i \in DOMAIN batch : batch[i] = known + i
  BY <1>1
<1>6. batch \in Seq(Ids)
  <2>1. PICK n \in Nat : 1 .. arrived - known = 1 .. n
    <3>1. CASE arrived - known \in Nat
      BY <3>1
    <3>2. CASE arrived - known \notin Nat
      <4>1. 1 .. arrived - known = 1 .. 0
        BY <1>3, <1>4, <3>2
      <4>. QED  BY <4>1
    <3>. QED  BY <3>1, <3>2
  <2>2. \A i \in 1 .. arrived - known : known + i \in Ids
    BY <1>3, <1>4 DEF Ids
  <2>3. batch \in [1 .. n -> Ids]
    BY <1>1, <2>1, <2>2
  <2>. QED  BY <2>3, SeqDef
<1>7. InOrder(batch)
  <2>1. \A i \in DOMAIN batch : batch[i] <= arrived
    BY <1>3, <1>4, <1>5
  <2> SUFFICES ASSUME NEW i \in DOMAIN batch, NEW u \in Ids, u < batch[i], u > known
               PROVE  \E j \in 1 .. i - 1 : batch[j] = u
    BY <1>3, <2>1, LengthType DEF InOrder, Safe
  <2>2. u - known \in 1 .. i - 1 /\ u - known \in DOMAIN batch
    BY <1>3, <1>4, <1>5, LengthType
  <2>3. batch[u - known] = u
    BY <1>3, <1>5, <2>2, LengthType
  <2>. QED  BY <2>2, <2>3
<1>8. tick \in [Servers -> TickState] /\ tick[s] \in TickState /\ TickSafe(tick[s])
  BY DEF IInv, TypeOK
<1>9. PICK t : t = [tick[s] EXCEPT !.step = "received", !.batch = batch]
  OBVIOUS
<1>10. /\ t \in TickState /\ t.step = "received" /\ t.batch = batch /\ t.write = tick[s].write
       /\ t.since = tick[s].since
  BY <1>6, <1>8, <1>9 DEF TickState, Step
<1>11. tick' = [tick EXCEPT ![s] = t]
  BY <1>2, <1>8, <1>9
<1>12. /\ tick' \in [Servers -> TickState] /\ tick'[s] = t
       /\ \A r \in Servers : r # s => tick'[r] = tick[r]
  BY <1>8, <1>10, <1>11
<1>13. TypeOK'
  BY <1>2, <1>3, <1>12 DEF database, files, relays, history, bounds, IInv, TypeOK
<1>14. UNCHANGED <<arrived, dates, config, delivered, dropped, skipped, file, mem, flows>>
  BY <1>2 DEF database, files, relays, history
<1>15. Monotone /\ (\A n : Safe(n) <=> Safe(n)') /\ \A x : TickSafe(x) <=> TickSafe(x)'
  BY <1>14, Still DEF IInv
<1>16. TickSafe(tick[s])'
  <2>1. TickSafe(t)
    BY <1>7, <1>8, <1>10 DEF TickSafe, InOrder
  <2>2. TickSafe(t)'
    BY <1>15, <2>1
  <2>. QED  BY <1>12, <2>2 DEF TickSafe
<1>17. Safe(confirmed)' /\ Safe(file.offset)'
  <2>1. Safe(known)'
    BY <1>3, <1>15
  <2>2. confirmed' = known /\ file' = file /\ Safe(file.offset)
    BY <1>2, <1>14 DEF IInv, OffsetsSafe
  <2>. QED  BY <1>15, <2>1, <2>2 DEF Safe, Cleared, Handled
<1>. QED  BY <1>10, <1>12, <1>13, <1>14, <1>15, <1>16, <1>17, SafeSteps

(* Whether the filter is on or not, the batch is handled in order. *)
LEMMA ReceiveKeeps == ASSUME IInv, NEW s \in Servers, Receive(s) PROVE IInv'
<1>1. PICK batch, since : /\ batch = tick[s].batch
                          /\ since = IF mem[s].offset = 0 THEN tick[s].since ELSE 0
  OBVIOUS
<1>2. /\ tick \in [Servers -> TickState] /\ tick[s] \in TickState /\ TickSafe(tick[s])
      /\ mem \in [Servers -> State]
  BY DEF IInv, TypeOK
<1>3. batch \in Seq(Ids) /\ since \in Nat /\ tick[s].since \in Nat /\ config.epoch \in Nat
  BY <1>1, <1>2, EpochType DEF IInv
<1>4. since <= config.epoch
  BY <1>1, <1>2, <1>3 DEF TickSafe
<1>5. InOrder(batch)
  BY <1>1, <1>2 DEF TickSafe, InOrder
<1>6. PICK t : t = Continue(batch, since)
  OBVIOUS
<1>7. t \in TickState /\ TickSafe(t) /\ t.write = << >>
  BY <1>3, <1>4, <1>5, <1>6, ContinueType, ContinueSafe DEF IInv
<1>8. /\ tick' = [tick EXCEPT ![s] = t]
      /\ UNCHANGED <<telegram, database, files, run, mem, reload, owns, relays, engine, history, bounds>>
  BY <1>1, <1>2, <1>6 DEF Receive
<1>9. tick' \in [Servers -> TickState] /\ tick'[s] = t
  BY <1>2, <1>7, <1>8
<1>10. TypeOK'
  BY <1>8, <1>9 DEF telegram, database, files, relays, history, bounds, IInv, TypeOK
<1>11. Safe(mem[s].offset) /\ mem' = [mem EXCEPT ![s] = mem'[s]]
  BY <1>2, <1>8 DEF IInv, OffsetsSafe
<1>. QED
  BY <1>7, <1>8, <1>9, <1>10, <1>11, TickSteps DEF telegram, database, files, relays, history

LEMMA FromTelegramType == \A u \in Ids : FromTelegram(u) \in Messages
BY DEF Messages

(* What a tick is about to dispatch. *)
LEMMA DispatchType ==
  ASSUME IInv, NEW s \in Servers, At(s, "dispatch")
  PROVE  /\ Head(tick[s].batch) \in Ids /\ Head(tick[s].batch) = tick[s].batch[1]
         /\ tick[s] \in TickState /\ tick[s].batch \in Seq(Ids) /\ tick[s].batch # << >>
         /\ FromTelegram(Head(tick[s].batch)) \in Messages
         /\ RemembersOrigin(s, Head(tick[s].batch)) => origins' \in [Servers -> SUBSET Messages]
<1>1. /\ tick[s].step = "dispatch" /\ tick[s] \in TickState /\ tick[s].batch \in Seq(Ids)
      /\ tick[s].batch # << >>
  BY DEF At, IInv, TypeOK, TickState, TickSafe
<1>2. Head(tick[s].batch) \in Ids /\ Head(tick[s].batch) = tick[s].batch[1]
  BY <1>1
<1>3. FromTelegram(Head(tick[s].batch)) \in Messages
  BY <1>2, FromTelegramType
<1>4. PICK m \in Messages : m = FromTelegram(Head(tick[s].batch))
  BY <1>3
<1>5. ASSUME RemembersOrigin(s, Head(tick[s].batch)) PROVE origins' \in [Servers -> SUBSET Messages]
  <2>1. origins \in [Servers -> SUBSET Messages]
    BY DEF IInv, TypeOK
  <2>2. origins' = [origins EXCEPT ![s] = origins[s] \cup {m}]
    BY <1>4, <1>5 DEF RemembersOrigin
  <2>. QED  BY <2>1, <2>2
<1>. QED  BY <1>1, <1>2, <1>3, <1>5

(* The turn of the first update has been accepted, now or before. *)
LEMMA DispatchKeeps == ASSUME IInv, NEW s \in Servers, Dispatch(s) PROVE IInv'
<1>1. PICK u : u = Head(tick[s].batch)
  OBVIOUS
<1>2. /\ u \in Ids /\ u = tick[s].batch[1] /\ tick[s] \in TickState /\ tick[s].batch # << >>
      /\ tick[s].batch \in Seq(Ids) /\ FromTelegram(u) \in Messages
      /\ origins' \in [Servers -> SUBSET Messages]
  BY <1>1, DispatchType DEF Dispatch
<1>3. /\ Accepted(s, u) /\ Goto(s, "advance")
      /\ UNCHANGED <<telegram, rejected, available, files, run, mem, reload, owns, relayed, history,
                     bounds>>
  BY <1>1 DEF Dispatch
<1>4. /\ delivered \in [Ids -> Servers \cup {"none"}] /\ flows \in [Servers -> SUBSET Flow]
      /\ engine \in [Servers -> View]
  BY DEF IInv, TypeOK
<1>5. /\ delivered' \in [Ids -> Servers \cup {"none"}] /\ delivered'[u] # "none"
      /\ \A v \in Ids : delivered[v] # "none" => delivered'[v] # "none"
      /\ engine' \in [Servers -> View] /\ flows' \in [Servers -> SUBSET Flow]
      /\ \A r \in Servers : \A f \in flows'[r] : f \in flows[r] \/ f.state = Fresh
  <2>1. s # "none"
    BY BridgeAssumption
  <2>2. CASE delivered[u] = "none"
    <3>1. delivered' = [delivered EXCEPT ![u] = s] /\ Commits(s, FromTelegram(u))
      BY <1>3, <2>2 DEF Accepted
    <3>. QED  BY <1>2, <1>4, <2>1, <3>1, CommitsType, NewFlowType DEF IInv
  <2>3. CASE delivered[u] # "none"
    BY <1>3, <1>4, <2>3 DEF Accepted
  <2>. QED  BY <2>2, <2>3
<1>6. "advance" \in Step
  BY DEF Step
<1>7. /\ tick' \in [Servers -> TickState] /\ tick' = [tick EXCEPT ![s] = tick'[s]]
      /\ tick'[s].step = "advance" /\ tick'[s].batch = tick[s].batch
      /\ tick'[s].write = tick[s].write /\ tick'[s].since = tick[s].since
  BY <1>3, <1>6, GotoType DEF IInv
<1>8. TypeOK'
  BY <1>2, <1>3, <1>5, <1>7 DEF telegram, files, history, bounds, IInv, TypeOK
<1>9. Monotone
  BY <1>3, <1>5, EpochType DEF Monotone, telegram, files, history, IInv
<1>10. \A n : Safe(n) => Safe(n)'
  BY <1>8, <1>9, MonotoneKeeps DEF IInv
<1>11. Handled(u)'
  BY <1>5 DEF Handled
<1>12. TickSafe(tick[s])'
  <2>1. PICK t \in TickState : t = tick[s]
    BY <1>2
  <2>2. TickSafe(t)'
    BY <1>8, <1>9, <2>1, MonotoneKeeps DEF IInv
  <2>. QED  BY <1>2, <1>7, <1>11, <2>1, <2>2 DEF TickSafe
<1>13. \A r \in Servers : r # s => tick'[r] = tick[r]
  BY <1>7 DEF IInv, TypeOK
<1>14. Safe(confirmed)' /\ Safe(file.offset)' /\ mem' = mem /\ skipped' = skipped
  BY <1>3, <1>10 DEF telegram, files, history, IInv, OffsetsSafe
<1>15. \A r \in Servers : \A f \in flows'[r] : f \in flows[r] \/ Safe(f.state.offset)'
  <2>1. Safe(Fresh.offset)'
    BY LengthType DEF Fresh, Safe, Offsets
  <2>. QED  BY <1>5, <2>1 DEF Safe, Cleared, Handled
<1>. QED
  BY <1>7, <1>8, <1>9, <1>12, <1>13, <1>14, <1>15, SafeSteps

(* The tick ends, after flows may have begun. *)
LEMMA AbortKeeps ==
  ASSUME IInv, NEW s \in Servers, Abort(s),
         Reconciles(s) \/ UNCHANGED <<engine, flows>>,
         origins' \in [Servers -> SUBSET Messages], rejected' \subseteq Ids,
         scope' \in Scopes, counted' \in [CountedKind -> Nat],
         UNCHANGED <<telegram, delivered, available, files, run, mem, reload, owns, relayed, history>>
  PROVE  IInv'
<1>1. tick' = [tick EXCEPT ![s] = Idle] /\ mem' = mem /\ tick \in [Servers -> TickState]
  BY DEF Abort, IInv, TypeOK
<1>2. tick' \in [Servers -> TickState] /\ tick'[s] = Idle
  BY <1>1, IdleType
<1>3. /\ engine' \in [Servers -> View] /\ flows' \in [Servers -> SUBSET Flow]
      /\ \A r \in Servers : \A f \in flows'[r] : f \in flows[r] \/ f.state = Fresh
  BY ReconcilesType, NewFlowType DEF IInv, TypeOK
<1>4. TypeOK'
  BY <1>2, <1>3 DEF telegram, files, history, IInv, TypeOK
<1>5. Safe(mem[s].offset) /\ mem' = [mem EXCEPT ![s] = mem'[s]]
  BY <1>1 DEF IInv, OffsetsSafe, TypeOK
<1>6. TickSafe(Idle) /\ Idle.write = << >>
  BY IdleSafe DEF IInv
<1>. QED
  BY <1>1, <1>2, <1>3, <1>4, <1>5, <1>6, TickSteps DEF telegram, files, history

LEMMA FailsType ==
  ASSUME TypeOK, Fails \/ UNCHANGED bounds
  PROVE  scope' \in Scopes /\ counted' \in [CountedKind -> Nat]
BY CountType DEF Fails, CountedKind, bounds, TypeOK

LEMMA DispatchRefusedKeeps == ASSUME IInv, NEW s \in Servers, DispatchRefused(s) PROVE IInv'
<1>1. PICK u : u = Head(tick[s].batch)
  OBVIOUS
<1>2. /\ At(s, "dispatch") /\ RemembersOrigin(s, u) /\ Abort(s)
      /\ rejected' = rejected \/ rejected' = rejected \cup {u}
      /\ Reconciles(s) \/ UNCHANGED <<engine, flows>>
      /\ Fails \/ UNCHANGED bounds
      /\ UNCHANGED <<telegram, delivered, available, files, run, mem, reload, owns, relayed, history>>
  BY <1>1 DEF DispatchRefused
<1>3. u \in Ids /\ origins' \in [Servers -> SUBSET Messages]
  BY <1>1, <1>2, DispatchType
<1>4. rejected' \subseteq Ids
  BY <1>2, <1>3 DEF IInv, TypeOK
<1>. QED  BY <1>2, <1>3, <1>4, FailsType, AbortKeeps DEF IInv

LEMMA TickFailsKeeps == ASSUME IInv, NEW s \in Servers, TickFails(s) PROVE IInv'
<1>1. /\ Abort(s) /\ Fails
      /\ UNCHANGED <<telegram, database, files, run, mem, reload, owns, relayed, history>>
      /\ \/ /\ At(s, "dispatch") /\ RemembersOrigin(s, Head(tick[s].batch))
            /\ Reconciles(s) \/ UNCHANGED <<engine, flows>>
         \/ UNCHANGED <<origins, engine, flows>>
  BY DEF TickFails
<1>2. origins' \in [Servers -> SUBSET Messages] /\ rejected' \subseteq Ids
  BY <1>1, DispatchType DEF IInv, TypeOK, database
<1>. QED  BY <1>1, <1>2, FailsType, AbortKeeps DEF IInv, database

(* The offset advances past the first update of the batch, which has been  *)
(* handled or is skipped, as everything before it has been.                *)
LEMMA AdvanceKeeps == ASSUME IInv, NEW s \in Servers, Advance(s) PROVE IInv'
<1>1. PICK batch, since : batch = tick[s].batch /\ since = tick[s].since
  OBVIOUS
<1>2. /\ tick[s].step = "advance" /\ tick[s] \in TickState /\ batch \in Seq(Ids) /\ batch # << >>
      /\ mem[s] \in State /\ mem \in [Servers -> State] /\ tick \in [Servers -> TickState]
      /\ since \in Nat
  BY <1>1 DEF Advance, At, IInv, TypeOK, TickState, TickSafe
<1>3. /\ Handled(batch[1]) \/ dates[batch[1]] < since
      /\ since <= config.epoch /\ InOrder(batch) /\ batch[1] <= arrived
      /\ batch[1] \in Ids /\ Head(batch) = batch[1]
  <2>1. TickSafe(tick[s]) /\ 1 \in DOMAIN batch
    BY <1>2 DEF IInv
  <2>. QED  BY <1>1, <1>2, <2>1 DEF TickSafe, InOrder
<1>4. Consumed(s) = batch[1]
  BY <1>1, <1>2 DEF Consumed
<1>5. /\ skipped' = IF dates[batch[1]] < since THEN skipped \cup {batch[1]} ELSE skipped
      /\ UNCHANGED <<telegram, database, files, run, reload, owns, relays, engine, dropped, forgotten,
                     bounds>>
  BY <1>1, <1>3 DEF Advance
<1>6. skipped' \subseteq Ids /\ skipped \subseteq skipped' /\ Monotone
  BY <1>3, <1>5, EpochType DEF Monotone, telegram, database, files, IInv, TypeOK
<1>7. Cleared(batch[1])'
  BY <1>3, <1>5 DEF Cleared, Handled, database
<1>8. \A u \in Ids : Cleared(u) => Cleared(u)'
  BY <1>5, <1>6 DEF Cleared, Handled, database
<1>9. Safe(batch[1])'
  <2>1. \A u \in 1 .. batch[1] : u \in Ids /\ (u < batch[1] \/ u = batch[1])
    BY <1>3, LengthType DEF Ids
  <2>2. 1 \in DOMAIN batch /\ 1 .. 1 - 1 = {}
    BY <1>2
  <2>3. \A u \in 1 .. batch[1] : Cleared(u)'
    BY <1>3, <1>7, <1>8, <2>1, <2>2 DEF InOrder
  <2>4. batch[1] \in Offsets
    BY <1>3, LengthType DEF Ids, Offsets
  <2>. QED  BY <2>3, <2>4 DEF Safe
<1>10. PICK t : t = Continue(Tail(batch), since)
  OBVIOUS
<1>11. /\ t \in TickState /\ TickSafe(t)' /\ t.write = << >>
  <2>1. /\ Tail(batch) \in Seq(Ids) /\ DOMAIN Tail(batch) = 1 .. Len(batch) - 1
        /\ \A i \in 1 .. Len(batch) - 1 : Tail(batch)[i] = batch[i + 1]
        /\ Len(batch) \in Nat /\ DOMAIN batch = 1 .. Len(batch)
    BY <1>2
  <2>2. ASSUME NEW i \in 1 .. Len(batch) - 1, NEW u \in Ids, u < batch[i + 1], ~Cleared(u)'
        PROVE  \E j \in 1 .. i - 1 : Tail(batch)[j] = u
    <3>1. i + 1 \in DOMAIN batch
      BY <2>1
    <3>2. PICK j \in 1 .. (i + 1) - 1 : batch[j] = u
      BY <1>3, <1>8, <2>2, <3>1 DEF InOrder
    <3>3. j # 1
      BY <1>7, <2>2, <3>2
    <3>4. j - 1 \in 1 .. i - 1 /\ j - 1 \in 1 .. Len(batch) - 1 /\ (j - 1) + 1 = j
      BY <2>1, <3>2, <3>3
    <3>. QED  BY <2>1, <3>2, <3>4
  <2>3. \A i \in 1 .. Len(batch) - 1 : Tail(batch)[i] <= arrived
    <3>1. \A i \in 1 .. Len(batch) - 1 : i + 1 \in DOMAIN batch
      BY <2>1
    <3>. QED  BY <1>3, <2>1, <3>1 DEF InOrder
  <2>4. UNCHANGED <<arrived, dates, config>>
    BY <1>5 DEF telegram, files
  <2>5. CASE Tail(batch) = << >>
    <3>1. t = Idle /\ Idle.batch = << >> /\ Idle.write = << >> /\ Idle.step = "idle" /\ Idle.since = 0
      BY <1>10, <2>5 DEF Continue, Idle
    <3>2. 0 <= config'.epoch
      BY <2>4, EpochType DEF IInv
    <3>. QED  BY <3>1, <3>2, IdleType DEF TickSafe
  <2>6. CASE Tail(batch) # << >>
    <3>1. PICK step : step = IF Updates[Head(Tail(batch))] = "text" /\ dates[Head(Tail(batch))] >= since
                             THEN "text" ELSE "advance"
      OBVIOUS
    <3>2. /\ t.batch = Tail(batch) /\ t.step = step /\ t.write = << >> /\ t.since = since
      BY <1>10, <2>6, <3>1 DEF Continue, Idle
    <3>3. Tail(batch)[1] \in Ids /\ Head(Tail(batch)) = Tail(batch)[1]
      BY <2>1, <2>6
    <3>4. dates[Tail(batch)[1]] \in Nat
      BY <3>3, EpochType DEF IInv
    <3>5. PICK tail : tail = Tail(batch)
      OBVIOUS
    <3>6. t \in TickState
      BY <1>2, <1>10, <2>1, ContinueType
    <3>7. PICK v : v = tail[1]
      OBVIOUS
    <3>8. /\ \A i \in DOMAIN tail : tail[i] <= arrived'
          /\ \A i \in DOMAIN tail : \A u \in Ids :
               u < tail[i] => Cleared(u)' \/ \E j \in 1 .. i - 1 : tail[j] = u
      BY <2>1, <2>2, <2>3, <2>4, <3>5
    <3>9. tail # << >> /\ t.batch = tail /\ (t.step = "advance" =>
            (Handled(tail[1]) \/ dates[tail[1]] < since)')
      <4>1. step = "advance" => Handled(v) \/ dates[v] < since
        <5>1. Head(Tail(batch)) = v /\ dates[v] \in Nat
          BY <3>3, <3>4, <3>5, <3>7
        <5>2. step = IF Updates[v] = "text" /\ dates[v] >= since THEN "text" ELSE "advance"
          BY <3>1, <5>1, Zenon
        <5>. QED  BY <1>2, <5>1, <5>2 DEF Handled
      <4>2. UNCHANGED <<delivered, dropped, dates>>
        BY <1>5 DEF telegram, database
      <4>3. step = "advance" => (Handled(v) \/ dates[v] < since)'
        BY <4>1, <4>2 DEF Handled
      <4>. QED  BY <2>6, <3>2, <3>5, <3>7, <4>3 DEF Handled
    <3>10. t.since <= config'.epoch /\ t.since = since
      BY <1>3, <2>4, <3>2
    <3>. QED  BY <3>2, <3>6, <3>8, <3>9, <3>10 DEF TickSafe
  <2>. QED  BY <2>5, <2>6
<1>12. \A u \in skipped' : u \in skipped \/ (u <= arrived' /\ dates'[u] < config'.epoch)
  <2>1. UNCHANGED <<arrived, dates, config>>
    BY <1>5 DEF telegram, files
  <2>2. config.epoch \in Nat /\ dates[batch[1]] \in Nat
    BY <1>3, EpochType DEF IInv
  <2>. QED  BY <1>2, <1>3, <1>5, <2>1, <2>2
<1>13. CASE Consumed(s) > mem[s].offset
  <2>1. PICK state : state = [mem[s] EXCEPT !.offset = batch[1]]
    OBVIOUS
  <2>2. state \in State /\ state.offset = batch[1]
    BY <1>2, <1>9, <2>1 DEF State, Safe
  <2>3. mem' = [mem EXCEPT ![s] = state]
    BY <1>2, <1>4, <1>13, <2>1 DEF Advance
  <2>4. mem' \in [Servers -> State] /\ mem'[s] = state
    BY <1>2, <2>2, <2>3
  <2>5. PICK w : w = [t EXCEPT !.write = <<state>>]
    OBVIOUS
  <2>6. tick' = [tick EXCEPT ![s] = w]
    BY <1>1, <1>2, <1>10, <1>13, <2>4, <2>5 DEF Advance
  <2>7. <<state>> \in Seq(State)
    BY <2>2
  <2>8. /\ w \in TickState /\ w.write = <<state>> /\ w.since = t.since
        /\ w.step = t.step /\ w.batch = t.batch
    BY <1>11, <2>5, <2>7 DEF TickState
  <2>9. tick' \in [Servers -> TickState] /\ tick'[s] = w
    BY <1>2, <2>6, <2>8
  <2>10. TickSafe(tick[s])'
    BY <1>11, <2>8, <2>9 DEF TickSafe
  <2>11. TypeOK'
    BY <1>5, <1>6, <2>4, <2>9 DEF telegram, database, files, relays, bounds, IInv, TypeOK
  <2>12. /\ \A r \in Servers : r # s => tick'[r] = tick[r] /\ mem'[r] = mem[r]
         /\ \A i \in DOMAIN tick'[s].write : tick'[s].write[i] = state
    BY <1>2, <2>3, <2>6, <2>8, <2>9
  <2>13. Safe(state.offset)'
    BY <1>9, <2>2
  <2>14. Safe(confirmed)' /\ Safe(file.offset)' /\ flows' = flows
    BY <1>5, <1>6, <2>11, MonotoneKeeps DEF telegram, files, relays, IInv, OffsetsSafe
  <2>. QED
    BY <1>6, <1>12, <2>4, <2>10, <2>11, <2>12, <2>13, <2>14, SafeSteps
<1>14. CASE ~(Consumed(s) > mem[s].offset)
  <2>1. mem' = mem /\ tick' = [tick EXCEPT ![s] = t]
    BY <1>1, <1>2, <1>10, <1>14 DEF Advance
  <2>2. tick' \in [Servers -> TickState] /\ tick'[s] = t
    BY <1>2, <1>11, <2>1
  <2>3. TypeOK'
    BY <1>5, <1>6, <2>1, <2>2 DEF telegram, database, files, relays, bounds, IInv, TypeOK
  <2>4. TickSafe(tick[s])' /\ tick'[s].write = << >>
    BY <1>11, <2>2 DEF TickSafe
  <2>5. \A r \in Servers : r # s => tick'[r] = tick[r]
    BY <1>2, <2>1
  <2>6. Safe(confirmed)' /\ Safe(file.offset)' /\ flows' = flows
    BY <1>5, <1>6, <2>3, MonotoneKeeps DEF telegram, files, relays, IInv, OffsetsSafe
  <2>. QED  BY <1>6, <1>12, <2>1, <2>3, <2>4, <2>5, <2>6, SafeSteps
<1>. QED  BY <1>13, <1>14


-----------------------------------------------------------------------------
(* handleDomainEvent *)

(* A flow of server s becomes another, whose state is safe, or ends; what  *)
(* it writes or takes for the runtime's state is safe.                     *)
LEMMA FlowSteps ==
  ASSUME IInv, NEW s \in Servers, NEW f \in flows[s],
         UNCHANGED <<arrived, dates, config, delivered, dropped, skipped, confirmed, tick>>, TypeOK',
         Ends(s, f) \/ \E g \in Flow : Becomes(s, f, g) /\ Safe(g.state.offset),
         mem' = mem \/ \E state \in State : /\ Safe(state.offset)
                                            /\ mem' = [mem EXCEPT ![s] = state],
         file' = file \/ Safe(file'.offset)
  PROVE  IInv'
<1>1. Monotone /\ \A n : Safe(n) <=> Safe(n)'
  BY Still DEF IInv
<1>2. Safe(confirmed)' /\ Safe(file.offset)'
  <2>1. Safe(confirmed') /\ Safe(file'.offset)
    BY DEF IInv, OffsetsSafe
  <2>. QED  BY <1>1, <2>1
<1>3. \A r \in Servers : mem'[r] = mem[r] \/ Safe(mem[r].offset)'
  <2>1. \A r \in Servers : mem'[r] = mem[r] \/ Safe(mem'[r].offset)
    BY DEF IInv, TypeOK
  <2>. QED  BY <1>1, <2>1
<1>4. \A r \in Servers : \A g \in flows'[r] : g \in flows[r] \/ Safe(g.state.offset)'
  <2>1. flows \in [Servers -> SUBSET Flow]
    BY DEF IInv, TypeOK
  <2>2. CASE Ends(s, f)
    BY <2>1, <2>2 DEF Ends
  <2>3. ASSUME NEW g \in Flow, Becomes(s, f, g), Safe(g.state.offset)
        PROVE  \A r \in Servers : \A h \in flows'[r] : h \in flows[r] \/ Safe(h.state.offset)'
    <3>1. Safe(g.state.offset)'
      BY <1>1, <2>3
    <3>2. \A r \in Servers : \A h \in flows'[r] : h \in flows[r] \/ h = g
      BY <2>1, <2>3 DEF Becomes
    <3>. QED  BY <3>1, <3>2
  <2>. QED  BY <2>2, <2>3
<1>. QED  BY <1>1, <1>2, <1>3, <1>4, SafeSteps

LEMMA FlowType ==
  ASSUME TypeOK, NEW s \in Servers, NEW f \in flows[s], NEW step \in FlowStep, NEW state \in State
  PROVE  /\ f \in Flow /\ f.message \in Messages /\ f.state \in State
         /\ [f EXCEPT !.step = step, !.state = state] \in Flow
         /\ [f EXCEPT !.step = step, !.state = state].state = state
<1>1. f \in Flow
  BY DEF TypeOK
<1>. QED  BY <1>1 DEF Flow

LEMMA BecomesType ==
  ASSUME TypeOK, NEW s \in Servers, NEW f, NEW g \in Flow, Becomes(s, f, g)
  PROVE  flows' \in [Servers -> SUBSET Flow]
<1>1. flows \in [Servers -> SUBSET Flow]
  BY DEF TypeOK
<1>2. (flows[s] \ {f}) \cup {g} \in SUBSET Flow
  BY <1>1
<1>. QED  BY <1>1, <1>2 DEF Becomes

LEMMA EndsType ==
  ASSUME TypeOK, NEW s \in Servers, NEW f, Ends(s, f)
  PROVE  flows' \in [Servers -> SUBSET Flow]
BY DEF TypeOK, Ends

LEMMA FlowResolvesKeeps ==
  ASSUME IInv, NEW s \in Servers, NEW f \in flows[s], NEW state \in State, Safe(state.offset),
         FlowResolves(s, f, state), reload' \in [Servers -> BOOLEAN],
         UNCHANGED <<telegram, database, files, run, owns, tick, origins, relayed, engine, history,
                     bounds>>
  PROVE  IInv'
<1>1. PICK next : next = Resolved(state)
  OBVIOUS
<1>2. next \in State /\ next.offset = state.offset
  BY <1>1, ResolvedType DEF IInv
<1>3. mem' = [mem EXCEPT ![s] = next] /\ mem \in [Servers -> State]
  BY <1>1 DEF FlowResolves, IInv, TypeOK
<1>4. mem' \in [Servers -> State] /\ mem'[s] = next
  BY <1>2, <1>3
<1>5. PICK g : g = [f EXCEPT !.step = "write", !.state = next]
  OBVIOUS
<1>6. Becomes(s, f, g)
  BY <1>4, <1>5 DEF FlowResolves
<1>7. g \in Flow /\ g.state = next
  BY <1>2, <1>5, FlowType DEF IInv, FlowStep
<1>8. flows' \in [Servers -> SUBSET Flow]
  BY <1>6, <1>7, BecomesType DEF IInv
<1>9. TypeOK'
  BY <1>4, <1>8 DEF telegram, database, files, history, bounds, IInv, TypeOK
<1>. QED  BY <1>2, <1>3, <1>6, <1>7, <1>9, FlowSteps DEF telegram, database, files, history

LEMMA FlowStartsKeeps ==
  ASSUME IInv, NEW s \in Servers, NEW f \in flows[s], FlowStarts(s, f)
  PROVE  IInv'
<1>0. /\ UNCHANGED <<telegram, database, files, run, owns, tick, origins, relayed, engine, history,
                     bounds>>
      /\ reload' \in [Servers -> BOOLEAN]
  BY DEF FlowStarts, IInv, TypeOK
<1>1. CASE Ends(s, f) /\ UNCHANGED mem
  <2>1. flows' \in [Servers -> SUBSET Flow]
    BY <1>1, EndsType DEF IInv
  <2>2. TypeOK'
    BY <1>0, <1>1, <2>1 DEF telegram, database, files, history, bounds, IInv, TypeOK
  <2>. QED  BY <1>0, <1>1, <2>2, FlowSteps DEF telegram, database, files, history
<1>2. ASSUME NEW state \in Readable,
             Becomes(s, f, [f EXCEPT !.step = "assign", !.state = state]), UNCHANGED mem
      PROVE  IInv'
  <2>1. state \in State /\ Safe(state.offset)
    BY ReadableSafe
  <2>2. PICK g : g = [f EXCEPT !.step = "assign", !.state = state]
    OBVIOUS
  <2>3. g \in Flow /\ g.state = state
    BY <2>1, <2>2, FlowType DEF IInv, FlowStep
  <2>4. Becomes(s, f, g)
    BY <1>2, <2>2
  <2>5. flows' \in [Servers -> SUBSET Flow]
    BY <2>3, <2>4, BecomesType DEF IInv
  <2>6. TypeOK'
    BY <1>0, <1>2, <2>5 DEF telegram, database, files, history, bounds, IInv, TypeOK
  <2>. QED
    BY <1>0, <1>2, <2>1, <2>3, <2>4, <2>6, FlowSteps DEF telegram, database, files, history
<1>3. CASE FlowResolves(s, f, mem[s])
  <2>1. mem[s] \in State /\ Safe(mem[s].offset)
    BY DEF IInv, TypeOK, OffsetsSafe
  <2>. QED  BY <1>0, <1>3, <2>1, FlowResolvesKeeps
<1>. QED  BY <1>1, <1>2, <1>3 DEF FlowStarts

LEMMA FlowAssignsKeeps ==
  ASSUME IInv, NEW s \in Servers, NEW f \in flows[s], FlowAssigns(s, f)
  PROVE  IInv'
<1>1. f.state \in State /\ Safe(f.state.offset)
  BY DEF IInv, TypeOK, Flow, OffsetsSafe
<1>2. reload' \in [Servers -> BOOLEAN]
  BY DEF FlowAssigns, IInv, TypeOK
<1>. QED  BY <1>1, <1>2, FlowResolvesKeeps DEF FlowAssigns

(* What a server remembers is a sequence of messages, and no message that  *)
(* was remembered is lost without being counted as forgotten.              *)
LEMMA RemembersType ==
  ASSUME TypeOK, NEW s \in Servers, NEW m \in Messages, Remembers(s, m)
  PROVE  /\ relayed' \in [Servers -> Seq(Messages)]
         /\ forgotten' \subseteq Servers \X Messages /\ forgotten \subseteq forgotten'
         /\ IsRelayed(s, m)'
         /\ \A k : IsRelayed(s, k) => IsRelayed(s, k)' \/ <<s, k>> \in forgotten'
         /\ \A k : IsRelayed(s, k)' => IsRelayed(s, k) \/ k = m
         /\ \A r \in Servers : r # s => relayed'[r] = relayed[r]
<1>1. PICK q \in Seq(Messages) : q = relayed[s]
  BY DEF TypeOK
<1>2. relayed \in [Servers -> Seq(Messages)] /\ forgotten \subseteq Servers \X Messages
  BY DEF TypeOK
<1>3. CASE Len(q) # MaxRemembered
  <2>1. relayed' = [relayed EXCEPT ![s] = Append(q, m)] /\ forgotten' = forgotten
    BY <1>1, <1>3 DEF Remembers
  <2>2. /\ Append(q, m) \in Seq(Messages) /\ DOMAIN Append(q, m) = 1 .. Len(q) + 1
        /\ Append(q, m)[Len(q) + 1] = m /\ \A i \in 1 .. Len(q) : Append(q, m)[i] = q[i]
        /\ DOMAIN q = 1 .. Len(q) /\ Len(q) \in Nat
    OBVIOUS
  <2>3. \A i \in 1 .. Len(q) + 1 : i \in 1 .. Len(q) \/ i = Len(q) + 1
    BY <2>2
  <2>4. PICK p : p = Append(q, m)
    OBVIOUS
  <2>5. relayed' \in [Servers -> Seq(Messages)] /\ relayed'[s] = p
    BY <1>2, <2>1, <2>2, <2>4
  <2>6. Len(q) + 1 \in DOMAIN p /\ \A i \in DOMAIN q : i \in DOMAIN p
    BY <2>2, <2>4
  <2>7. (\E i \in DOMAIN p : p[i] = m) /\ \A k : (\E i \in DOMAIN q : q[i] = k) => \E i \in DOMAIN p : p[i] = k
    BY <2>2, <2>4, <2>6
  <2>8. \A k : (\E i \in DOMAIN p : p[i] = k) => (\E i \in DOMAIN q : q[i] = k) \/ k = m
    BY <2>2, <2>3, <2>4
  <2>. QED  BY <1>1, <1>2, <2>1, <2>5, <2>7, <2>8 DEF IsRelayed
<1>4. CASE Len(q) = MaxRemembered
  <2>0. Len(q) \in Nat \ {0} /\ q # << >>
    BY <1>4, BridgeAssumption
  <2>1. /\ relayed' = [relayed EXCEPT ![s] = Append(Tail(q), m)]
        /\ forgotten' = forgotten \cup {<<s, Head(q)>>}
    BY <1>1, <1>4 DEF Remembers
  <2>2. PICK t : t = Tail(q)
    OBVIOUS
  <2>3. /\ t \in Seq(Messages) /\ DOMAIN t = 1 .. Len(q) - 1 /\ Len(t) = Len(q) - 1 /\ DOMAIN q = 1 .. Len(q)
        /\ \A i \in 1 .. Len(q) - 1 : t[i] = q[i + 1]
        /\ Head(q) = q[1] /\ Head(q) \in Messages
    BY <2>0, <2>2
  <2>4. PICK p : p = Append(t, m)
    OBVIOUS
  <2>5. /\ p \in Seq(Messages) /\ DOMAIN p = 1 .. Len(q)
        /\ p[Len(q)] = m /\ \A i \in 1 .. Len(q) - 1 : p[i] = t[i]
    BY <2>0, <2>3, <2>4
  <2>6. relayed' \in [Servers -> Seq(Messages)] /\ relayed'[s] = p
    BY <1>2, <2>1, <2>2, <2>4, <2>5
  <2>7. \E i \in DOMAIN p : p[i] = m
    BY <2>0, <2>5
  <2>8. ASSUME NEW i \in DOMAIN q PROVE q[i] = Head(q) \/ \E j \in DOMAIN p : p[j] = q[i]
    <3>1. CASE i = 1
      BY <2>3, <3>1
    <3>2. CASE i # 1
      <4>1. i - 1 \in 1 .. Len(q) - 1 /\ i - 1 \in DOMAIN p /\ (i - 1) + 1 = i
        BY <2>0, <2>3, <2>5, <3>2
      <4>2. p[i - 1] = q[i]
        BY <2>3, <2>5, <4>1
      <4>. QED  BY <4>1, <4>2
    <3>. QED  BY <3>1, <3>2
  <2>9. ASSUME NEW i \in DOMAIN p PROVE p[i] = m \/ \E j \in DOMAIN q : q[j] = p[i]
    <3>1. CASE i = Len(q)
      BY <2>5, <3>1
    <3>2. CASE i # Len(q)
      <4>1. i \in 1 .. Len(q) - 1 /\ i + 1 \in DOMAIN q
        BY <2>0, <2>3, <2>5, <3>2
      <4>. QED  BY <2>3, <2>5, <4>1
    <3>. QED  BY <3>1, <3>2
  <2>10. <<s, Head(q)>> \in Servers \X Messages /\ <<s, Head(q)>> \in forgotten'
    BY <2>1, <2>3
  <2>11. \A k : (\E i \in DOMAIN q : q[i] = k) => (\E j \in DOMAIN p : p[j] = k) \/ k = Head(q)
    BY <2>8
  <2>12. \A k : (\E j \in DOMAIN p : p[j] = k) => (\E i \in DOMAIN q : q[i] = k) \/ k = m
    BY <2>9
  <2>13. \A k : /\ IsRelayed(s, k) <=> \E i \in DOMAIN q : q[i] = k
                /\ IsRelayed(s, k)' <=> \E j \in DOMAIN p : p[j] = k
    BY <1>1, <2>6 DEF IsRelayed
  <2>14. \A r \in Servers : r # s => relayed'[r] = relayed[r]
    BY <1>2, <2>1
  <2>15. forgotten' \subseteq Servers \X Messages /\ forgotten \subseteq forgotten'
    BY <1>2, <2>1, <2>10
  <2> HIDE DEF IsRelayed
  <2>. QED  BY <2>6, <2>7, <2>10, <2>11, <2>12, <2>13, <2>14, <2>15
<1>. QED  BY <1>3, <1>4

LEMMA FlowRemembersKeeps ==
  ASSUME IInv, NEW s \in Servers, NEW f \in flows[s], FlowRemembers(s, f)
  PROVE  IInv'
<1>1. f \in Flow /\ f.message \in Messages /\ f.state \in State /\ Safe(f.state.offset)
  BY DEF IInv, TypeOK, Flow, OffsetsSafe
<1>2. /\ file' = f.state
      /\ UNCHANGED <<telegram, database, lock, config, run, mem, reload, owns, tick, engine, dropped,
                     skipped, bounds>>
  BY DEF FlowRemembers
<1>3. /\ origins' \in [Servers -> SUBSET Messages] /\ relayed' \in [Servers -> Seq(Messages)]
      /\ forgotten' \subseteq Servers \X Messages
  <2>1. origins \in [Servers -> SUBSET Messages]
    BY DEF IInv, TypeOK
  <2>2. CASE UNCHANGED <<origins, relayed, forgotten>>
    BY <2>2 DEF IInv, TypeOK
  <2>3. CASE Remembers(s, f.message) /\ origins' = [origins EXCEPT ![s] = origins[s] \ {f.message}]
    <3>1. origins[s] \ {f.message} \in SUBSET Messages
      BY <2>1
    <3>. QED  BY <1>1, <2>1, <2>3, <3>1, RemembersType DEF IInv
  <2>. QED  BY <2>2, <2>3 DEF FlowRemembers
<1>4. PICK g : g = [f EXCEPT !.step = "send", !.state = Fresh]
  OBVIOUS
<1>5. g \in Flow /\ g.state = Fresh
  BY <1>4, FlowType, StateType DEF IInv, FlowStep
<1>6. Safe(Fresh.offset)
  BY LengthType DEF Fresh, Safe, Offsets
<1>7. Ends(s, f) \/ Becomes(s, f, g)
  BY <1>4 DEF FlowRemembers
<1>8. flows' \in [Servers -> SUBSET Flow]
  BY <1>5, <1>7, EndsType, BecomesType DEF IInv
<1>9. TypeOK'
  BY <1>1, <1>2, <1>3, <1>8 DEF telegram, database, bounds, IInv, TypeOK
<1>. QED
  BY <1>1, <1>2, <1>5, <1>6, <1>7, <1>9, FlowSteps DEF telegram, database

LEMMA FlowSendsKeeps ==
  ASSUME IInv, NEW s \in Servers, NEW f \in flows[s], FlowSends(s, f)
  PROVE  IInv'
<1>1. PICK m \in Messages : m = f.message
  BY DEF IInv, TypeOK, Flow
<1>2. chat' \in [Servers -> [Messages -> Nat]]
  <2>1. chat \in [Servers -> [Messages -> Nat]] /\ chat[s] \in [Messages -> Nat]
        /\ chat[s][m] + 1 \in Nat
    BY <1>1 DEF IInv, TypeOK
  <2>2. chat' = chat \/ chat' = [chat EXCEPT ![s] = [chat[s] EXCEPT ![m] = chat[s][m] + 1]]
    BY <1>1, <2>1 DEF FlowSends, Sends
  <2>3. [chat[s] EXCEPT ![m] = chat[s][m] + 1] \in [Messages -> Nat]
    BY <2>1
  <2>. QED  BY <2>1, <2>2, <2>3
<1>3. scope' \in Scopes /\ counted' \in [CountedKind -> Nat]
  BY FailsType DEF FlowSends, IInv
<1>4. flows' \in [Servers -> SUBSET Flow] /\ Ends(s, f)
  BY EndsType DEF FlowSends, IInv
<1>5. TypeOK'
  BY <1>2, <1>3, <1>4 DEF FlowSends, database, files, history, IInv, TypeOK
<1>. QED  BY <1>4, <1>5, FlowSteps DEF FlowSends, database, files, history

-----------------------------------------------------------------------------
(* The environment *)

(* Steps that move no offset and no tick, and whose new flows have nothing *)
(* to write yet.                                                           *)
LEMMA QuietSteps ==
  ASSUME IInv, TypeOK', Monotone, UNCHANGED <<confirmed, file, mem, tick, skipped>>,
         \A r \in Servers : \A f \in flows'[r] : f \in flows[r] \/ f.state = Fresh
  PROVE  IInv'
<1>1. \A n : Safe(n) => Safe(n)'
  BY MonotoneKeeps DEF IInv
<1>2. Safe(confirmed)' /\ Safe(file.offset)'
  BY <1>1 DEF IInv, OffsetsSafe
<1>4. \A r \in Servers : \A f \in flows'[r] : f \in flows[r] \/ Safe(f.state.offset)'
  <2>1. Safe(0)'
    BY LengthType DEF Safe, Offsets
  <2>2. Fresh.offset = 0
    BY DEF Fresh
  <2>. QED  BY <2>1, <2>2
<1>. QED  BY <1>2, <1>4, SafeSteps

LEMMA UpdateArrivesKeeps == ASSUME IInv, UpdateArrives PROVE IInv'
<1>1. arrived' = arrived + 1 /\ arrived' \in Offsets /\ arrived' \in Ids /\ arrived \in Nat
  BY ScopeType, LengthType DEF UpdateArrives, IInv, TypeOK, Offsets, Ids
<1>2. PICK date \in {config.epoch - 1, config.epoch} : dates' = [dates EXCEPT ![arrived'] = date]
  BY DEF UpdateArrives
<1>3. UNCHANGED <<confirmed, chat, database, files, runtimes, history, bounds>>
  BY DEF UpdateArrives
<1>5. date \in Nat
  BY <1>2 DEF IInv, TypeOK, Config
<1>6. dates' \in [Ids -> Nat]
  BY <1>2, <1>5 DEF IInv, TypeOK
<1>7. TypeOK'
  BY <1>1, <1>3, <1>6 DEF database, files, runtimes, relays, history, bounds, IInv, TypeOK
<1>8. Monotone
  <2>1. \A u \in 1 .. arrived : dates'[u] = dates[u]
    BY <1>1, <1>2 DEF IInv, TypeOK
  <2>2. config'.epoch = config.epoch /\ config.epoch \in Nat
    BY <1>3, EpochType DEF files, IInv
  <2>. QED  BY <1>1, <1>3, <2>1, <2>2 DEF Monotone, database, history
<1>. QED  BY <1>3, <1>7, <1>8, QuietSteps DEF files, runtimes, relays, history

LEMMA SwitchTargetKeeps == ASSUME IInv, SwitchTarget PROVE IInv'
<1>1. scope' \in Scopes /\ counted' \in [CountedKind -> Nat] /\ available' \in BOOLEAN
  BY CountType DEF SwitchTarget, IInv, CountedKind
<1>2. UNCHANGED <<telegram, delivered, rejected, files, runtimes, history>>
  BY DEF SwitchTarget
<1>3. TypeOK'
  BY <1>1, <1>2 DEF telegram, files, runtimes, relays, history, IInv, TypeOK
<1>. QED
  BY <1>2, <1>3, Still, QuietSteps DEF telegram, files, runtimes, relays, history, IInv

LEMMA LockAgesKeeps == ASSUME IInv, LockAges PROVE IInv'
<1>1. lock' \in LockFile
  BY DEF LockAges, IInv, TypeOK, LockFile
<1>2. UNCHANGED <<telegram, database, file, config, runtimes, history, bounds>>
  BY DEF LockAges
<1>3. TypeOK'
  BY <1>1, <1>2 DEF telegram, database, runtimes, relays, history, bounds, IInv, TypeOK
<1>. QED
  BY <1>2, <1>3, Still, QuietSteps DEF telegram, database, runtimes, relays, history, IInv

LEMMA RequestReloadKeeps == ASSUME IInv, NEW s \in Servers, RequestReload(s) PROVE IInv'
<1>1. /\ scope' \in Scopes /\ counted' \in [CountedKind -> Nat]
      /\ reload' \in [Servers -> BOOLEAN]
  BY CountType DEF RequestReload, IInv, TypeOK, CountedKind
<1>2. UNCHANGED <<telegram, database, files, run, mem, owns, tick, relays, engine, history>>
  BY DEF RequestReload
<1>3. TypeOK'
  BY <1>1, <1>2 DEF telegram, database, files, relays, history, IInv, TypeOK
<1>. QED
  BY <1>2, <1>3, Still, QuietSteps DEF telegram, database, files, relays, history, IInv

LEMMA MessageSentKeeps == ASSUME IInv, NEW s \in Servers, MessageSent(s) PROVE IInv'
<1>1. /\ scope' \in Scopes /\ counted' \in [CountedKind -> Nat]
      /\ UNCHANGED <<telegram, database, files, run, mem, reload, owns, tick, origins, relayed, history>>
  BY CountType DEF MessageSent, IInv, CountedKind
<1>2. PICK m \in Messages : Commits(s, m)
  BY DEF MessageSent, Messages
<1>3. /\ engine' \in [Servers -> View] /\ flows' \in [Servers -> SUBSET Flow]
      /\ \A r \in Servers : \A f \in flows'[r] : f \in flows[r] \/ f.state = Fresh
  BY <1>2, CommitsType, NewFlowType DEF IInv
<1>4. TypeOK'
  BY <1>1, <1>3 DEF telegram, database, files, history, IInv, TypeOK
<1>. QED  BY <1>1, <1>3, <1>4, Still, QuietSteps DEF telegram, database, files, history, IInv

LEMMA OtherCommandKeeps == ASSUME IInv, NEW s \in Servers, OtherCommand(s) PROVE IInv'
<1>1. /\ scope' \in Scopes /\ counted' \in [CountedKind -> Nat]
      /\ UNCHANGED <<telegram, database, files, run, mem, reload, owns, tick, origins, relayed, history>>
  BY CountType DEF OtherCommand, IInv, CountedKind
<1>2. /\ engine' \in [Servers -> View] /\ flows' \in [Servers -> SUBSET Flow]
      /\ \A r \in Servers : \A f \in flows'[r] : f \in flows[r] \/ f.state = Fresh
  <2>1. CASE Reconciles(s)
    BY <2>1, ReconcilesType, NewFlowType DEF IInv
  <2>2. CASE engine' = [engine EXCEPT ![s] = UpToDate(@.knows)] /\ UNCHANGED flows
    <3>1. engine \in [Servers -> View] /\ engine[s].knows \in BOOLEAN
      BY DEF IInv, TypeOK, View
    <3>2. PICK v \in View : v = UpToDate(engine[s].knows)
      BY <3>1, UpToDateType
    <3>3. engine' = [engine EXCEPT ![s] = v]
      BY <2>2, <3>2
    <3>. QED  BY <2>2, <3>1, <3>3 DEF IInv, TypeOK
  <2>. QED  BY <2>1, <2>2 DEF OtherCommand
<1>3. TypeOK'
  BY <1>1, <1>2 DEF telegram, database, files, history, IInv, TypeOK
<1>. QED  BY <1>1, <1>2, <1>3, Still, QuietSteps DEF telegram, database, files, history, IInv

LEMMA ThreadCreatedKeeps == ASSUME IInv, NEW s \in Servers, ThreadCreated(s) PROVE IInv'
<1>1. UNCHANGED <<telegram, delivered, rejected, files, run, mem, reload, owns, tick, relays, history,
                  bounds>>
  BY DEF ThreadCreated
<1>2. available' \in BOOLEAN /\ engine' \in [Servers -> View]
  <2>1. UpToDate(TRUE) \in View
    BY UpToDateType
  <2>2. \A r \in Servers : [engine[r] EXCEPT !.created = TRUE] \in View
    BY DEF IInv, TypeOK, View
  <2>. QED  BY <2>1, <2>2 DEF ThreadCreated
<1>3. TypeOK'
  BY <1>1, <1>2 DEF telegram, files, relays, history, bounds, IInv, TypeOK
<1>. QED  BY <1>1, <1>3, Still, QuietSteps DEF telegram, files, relays, history, IInv

(* A configuration is later than all that has arrived. *)
LEMMA StartConfigKeeps == ASSUME IInv, NEW s \in Servers, StartConfig(s) PROVE IInv'
<1>1. /\ scope' \in Scopes /\ counted' \in [CountedKind -> Nat]
      /\ UNCHANGED <<telegram, database, lock, file, runtimes, history>>
  BY CountType DEF StartConfig, IInv, CountedKind
<1>2. /\ config.epoch \in Nat /\ config'.epoch = config.epoch + 1 /\ config' \in Config
  BY DEF StartConfig, IInv, TypeOK, Config
<1>3. TypeOK'
  BY <1>1, <1>2 DEF telegram, database, runtimes, relays, history, IInv, TypeOK
<1>4. Monotone
  BY <1>1, <1>2, EpochType DEF Monotone, telegram, database, history, IInv
<1>. QED  BY <1>1, <1>3, <1>4, QuietSteps DEF telegram, runtimes, relays, history

LEMMA EndConfigKeeps == ASSUME IInv, NEW s \in Servers, EndConfig(s) PROVE IInv'
<1>1. /\ UNCHANGED <<telegram, database, lock, file, run, mem, owns, tick, relays, engine, history,
                     bounds>>
      /\ reload' \in [Servers -> BOOLEAN]
  BY DEF EndConfig, IInv, TypeOK
<1>2. config.epoch \in Nat /\ config'.epoch = config.epoch /\ config' \in Config
  BY DEF EndConfig, IInv, TypeOK, Config
<1>3. TypeOK'
  BY <1>1, <1>2 DEF telegram, database, relays, history, bounds, IInv, TypeOK
<1>4. Monotone
  BY <1>1, <1>2, EpochType DEF Monotone, telegram, database, history, IInv
<1>. QED  BY <1>1, <1>3, <1>4, QuietSteps DEF telegram, relays, history

(* A server that starts again has no flows and no tick; what it left in    *)
(* the file is safe.                                                       *)
LEMMA RestartKeeps ==
  ASSUME IInv, NEW s \in Servers, NEW released \in BOOLEAN, Restart(s, released)
  PROVE  IInv'
<1>0. UNCHANGED <<telegram, database, history>>
  BY DEF Restart
<1>1. scope' \in Scopes /\ counted' \in [CountedKind -> Nat]
  BY CountType DEF Restart, IInv, CountedKind
<1>2. file' \in State /\ Safe(file'.offset)
  BY ReadableSafe DEF Restart, IInv, TypeOK, OffsetsSafe
<1>3. lock' \in LockFile
  BY IdleType DEF Restart, IInv, TypeOK
<1>4. config' \in Config /\ config'.epoch = config.epoch /\ config.epoch \in Nat
  BY DEF Restart, IInv, TypeOK, Config
<1>5. /\ run' \in [Servers -> Nat] /\ mem' \in [Servers -> State]
      /\ reload' \in [Servers -> BOOLEAN] /\ owns' \in [Servers -> BOOLEAN]
      /\ tick' \in [Servers -> TickState] /\ flows' \in [Servers -> SUBSET Flow]
  BY StateType, IdleType DEF Restart, IInv, TypeOK
<1>6. origins' \in [Servers -> SUBSET Messages] /\ relayed' \in [Servers -> Seq(Messages)]
  BY DEF Restart, IInv, TypeOK
<1>7. engine' \in [Servers -> View]
  <2>1. Exists \in BOOLEAN
    BY DEF Exists
  <2>2. PICK v \in View : v = UpToDate(Exists)
    BY <2>1, UpToDateType
  <2>3. engine' = [engine EXCEPT ![s] = v]
    BY <2>2 DEF Restart
  <2>. QED  BY <2>3 DEF IInv, TypeOK
<1>8. TypeOK'
  BY <1>0, <1>1, <1>2, <1>3, <1>4, <1>5, <1>6, <1>7 DEF telegram, database, history, IInv, TypeOK
<1>9. Monotone
  BY <1>0, <1>4, EpochType DEF Monotone, telegram, database, history, IInv
<1>10. \A n : Safe(n) => Safe(n)'
  BY <1>8, <1>9, MonotoneKeeps DEF IInv
<1>11. Safe(0)' /\ Fresh.offset = 0 /\ Safe(confirmed)' /\ Safe(file.offset)'
  <2>1. Safe(0)'
    BY LengthType DEF Safe, Offsets
  <2>2. Safe(confirmed)' /\ Safe(file.offset)'
    BY <1>0, <1>2, <1>10 DEF telegram, IInv, OffsetsSafe
  <2>. QED  BY <2>1, <2>2 DEF Fresh
<1>12. \A r \in Servers : /\ mem'[r] = mem[r] \/ mem'[r] = Fresh
                          /\ tick'[r] = tick[r] \/ tick'[r] = Idle
                          /\ flows'[r] = flows[r] \/ flows'[r] = {}
  BY DEF Restart, IInv, TypeOK
<1>13. TickSafe(Idle)' /\ Idle.write = << >>
  <2>1. TickSafe(Idle) /\ Idle \in TickState /\ Idle.write = << >>
    BY IdleSafe DEF IInv
  <2>. QED  BY <1>8, <1>9, <2>1, MonotoneKeeps DEF IInv
<1>14. \A r \in Servers : tick'[r] = tick[r] \/ TickSafe(tick[r])'
  BY <1>12, <1>13 DEF TickSafe
<1>15. \A r \in Servers : \A i \in DOMAIN tick'[r].write :
         tick'[r].write = tick[r].write \/ Safe(tick[r].write[i].offset)'
  BY <1>12, <1>13
<1>16. \A r \in Servers : mem'[r] = mem[r] \/ Safe(mem[r].offset)'
  BY <1>11, <1>12
<1>17. \A u \in skipped' : u \in skipped
  BY <1>0 DEF history
<1>18. \A r \in Servers : \A f \in flows'[r] : f \in flows[r]
  BY <1>12
<1>. QED
  BY <1>8, <1>9, <1>11, <1>14, <1>15, <1>16, <1>17, <1>18, SafeSteps

-----------------------------------------------------------------------------
(* Every offset the bridge keeps, in memory, in the file or in a write     *)
(* under way, has only updates up to it that were handled, or skipped as   *)
(* older than a configuration, to the second: whatever the states that are *)
(* read back as initial ones make the filter of the backlog do.            *)
THEOREM OffsetsAlwaysSafe == Spec => []IInv
<1>1. ASSUME IInv, [Next]_vars PROVE IInv'
  <2> SUFFICES ASSUME Next PROVE IInv'
    <3>1. CASE UNCHANGED vars
      <4>1. UNCHANGED <<arrived, confirmed, dates, chat, delivered, rejected, available, lock, file,
                        config, run, mem, reload, owns, tick, origins, relayed, flows, engine, dropped,
                        skipped, forgotten, counted, scope>>
        BY <3>1 DEF vars, telegram, database, files, runtimes, relays, history, bounds
      <4>2. TypeOK'
        BY <1>1, <4>1 DEF IInv, TypeOK
      <4>. QED  BY <1>1, <4>1, <4>2, Still, QuietSteps DEF IInv
    <3>. QED  BY <1>1, <3>1
  <2>1. scope.servers \subseteq Servers
    BY <1>1, ScopeType DEF IInv
  <2>2. ASSUME NEW s \in Servers, Tick(s) PROVE IInv'
    BY <1>1, <2>2, StartTickKeeps, EnsureBridgeLockKeeps, ResolveConfigKeeps, GetUpdatesKeeps,
       ReceiveKeeps, HandleTextKeeps, DispatchKeeps, DispatchRefusedKeeps, AdvanceKeeps,
       TickWrittenKeeps DEF Tick
  <2>3. ASSUME NEW s \in Servers, Relay(s) PROVE IInv'
    BY <1>1, <2>3, FlowStartsKeeps, FlowAssignsKeeps, FlowRemembersKeeps, FlowSendsKeeps
       DEF Relay
  <2>4. CASE Environment
    BY <1>1, <2>1, <2>4, UpdateArrivesKeeps, SwitchTargetKeeps, LockAgesKeeps, MessageSentKeeps,
       ThreadCreatedKeeps, OtherCommandKeeps, StartConfigKeeps, EndConfigKeeps,
       RequestReloadKeeps, RestartKeeps DEF Environment
  <2>. QED
    BY <1>1, <2>1, <2>2, <2>3, <2>4, TickFailsKeeps DEF Next
<1>. QED  BY <1>1, InitIInv, PTL DEF Spec

(* Telegram forgets no update before the bridge has handled it, or skipped *)
(* it because the bridge was configured after it was written, to the       *)
(* second: whoever holds the lock and however the writes of the state      *)
(* file, the restarts, the configurations and the failures interleave.     *)
THEOREM NothingIsLost == Spec => []NothingLost
<1>1. IInv => NothingLost
  <2>1. SUFFICES ASSUME IInv, NEW u \in 1 .. confirmed PROVE Cleared(u) /\ (u \in skipped => dates[u] < config.epoch)
    BY DEF NothingLost, Cleared
  <2>. QED  BY <2>1 DEF IInv, OffsetsSafe, Safe, SkippedOld
<1>. QED  BY <1>1, OffsetsAlwaysSafe, PTL

-----------------------------------------------------------------------------
(* Echoes.  Until its turn has been accepted no server has anything of the *)
(* message of an update.  The server that accepted it publishes it once:   *)
(* it is not ahead of that server's read model, so that no reconciliation  *)
(* publishes it again, and its one flow finds its origin remembered.       *)
Unseen(s, m) ==
  chat[s][m] = 0 /\ m \notin engine[s].ahead /\ \A f \in flows[s] : f.message # m

Kept(s, m) ==
  /\ chat[s][m] = 0 /\ m \notin engine[s].ahead
  /\ \A f \in flows[s] : f.message = m =>
       /\ f.step # "send" /\ m \in origins[s]
       /\ \A g \in flows[s] : g.message = m => g = f

OriginInv ==
  \A u \in Ids : \A s \in Servers :
    /\ delivered[u] = "none" => Unseen(s, FromTelegram(u))
    /\ delivered[u] = s => Kept(s, FromTelegram(u))

(* A message is sent when it has been remembered, once for each time the   *)
(* server was started, unless it was forgotten.                            *)
SendSafe(s, f) ==
  f.step = "send" => /\ f.state = Fresh
                     /\ \/ <<s, f.message>> \in forgotten
                        \/ IsRelayed(s, f.message) /\ chat[s][f.message] <= run[s]

SentWhenRelayed(s, m) ==
  \/ <<s, m>> \in forgotten
  \/ chat[s][m] <= run[s] + (IF IsRelayed(s, m) THEN 1 ELSE 0)

SendInv ==
  \A s \in Servers : /\ \A f \in flows[s] : SendSafe(s, f)
                     /\ \A m \in Messages : SentWhenRelayed(s, m)

EchoInv == OriginInv /\ SendInv

LEMMA Origins ==
  /\ \A s \in Servers : \A m \in MessagesOf(s) : m \in Messages /\ m.origin # "telegram"
  /\ \A u \in Ids : FromTelegram(u) \in Messages /\ FromTelegram(u).origin = "telegram"
  /\ \A u, v \in Ids : FromTelegram(u) = FromTelegram(v) => u = v
<1>1. ASSUME NEW s \in Servers, NEW m \in MessagesOf(s) PROVE m \in Messages /\ m.origin # "telegram"
  <2>1. m.origin = s /\ s # "telegram"
    BY BridgeAssumption DEF MessagesOf
  <2>. QED  BY <2>1 DEF Messages
<1>2. \A u \in Ids : FromTelegram(u).origin = "telegram" /\ FromTelegram(u).n = u
  BY DEF FromTelegram
<1>. QED  BY <1>1, <1>2 DEF Messages

LEMMA NewFlowFields == \A m : NewFlow(m).message = m /\ NewFlow(m).step = "start"
BY DEF NewFlow

(* What a step does that adds nothing of message m to server r. *)
LEMMA HarmlessStep ==
  ASSUME NEW r \in Servers, NEW m,
         chat'[r][m] = chat[r][m],
         m \in engine'[r].ahead => m \in engine[r].ahead,
         \A f \in flows'[r] : f.message = m => f \in flows[r] \/ m \in engine[r].ahead,
         origins[r] \subseteq origins'[r] \/ flows'[r] = {}
  PROVE  (Unseen(r, m) => Unseen(r, m)') /\ (Kept(r, m) => Kept(r, m)')
<1>1. ASSUME Unseen(r, m) PROVE Unseen(r, m)'
  BY <1>1 DEF Unseen
<1>2. ASSUME Kept(r, m) PROVE Kept(r, m)'
  BY <1>2 DEF Kept
<1>. QED  BY <1>1, <1>2

LEMMA OriginSteps ==
  ASSUME OriginInv, delivered' = delivered,
         \A u \in Ids : \A r \in Servers :
           /\ Unseen(r, FromTelegram(u)) => Unseen(r, FromTelegram(u))'
           /\ Kept(r, FromTelegram(u)) => Kept(r, FromTelegram(u))'
  PROVE  OriginInv'
BY DEF OriginInv

(* Steps that send nothing and forget nothing, and whose new flows are far *)
(* from being sent.                                                        *)
LEMMA QuietSends ==
  ASSUME SendInv, UNCHANGED <<chat, run, relayed, forgotten>>,
         \A r \in Servers : \A g \in flows'[r] : g \in flows[r] \/ g.step # "send"
  PROVE  SendInv'
<1>1. \A r, m : IsRelayed(r, m) <=> IsRelayed(r, m)'
  BY DEF IsRelayed
<1>2. \A r \in Servers : \A f : (SendSafe(r, f) => SendSafe(r, f)') /\ (f.step # "send" => SendSafe(r, f)')
  BY <1>1 DEF SendSafe
<1>3. \A r \in Servers : \A m \in Messages : SentWhenRelayed(r, m) => SentWhenRelayed(r, m)'
  <2>1. ASSUME NEW r \in Servers, NEW m \in Messages, SentWhenRelayed(r, m)
        PROVE  SentWhenRelayed(r, m)'
    <3>1. CASE IsRelayed(r, m)
      BY <1>1, <2>1, <3>1 DEF SentWhenRelayed
    <3>2. CASE ~IsRelayed(r, m)
      BY <1>1, <2>1, <3>2 DEF SentWhenRelayed
    <3>. QED  BY <3>1, <3>2
  <2>. QED  BY <2>1
<1>. QED  BY <1>2, <1>3 DEF SendInv

(* Steps that send nothing, accept no turn of the chat and publish only    *)
(* what is not from the chat or was ahead of the read model.               *)
LEMMA QuietEchoes ==
  ASSUME EchoInv, UNCHANGED <<chat, run, relayed, forgotten, delivered>>,
         \A r \in Servers : origins[r] \subseteq origins'[r],
         \A r \in Servers : \A m \in engine'[r].ahead : m \in engine[r].ahead \/ m.origin # "telegram",
         \A r \in Servers : \A f \in flows'[r] :
           \/ f \in flows[r]
           \/ f.step # "send" /\ (f.message \in engine[r].ahead \/ f.message.origin # "telegram")
  PROVE  EchoInv'
<1>1. SendInv'
  BY QuietSends DEF EchoInv
<1>2. ASSUME NEW u \in Ids, NEW r \in Servers
      PROVE  /\ Unseen(r, FromTelegram(u)) => Unseen(r, FromTelegram(u))'
             /\ Kept(r, FromTelegram(u)) => Kept(r, FromTelegram(u))'
  <2>1. PICK m : m = FromTelegram(u)
    OBVIOUS
  <2>2. m.origin = "telegram"
    BY <2>1, Origins
  <2>3. (Unseen(r, m) => Unseen(r, m)') /\ (Kept(r, m) => Kept(r, m)')
    BY <2>2, HarmlessStep
  <2>. QED  BY <2>1, <2>3 DEF Unseen, Kept
<1>. QED  BY <1>1, <1>2, OriginSteps DEF EchoInv

(* The turn of an update is accepted, for the first time or again. *)
LEMMA DispatchEchoes == ASSUME IInv, EchoInv, NEW s \in Servers, Dispatch(s) PROVE EchoInv'
<1>1. PICK u : u = Head(tick[s].batch)
  OBVIOUS
<1>2. PICK m : m = FromTelegram(u)
  OBVIOUS
<1>3. /\ u \in Ids /\ m \in Messages /\ m.origin = "telegram"
      /\ origins \in [Servers -> SUBSET Messages] /\ flows \in [Servers -> SUBSET Flow]
      /\ delivered \in [Ids -> Servers \cup {"none"}]
  BY <1>1, <1>2, DispatchType, Origins DEF Dispatch, IInv, TypeOK
<1>4. /\ Accepted(s, u) /\ origins' = [origins EXCEPT ![s] = origins[s] \cup {m}]
      /\ UNCHANGED <<chat, run, relayed, forgotten>>
  BY <1>1, <1>2, <1>3 DEF Dispatch, RemembersOrigin, telegram, history
<1>5. m \in origins'[s] /\ \A r \in Servers : origins[r] \subseteq origins'[r]
  BY <1>3, <1>4
<1>6. CASE delivered[u] # "none"
  BY <1>4, <1>5, <1>6, QuietEchoes DEF Accepted
<1>7. CASE delivered[u] = "none"
  <2>1. delivered' = [delivered EXCEPT ![u] = s] /\ Commits(s, m)
    BY <1>2, <1>4, <1>7 DEF Accepted
  <2>2. /\ \A r \in Servers : \A f \in flows'[r] : f \in flows[r] \/ (r = s /\ f = NewFlow(m))
        /\ engine'[s].ahead = {}
        /\ \A r \in Servers : r # s => engine'[r].ahead = engine[r].ahead \cup {m}
    BY <1>3, <2>1, CommitsType DEF IInv
  <2>3. SendInv'
    BY <1>4, <2>2, NewFlowFields, QuietSends DEF EchoInv
  <2>4. ASSUME NEW v \in Ids, NEW r \in Servers, v # u
        PROVE  /\ Unseen(r, FromTelegram(v)) => Unseen(r, FromTelegram(v))'
               /\ Kept(r, FromTelegram(v)) => Kept(r, FromTelegram(v))'
    <3>1. PICK k : k = FromTelegram(v)
      OBVIOUS
    <3>2. k # m
      BY <1>2, <1>3, <2>4, <3>1, Origins
    <3>3. (Unseen(r, k) => Unseen(r, k)') /\ (Kept(r, k) => Kept(r, k)')
      BY <1>4, <1>5, <2>2, <3>2, NewFlowFields, HarmlessStep
    <3>. QED  BY <3>1, <3>3 DEF Unseen, Kept
  <2>5. Kept(s, m)'
    <3>1. Unseen(s, m)
      BY <1>2, <1>3, <1>7 DEF EchoInv, OriginInv
    <3>2. chat'[s][m] = 0 /\ m \notin engine'[s].ahead
      BY <1>4, <2>2, <3>1 DEF Unseen
    <3>3. \A f \in flows'[s] : f.message = m => f = NewFlow(m)
      BY <2>2, <3>1 DEF Unseen
    <3>. QED  BY <1>5, <3>2, <3>3, NewFlowFields DEF Kept
  <2>6. ASSUME NEW v \in Ids, NEW r \in Servers
        PROVE  /\ delivered'[v] = "none" => Unseen(r, FromTelegram(v))'
               /\ delivered'[v] = r => Kept(r, FromTelegram(v))'
    <3>1. CASE v = u
      <4>1. delivered'[v] = s /\ s # "none"
        BY <1>3, <2>1, <3>1, BridgeAssumption
      <4>2. r = s => Kept(r, FromTelegram(v))'
        BY <1>2, <2>5, <3>1 DEF Kept
      <4>. QED  BY <4>1, <4>2
    <3>2. CASE v # u
      <4>1. delivered'[v] = delivered[v]
        BY <1>3, <2>1, <3>2
      <4>. QED  BY <2>4, <3>2, <4>1 DEF EchoInv, OriginInv
    <3>. QED  BY <3>1, <3>2
  <2>. QED  BY <2>3, <2>6 DEF EchoInv, OriginInv
<1>. QED  BY <1>6, <1>7

LEMMA MessageSentEchoes == ASSUME IInv, EchoInv, NEW s \in Servers, MessageSent(s) PROVE EchoInv'
<1>1. /\ UNCHANGED <<telegram, database, files, run, mem, reload, owns, tick, origins, relayed, history>>
      /\ \E m \in MessagesOf(s) : Commits(s, m)
  BY DEF MessageSent
<1>2. PICK m \in MessagesOf(s) : Commits(s, m)
  BY <1>1
<1>3. m \in Messages /\ m.origin # "telegram"
  BY Origins
<1>4. /\ \A r \in Servers : \A f \in flows'[r] : f \in flows[r] \/ (r = s /\ f = NewFlow(m))
      /\ engine'[s].ahead = {}
      /\ \A r \in Servers : r # s => engine'[r].ahead = engine[r].ahead \cup {m}
  BY <1>2, <1>3, CommitsType DEF IInv
<1>5. \A r \in Servers : \A k \in engine'[r].ahead : k \in engine[r].ahead \/ k = m
  BY <1>4
<1>. QED  BY <1>1, <1>3, <1>4, <1>5, NewFlowFields, QuietEchoes DEF telegram, database, history

(* A reconciliation publishes what was ahead of the read model, and other  *)
(* steps publish nothing.                                                  *)
LEMMA ReconcilesEchoes ==
  ASSUME IInv, EchoInv, NEW s \in Servers, Reconciles(s) \/ UNCHANGED <<engine, flows>>,
         UNCHANGED <<chat, run, relayed, forgotten, delivered>>,
         \A r \in Servers : origins[r] \subseteq origins'[r]
  PROVE  EchoInv'
<1>1. CASE Reconciles(s)
  <2>1. /\ \A r \in Servers : \A f \in flows'[r] :
             f \in flows[r] \/ (r = s /\ \E m \in engine[s].ahead : f = NewFlow(m) /\ m \in Messages)
        /\ engine'[s].ahead = {}
        /\ \A r \in Servers : r # s => engine'[r] = engine[r]
    BY <1>1, ReconcilesType DEF IInv
  <2>2. \A r \in Servers : \A m \in engine'[r].ahead : m \in engine[r].ahead
    BY <2>1
  <2>. QED  BY <2>1, <2>2, NewFlowFields, QuietEchoes
<1>2. CASE UNCHANGED <<engine, flows>>
  BY <1>2, QuietEchoes
<1>. QED  BY <1>1, <1>2

LEMMA OriginGrows ==
  ASSUME TypeOK, NEW s \in Servers, NEW u, RemembersOrigin(s, u) \/ UNCHANGED origins
  PROVE  \A r \in Servers : origins[r] \subseteq origins'[r]
<1>1. origins \in [Servers -> SUBSET Messages]
  BY DEF TypeOK
<1>2. PICK m : m = FromTelegram(u)
  OBVIOUS
<1>3. origins' = [origins EXCEPT ![s] = origins[s] \cup {m}] \/ origins' = origins
  BY <1>2 DEF RemembersOrigin
<1>. QED  BY <1>1, <1>3

(* The other steps of a tick may reconcile and learn an origin. *)
LEMMA TickEchoes ==
  ASSUME IInv, EchoInv, NEW s \in Servers, Tick(s) \/ TickFails(s), ~Dispatch(s)
  PROVE  EchoInv'
<1>1. UNCHANGED <<chat, run, relayed, forgotten, delivered>>
  BY DEF Tick, TickFails, StartTick, EnsureBridgeLock, ResolveConfig, GetUpdates, Receive, HandleText,
         DispatchRefused, Advance, TickWritten, telegram, database, relays, history
<1>2. \E u : RemembersOrigin(s, u) \/ UNCHANGED origins
  BY DEF Tick, TickFails, StartTick, EnsureBridgeLock, ResolveConfig, GetUpdates, Receive, HandleText,
         DispatchRefused, Advance, TickWritten, relays
<1>3. Reconciles(s) \/ UNCHANGED <<engine, flows>>
  BY DEF Tick, TickFails, StartTick, EnsureBridgeLock, ResolveConfig, GetUpdates, Receive, HandleText,
         DispatchRefused, Advance, TickWritten, relays
<1>4. \A r \in Servers : origins[r] \subseteq origins'[r]
  BY <1>2, OriginGrows DEF IInv
<1>. QED  BY <1>1, <1>3, <1>4, ReconcilesEchoes

(* A flow that ends, or goes on to a step before the last. *)
LEMMA FlowEchoes ==
  ASSUME TypeOK, EchoInv, NEW s \in Servers, NEW f \in flows[s],
         UNCHANGED <<chat, run, relayed, forgotten, delivered, origins, engine>>,
         \/ Ends(s, f)
         \/ \E g : Becomes(s, f, g) /\ g.message = f.message /\ g.step # "send"
  PROVE  EchoInv'
<1>1. flows \in [Servers -> SUBSET Flow]
  BY DEF TypeOK
<1>2. CASE Ends(s, f)
  <2>1. \A r \in Servers : flows'[r] \subseteq flows[r]
    BY <1>1, <1>2 DEF Ends
  <2>. QED  BY <2>1, QuietEchoes
<1>3. ASSUME NEW g, Becomes(s, f, g), g.message = f.message, g.step # "send"
      PROVE  EchoInv'
  <2>1. /\ \A r \in Servers : r # s => flows'[r] = flows[r]
        /\ flows'[s] = (flows[s] \ {f}) \cup {g}
    BY <1>1, <1>3 DEF Becomes
  <2>2. SendInv'
    BY <1>3, <2>1, QuietSends DEF EchoInv
  <2>3. ASSUME NEW r \in Servers, NEW m
        PROVE  (Unseen(r, m) => Unseen(r, m)') /\ (Kept(r, m) => Kept(r, m)')
    <3>1. CASE r # s \/ f.message # m
      BY <1>3, <2>1, <3>1, HarmlessStep
    <3>2. CASE r = s /\ f.message = m
      <4>1. ~Unseen(r, m)
        BY <3>2 DEF Unseen
      <4>2. ASSUME Kept(r, m) PROVE Kept(r, m)'
        <5>1. /\ chat'[s][m] = 0 /\ m \notin engine'[s].ahead /\ m \in origins'[s]
              /\ \A h \in flows[s] : h.message = m => h = f
          BY <3>2, <4>2 DEF Kept
        <5>2. \A h \in flows'[s] : h.message = m => h = g
          BY <2>1, <5>1
        <5>. QED  BY <1>3, <3>2, <5>1, <5>2 DEF Kept
      <4>. QED  BY <4>1, <4>2
    <3>. QED  BY <3>1, <3>2
  <2>. QED  BY <2>2, <2>3, OriginSteps DEF EchoInv
<1>. QED  BY <1>2, <1>3

(* What is remembered goes on to the chat only if it did not come from it. *)
LEMMA FlowRemembersEchoes ==
  ASSUME IInv, EchoInv, NEW s \in Servers, NEW f \in flows[s], FlowRemembers(s, f)
  PROVE  EchoInv'
<1>1. PICK m, g : m = f.message /\ g = [f EXCEPT !.step = "send", !.state = Fresh]
  OBVIOUS
<1>2. /\ flows \in [Servers -> SUBSET Flow] /\ f \in Flow /\ m \in Messages
      /\ origins \in [Servers -> SUBSET Messages]
      /\ chat \in [Servers -> [Messages -> Nat]] /\ run \in [Servers -> Nat]
  BY <1>1 DEF IInv, TypeOK, Flow
<1>3. g.message = m /\ g.step = "send" /\ g.state = Fresh
  BY <1>1, <1>2 DEF Flow
<1>4. UNCHANGED <<chat, run, delivered, engine>>
  BY DEF FlowRemembers, telegram, database
<1>5. CASE Ends(s, f) /\ UNCHANGED <<origins, relayed, forgotten>>
  BY <1>4, <1>5, FlowEchoes DEF IInv
<1>6. CASE /\ ~IsRelayed(s, m) /\ Remembers(s, m)
           /\ origins' = [origins EXCEPT ![s] = origins[s] \ {m}]
           /\ IF m \in origins[s] THEN Ends(s, f) ELSE Becomes(s, f, g)
  <2>1. /\ forgotten \subseteq forgotten' /\ IsRelayed(s, m)'
        /\ \A k : IsRelayed(s, k) => IsRelayed(s, k)' \/ <<s, k>> \in forgotten'
        /\ \A k : IsRelayed(s, k)' => IsRelayed(s, k) \/ k = m
        /\ \A r \in Servers : r # s => relayed'[r] = relayed[r]
    BY <1>2, <1>6, RemembersType DEF IInv
  <2>2. \A r \in Servers : r # s => \A k : IsRelayed(r, k) <=> IsRelayed(r, k)'
    BY <2>1 DEF IsRelayed
  <2>3. \A r \in Servers : \A h : SendSafe(r, h) => SendSafe(r, h)'
    BY <1>4, <2>1, <2>2 DEF SendSafe
  <2>4. ASSUME NEW r \in Servers, NEW k \in Messages PROVE SentWhenRelayed(r, k)'
    <3>1. SentWhenRelayed(r, k) /\ chat[r][k] \in Nat /\ run[r] \in Nat
      BY <1>2 DEF EchoInv, SendInv
    <3>2. CASE <<r, k>> \in forgotten
      BY <2>1, <3>2 DEF SentWhenRelayed
    <3>3. CASE <<r, k>> \notin forgotten /\ IsRelayed(r, k)
      <4>1. chat[r][k] <= run[r] + 1
        BY <3>1, <3>3 DEF SentWhenRelayed
      <4>2. IsRelayed(r, k)' \/ <<r, k>> \in forgotten'
        BY <2>1, <2>2, <3>3
      <4>. QED  BY <1>4, <4>1, <4>2 DEF SentWhenRelayed
    <3>4. CASE <<r, k>> \notin forgotten /\ ~IsRelayed(r, k)
      <4>1. chat[r][k] <= run[r] + 0
        BY <3>1, <3>4 DEF SentWhenRelayed
      <4>2. chat[r][k] <= run[r] + (IF IsRelayed(r, k)' THEN 1 ELSE 0)
        <5>1. CASE IsRelayed(r, k)'
          BY <3>1, <4>1, <5>1
        <5>2. CASE ~IsRelayed(r, k)'
          BY <4>1, <5>2
        <5>. QED  BY <5>1, <5>2
      <4>. QED  BY <1>4, <4>2 DEF SentWhenRelayed
    <3>. QED  BY <3>2, <3>3, <3>4
  <2>5. CASE m \in origins[s]
    <3>1. /\ \A r \in Servers : r # s => flows'[r] = flows[r] /\ origins'[r] = origins[r]
          /\ flows'[s] = flows[s] \ {f} /\ origins'[s] = origins[s] \ {m}
      BY <1>2, <1>6, <2>5 DEF Ends
    <3>2. SendInv'
      BY <2>3, <2>4, <3>1 DEF EchoInv, SendInv
    <3>3. ASSUME NEW r \in Servers, NEW k
          PROVE  (Unseen(r, k) => Unseen(r, k)') /\ (Kept(r, k) => Kept(r, k)')
      <4>1. CASE r # s
        BY <1>4, <3>1, <4>1, HarmlessStep
      <4>2. CASE r = s
        <5>1. ASSUME Unseen(s, k) PROVE Unseen(s, k)'
          BY <1>4, <3>1, <5>1 DEF Unseen
        <5>2. ASSUME Kept(s, k) PROVE Kept(s, k)'
          <6>1. chat'[s][k] = 0 /\ k \notin engine'[s].ahead
            BY <1>4, <5>2 DEF Kept
          <6>2. ASSUME NEW h \in flows'[s], h.message = k
                PROVE  /\ h.step # "send" /\ k \in origins'[s]
                       /\ \A e \in flows'[s] : e.message = k => e = h
            <7>1. /\ h \in flows[s] /\ h # f /\ h.step # "send" /\ k \in origins[s]
                  /\ \A e \in flows[s] : e.message = k => e = h
              BY <3>1, <5>2, <6>2 DEF Kept
            <7>2. k # m
              BY <1>1, <7>1
            <7>. QED  BY <3>1, <7>1, <7>2
          <6>. QED  BY <6>1, <6>2 DEF Kept
        <5>. QED  BY <4>2, <5>1, <5>2
      <4>. QED  BY <4>1, <4>2
    <3>. QED  BY <1>4, <3>2, <3>3, OriginSteps DEF EchoInv
  <2>6. CASE m \notin origins[s]
    <3>1. /\ \A r \in Servers : r # s => flows'[r] = flows[r]
          /\ \A r \in Servers : origins'[r] = origins[r]
          /\ flows'[s] = (flows[s] \ {f}) \cup {g}
      BY <1>2, <1>6, <2>6 DEF Becomes
    <3>2. SendSafe(s, g)'
      <4>1. SentWhenRelayed(s, m) /\ ~IsRelayed(s, m) /\ run[s] \in Nat
        BY <1>2, <1>6 DEF EchoInv, SendInv
      <4>2. <<s, m>> \in forgotten \/ chat[s][m] <= run[s] + 0
        BY <4>1 DEF SentWhenRelayed
      <4>3. <<s, m>> \in forgotten \/ chat[s][m] <= run[s]
        BY <1>2, <4>2
      <4>. QED  BY <1>3, <1>4, <2>1, <4>3 DEF SendSafe
    <3>3. SendInv'
      BY <2>3, <2>4, <3>1, <3>2 DEF EchoInv, SendInv
    <3>4. ASSUME NEW r \in Servers, NEW k
          PROVE  (Unseen(r, k) => Unseen(r, k)') /\ (Kept(r, k) => Kept(r, k)')
      <4>1. CASE r # s \/ k # m
        BY <1>3, <1>4, <3>1, <4>1, HarmlessStep
      <4>2. CASE r = s /\ k = m
        BY <1>1, <2>6, <4>2 DEF Unseen, Kept
      <4>. QED  BY <4>1, <4>2
    <3>. QED  BY <1>4, <3>3, <3>4, OriginSteps DEF EchoInv
  <2>. QED  BY <2>5, <2>6
<1>. QED  BY <1>1, <1>5, <1>6 DEF FlowRemembers

(* At most one flow was to send the message, and not one from the chat. *)
LEMMA FlowSendsEchoes ==
  ASSUME IInv, EchoInv, NEW s \in Servers, NEW f \in flows[s], FlowSends(s, f)
  PROVE  EchoInv'
<1>1. PICK m : m = f.message
  OBVIOUS
<1>2. /\ flows \in [Servers -> SUBSET Flow] /\ f \in Flow /\ m \in Messages
      /\ chat \in [Servers -> [Messages -> Nat]] /\ run \in [Servers -> Nat]
  BY <1>1 DEF IInv, TypeOK, Flow
<1>3. /\ UNCHANGED <<run, relayed, forgotten, delivered, origins, engine>>
      /\ Ends(s, f) /\ f.step = "send"
  BY DEF FlowSends, database, history
<1>4. CASE UNCHANGED chat
  BY <1>3, <1>4, FlowEchoes DEF IInv
<1>5. CASE Sends(s, m)
  <2>1. /\ f.state = Fresh
        /\ <<s, m>> \in forgotten \/ (IsRelayed(s, m) /\ chat[s][m] <= run[s])
    BY <1>1, <1>3 DEF EchoInv, SendInv, SendSafe
  <2>2. /\ chat'[s][m] = chat[s][m] + 1
        /\ \A r \in Servers : \A k \in Messages : <<r, k>> # <<s, m>> => chat'[r][k] = chat[r][k]
    <3>1. chat' = [chat EXCEPT ![s] = [chat[s] EXCEPT ![m] = chat[s][m] + 1]]
      BY <1>2, <1>5 DEF Sends
    <3>2. chat[s] \in [Messages -> Nat]
      BY <1>2
    <3>. QED  BY <1>2, <3>1, <3>2
  <2>3. /\ \A r \in Servers : r # s => flows'[r] = flows[r]
        /\ flows'[s] = flows[s] \ {f}
    BY <1>2, <1>3 DEF Ends
  <2>4. \A r, k : IsRelayed(r, k) <=> IsRelayed(r, k)'
    BY <1>3 DEF IsRelayed
  <2>5. ASSUME NEW r \in Servers, NEW h \in flows'[r] PROVE SendSafe(r, h)'
    <3>1. SUFFICES ASSUME h.step = "send" PROVE SendSafe(r, h)'
      BY DEF SendSafe
    <3>2. h \in flows[r] /\ h \in Flow /\ SendSafe(r, h) /\ h.message \in Messages
      BY <1>2, <2>3 DEF EchoInv, SendInv, Flow
    <3>3. CASE <<r, h.message>> = <<s, m>>
      <4>1. h.state = Fresh
        BY <3>1, <3>2 DEF SendSafe
      <4>2. h = f
        BY <1>1, <1>2, <1>3, <2>1, <3>1, <3>2, <3>3, <4>1 DEF Flow
      <4>. QED  BY <2>3, <3>3, <4>2
    <3>4. CASE <<r, h.message>> # <<s, m>>
      <4>1. chat'[r][h.message] = chat[r][h.message]
        BY <2>2, <3>2, <3>4
      <4>. QED  BY <1>3, <2>4, <3>2, <4>1 DEF SendSafe
    <3>. QED  BY <3>3, <3>4
  <2>6. ASSUME NEW r \in Servers, NEW k \in Messages PROVE SentWhenRelayed(r, k)'
    <3>1. CASE <<r, k>> = <<s, m>>
      <4>1. CASE <<s, m>> \in forgotten
        BY <1>3, <3>1, <4>1 DEF SentWhenRelayed
      <4>2. CASE IsRelayed(s, m) /\ chat[s][m] <= run[s]
        <5>1. chat'[s][m] <= run'[s] + 1 /\ IsRelayed(s, m)'
          BY <1>2, <1>3, <2>2, <2>4, <4>2
        <5>. QED  BY <3>1, <5>1 DEF SentWhenRelayed
      <4>. QED  BY <2>1, <4>1, <4>2
    <3>2. CASE <<r, k>> # <<s, m>>
      <4>1. chat'[r][k] = chat[r][k] /\ SentWhenRelayed(r, k) /\ run' = run /\ forgotten' = forgotten
        BY <1>3, <2>2, <3>2 DEF EchoInv, SendInv
      <4>2. CASE IsRelayed(r, k)
        BY <2>4, <4>1, <4>2 DEF SentWhenRelayed
      <4>3. CASE ~IsRelayed(r, k)
        BY <2>4, <4>1, <4>3 DEF SentWhenRelayed
      <4>. QED  BY <4>2, <4>3
    <3>. QED  BY <3>1, <3>2
  <2>7. ASSUME NEW r \in Servers, NEW k \in Messages
        PROVE  (Unseen(r, k) => Unseen(r, k)') /\ (Kept(r, k) => Kept(r, k)')
    <3>1. CASE <<r, k>> = <<s, m>>
      BY <1>1, <1>3, <3>1 DEF Unseen, Kept
    <3>2. CASE <<r, k>> # <<s, m>>
      <4>1. chat'[r][k] = chat[r][k] /\ engine' = engine /\ origins' = origins
            /\ flows'[r] \subseteq flows[r]
        BY <1>3, <2>2, <2>3, <3>2
      <4>. QED  BY <4>1, HarmlessStep
    <3>. QED  BY <3>1, <3>2
  <2>8. SendInv'
    BY <2>5, <2>6 DEF SendInv
  <2>. QED  BY <1>3, <2>7, <2>8, Origins, OriginSteps DEF EchoInv
<1>. QED  BY <1>1, <1>4, <1>5 DEF FlowSends

(* A server that starts again remembers nothing, and may send each message *)
(* once more; what it has taken from the chat is published no more.        *)
LEMMA RestartEchoes ==
  ASSUME IInv, EchoInv, NEW s \in Servers, NEW released \in BOOLEAN, Restart(s, released)
  PROVE  EchoInv'
<1>1. /\ chat' = chat /\ run' = [run EXCEPT ![s] = run[s] + 1] /\ run \in [Servers -> Nat]
      /\ chat \in [Servers -> [Messages -> Nat]] /\ flows \in [Servers -> SUBSET Flow]
      /\ relayed \in [Servers -> Seq(Messages)] /\ origins \in [Servers -> SUBSET Messages]
      /\ engine \in [Servers -> View] /\ delivered' = delivered /\ forgotten' = forgotten
  BY DEF Restart, telegram, database, history, IInv, TypeOK
<1>2. \A r \in Servers : r # s => /\ run'[r] = run[r] /\ flows'[r] = flows[r] /\ engine'[r] = engine[r]
                                  /\ relayed'[r] = relayed[r] /\ origins'[r] = origins[r]
  BY <1>1 DEF Restart
<1>3. run'[s] = run[s] + 1 /\ flows'[s] = {} /\ relayed'[s] = << >> /\ engine'[s].ahead = {}
  BY <1>1 DEF Restart, UpToDate
<1>4. ASSUME NEW r \in Servers, NEW m
      PROVE  (Unseen(r, m) => Unseen(r, m)') /\ (Kept(r, m) => Kept(r, m)')
  <2>1. CASE r = s
    BY <1>1, <1>3, <2>1, HarmlessStep
  <2>2. CASE r # s
    BY <1>1, <1>2, <2>2, HarmlessStep
  <2>. QED  BY <2>1, <2>2
<1>5. ASSUME NEW r \in Servers, NEW f \in flows'[r] PROVE SendSafe(r, f)'
  <2>1. r # s /\ f \in flows[r]
    BY <1>2, <1>3
  <2>2. IsRelayed(r, f.message) <=> IsRelayed(r, f.message)'
    BY <1>2, <2>1 DEF IsRelayed
  <2>. QED  BY <1>1, <1>2, <2>1, <2>2 DEF EchoInv, SendInv, SendSafe
<1>6. ASSUME NEW r \in Servers, NEW m \in Messages PROVE SentWhenRelayed(r, m)'
  <2>1. SentWhenRelayed(r, m) /\ chat[r][m] \in Nat /\ run[r] \in Nat
    BY <1>1 DEF EchoInv, SendInv
  <2>2. CASE r = s
    <3>1. <<s, m>> \in forgotten \/ chat[s][m] <= run[s] + 1
      BY <2>1, <2>2 DEF SentWhenRelayed
    <3>2. ~IsRelayed(s, m)'
      BY <1>3 DEF IsRelayed
    <3>3. <<s, m>> \in forgotten' \/ chat'[s][m] <= run'[s] + 0
      BY <1>1, <1>3, <2>1, <2>2, <3>1
    <3>. QED  BY <2>2, <3>2, <3>3 DEF SentWhenRelayed
  <2>3. CASE r # s
    <3>1. IsRelayed(r, m) <=> IsRelayed(r, m)'
      BY <1>2, <2>3 DEF IsRelayed
    <3>2. CASE IsRelayed(r, m)
      BY <1>1, <1>2, <2>1, <2>3, <3>1, <3>2 DEF SentWhenRelayed
    <3>3. CASE ~IsRelayed(r, m)
      BY <1>1, <1>2, <2>1, <2>3, <3>1, <3>3 DEF SentWhenRelayed
    <3>. QED  BY <3>2, <3>3
  <2>. QED  BY <2>2, <2>3
<1>7. SendInv'
  BY <1>5, <1>6 DEF SendInv
<1>. QED  BY <1>1, <1>4, <1>7, OriginSteps DEF EchoInv

LEMMA EchoStep == IInv /\ EchoInv /\ [Next]_vars => EchoInv'
<1> SUFFICES ASSUME IInv, EchoInv, [Next]_vars PROVE EchoInv'
  OBVIOUS
<1>1. scope.servers \subseteq Servers
  BY ScopeType DEF IInv
<1>2. ASSUME NEW s \in Servers, Tick(s) \/ TickFails(s) PROVE EchoInv'
  BY <1>2, DispatchEchoes, TickEchoes
<1>3. ASSUME NEW s \in Servers, NEW f \in flows[s], FlowStarts(s, f) \/ FlowAssigns(s, f)
      PROVE  EchoInv'
  <2>1. UNCHANGED <<chat, run, relayed, forgotten, delivered, origins, engine>>
    BY <1>3 DEF FlowStarts, FlowAssigns, telegram, database, history
  <2>2. f \in Flow
    BY DEF IInv, TypeOK
  <2>3. ASSUME NEW state, NEW step \in {"assign", "write"}
        PROVE  /\ [f EXCEPT !.step = step, !.state = state].message = f.message
               /\ [f EXCEPT !.step = step, !.state = state].step # "send"
    BY <2>2 DEF Flow
  <2>4. \/ Ends(s, f)
        \/ \E state, step : /\ step \in {"assign", "write"}
                            /\ Becomes(s, f, [f EXCEPT !.step = step, !.state = state])
    BY <1>3 DEF FlowStarts, FlowAssigns, FlowResolves
  <2>. QED  BY <2>1, <2>3, <2>4, FlowEchoes DEF IInv
<1>4. ASSUME NEW s \in Servers, Relay(s) PROVE EchoInv'
  BY <1>3, <1>4, FlowRemembersEchoes, FlowSendsEchoes DEF Relay
<1>5. CASE \/ UpdateArrives \/ SwitchTarget \/ LockAges \/ UNCHANGED vars
           \/ \E s \in Servers : RequestReload(s) \/ StartConfig(s) \/ EndConfig(s)
  <2>1. UNCHANGED <<chat, run, relayed, forgotten, delivered, origins, engine, flows>>
    BY <1>5 DEF UpdateArrives, SwitchTarget, LockAges, RequestReload, StartConfig, EndConfig, vars,
                telegram, database, runtimes, relays, history
  <2>. QED  BY <2>1, QuietEchoes
<1>6. ASSUME NEW s \in Servers, ThreadCreated(s) \/ OtherCommand(s) PROVE EchoInv'
  <2>1. UNCHANGED <<chat, run, relayed, forgotten, delivered, origins>>
    BY <1>6 DEF ThreadCreated, OtherCommand, telegram, database, relays, history
  <2>2. CASE OtherCommand(s) /\ Reconciles(s)
    BY <2>1, <2>2, ReconcilesEchoes
  <2>3. CASE ThreadCreated(s) \/ (OtherCommand(s) /\ ~Reconciles(s))
    <3>1. flows' = flows /\ engine \in [Servers -> View]
      BY <2>3 DEF ThreadCreated, OtherCommand, relays, IInv, TypeOK
    <3>2. \A r \in Servers : engine'[r].ahead \subseteq engine[r].ahead
      <4>1. \A r \in Servers : [engine[r] EXCEPT !.created = TRUE].ahead = engine[r].ahead
        BY <3>1 DEF View
      <4>2. \A knows : UpToDate(knows).ahead = {}
        BY DEF UpToDate
      <4>. QED  BY <2>3, <3>1, <4>1, <4>2 DEF ThreadCreated, OtherCommand
    <3>. QED  BY <2>1, <3>1, <3>2, QuietEchoes
  <2>. QED  BY <1>6, <2>2, <2>3
<1>. QED
  BY <1>1, <1>2, <1>4, <1>5, <1>6, MessageSentEchoes, RestartEchoes DEF Next, Environment

(* A server sends nothing back to the chat that it has itself given to the *)
(* thread, and sends each message once between two of its restarts,        *)
(* however often its events are published, by whichever server they were   *)
(* committed and whichever of their relays overtakes the other, unless it  *)
(* has had to forget the message for later ones.                           *)
THEOREM NothingEchoed == Spec => []NoEcho
<1>1. Init => EchoInv
  <2>1. SUFFICES ASSUME Init PROVE EchoInv
    OBVIOUS
  <2>2. \A s \in Servers : /\ run[s] = 0 /\ flows[s] = {} /\ engine[s].ahead = {}
                           /\ \A m \in Messages : chat[s][m] = 0
    BY <2>1 DEF Init, UpToDate
  <2>3. \A s \in Servers : \A m \in Messages : SentWhenRelayed(s, m)
    BY <2>2 DEF SentWhenRelayed
  <2>4. \A s \in Servers : \A u \in Ids : Unseen(s, FromTelegram(u)) /\ Kept(s, FromTelegram(u))
    BY <2>2, Origins DEF Unseen, Kept
  <2>. QED  BY <2>2, <2>3, <2>4 DEF EchoInv, OriginInv, SendInv
<1>2. IInv /\ EchoInv => NoEcho
  <2>1. SUFFICES ASSUME IInv, EchoInv, NEW s \in Servers
                 PROVE  /\ \A u \in Ids : delivered[u] = s => chat[s][FromTelegram(u)] = 0
                        /\ \A m \in Messages : chat[s][m] <= 1 + run[s] \/ <<s, m>> \in forgotten
    BY DEF NoEcho
  <2>2. \A u \in Ids : delivered[u] = s => chat[s][FromTelegram(u)] = 0
    BY <2>1 DEF EchoInv, OriginInv, Kept
  <2>3. ASSUME NEW m \in Messages PROVE chat[s][m] <= 1 + run[s] \/ <<s, m>> \in forgotten
    <3>1. SentWhenRelayed(s, m) /\ chat[s][m] \in Nat /\ run[s] \in Nat
      BY <2>1 DEF EchoInv, SendInv, IInv, TypeOK
    <3>. QED  BY <3>1 DEF SentWhenRelayed
  <2>. QED  BY <2>2, <2>3
<1>. QED  BY <1>1, <1>2, EchoStep, OffsetsAlwaysSafe, PTL DEF Spec
=============================================================================
