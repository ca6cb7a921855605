----------------------- MODULE RuntimeIngestion_proofs -----------------------
(***************************************************************************)
(* Proofs about RuntimeIngestion, for every scope and every bound: that    *)
(* the invariants of RuntimeInvariants hold, and with them the properties. *)
(***************************************************************************)
EXTENDS RuntimeInvariants, FiniteSetTheorems, TLAPS

-----------------------------------------------------------------------------
(* Queues and logs. *)
LEMMA AppendParts ==
  ASSUME NEW T, NEW s \in Seq(T), NEW e \in T
  PROVE  LET r == Append(s, e)
         IN /\ r \in Seq(T) /\ Len(r) = Len(s) + 1 /\ r[Len(s) + 1] = e
            /\ \A k \in 1 .. Len(s) : r[k] = s[k]
OBVIOUS

LEMMA TailParts ==
  ASSUME NEW T, NEW s \in Seq(T), s # << >>
  PROVE  LET r == Tail(s)
         IN /\ r \in Seq(T) /\ Len(s) = Len(r) + 1 /\ Head(s) = s[1] /\ Head(s) \in T
            /\ \A k \in 1 .. Len(r) : r[k] = s[k + 1]
OBVIOUS

LEMMA ConcatParts ==
  ASSUME NEW T, NEW a \in Seq(T), NEW b \in Seq(T)
  PROVE  LET r == a \o b
         IN /\ r \in Seq(T) /\ Len(r) = Len(a) + Len(b)
            /\ \A k \in 1 .. Len(a) : r[k] = a[k]
            /\ \A k \in 1 .. Len(b) : r[Len(a) + k] = b[k]
OBVIOUS

LEMMA ReplaceParts ==
  ASSUME NEW T, NEW s \in Seq(T), NEW i \in 1 .. Len(s), NEW e \in T
  PROVE  LET r == [s EXCEPT ![i] = e]
         IN /\ r \in Seq(T) /\ Len(r) = Len(s) /\ r[i] = e
            /\ \A k \in 1 .. Len(s) : k # i => r[k] = s[k]
OBVIOUS

-----------------------------------------------------------------------------
(* Tables: what is written to one and what is dropped from it. *)
LEMMA EmptyTable ==
  ASSUME NEW Keys, NEW Row
  PROVE  << >> \in Table(Keys, Row)
<1>1. << >> \in [{} -> Row] /\ {} \in SUBSET Keys OBVIOUS
<1> QED BY <1>1, Zenon DEF Table

LEMMA TableParts ==
  ASSUME NEW Keys, NEW Row, NEW f \in Table(Keys, Row)
  PROVE  DOMAIN f \subseteq Keys /\ \A k \in DOMAIN f : f[k] \in Row
<1>1. PICK S \in SUBSET Keys : f \in [S -> Row] BY DEF Table
<1> QED BY <1>1

LEMMA SetRow ==
  ASSUME NEW Keys, NEW Row, NEW f \in Table(Keys, Row), NEW key \in Keys, NEW row \in Row
  PROVE  [x \in DOMAIN f \cup {key} |-> IF x = key THEN row ELSE f[x]] \in Table(Keys, Row)
<1>1. PICK S \in SUBSET Keys : f \in [S -> Row] BY DEF Table
<1>2. [x \in DOMAIN f \cup {key} |-> IF x = key THEN row ELSE f[x]] \in [S \cup {key} -> Row]
  BY <1>1
<1>3. S \cup {key} \in SUBSET Keys BY <1>1
<1> QED BY <1>2, <1>3 DEF Table

LEMMA WithoutRows ==
  ASSUME NEW Keys, NEW Row, NEW f \in Table(Keys, Row), NEW S
  PROVE  Without(f, S) \in Table(Keys, Row)
<1>1. PICK D \in SUBSET Keys : f \in [D -> Row] BY DEF Table
<1>2. Without(f, S) \in [D \ S -> Row] BY <1>1 DEF Without
<1>3. D \ S \in SUBSET Keys BY <1>1
<1> QED BY <1>2, <1>3 DEF Table

-----------------------------------------------------------------------------
(* What an operation makes of the ingestion's memory and of the thread. *)
LEMMA RememberType ==
  ASSUME NEW c \in Caches, NEW turn \in Nat, NEW m \in Nat
  PROVE  Remember(c, turn, m) \in Caches
<1> DEFINE old(t) == IF t \in DOMAIN c.ids THEN c.ids[t] ELSE {}
           ids == [t \in DOMAIN c.ids \cup {turn} |-> old(t) \cup IF t = turn THEN {m} ELSE {}]
<1>1. c.ids \in Table(Nat, FiniteSetsOf(Nat)) BY DEF Caches
<1>2. DOMAIN c.ids \subseteq Nat /\ \A t \in DOMAIN c.ids : c.ids[t] \in FiniteSetsOf(Nat)
  BY <1>1, TableParts
<1>3. \A t : old(t) \in FiniteSetsOf(Nat) BY <1>2, FS_EmptySet DEF FiniteSetsOf
<1>4. \A t : old(t) \cup {m} \in FiniteSetsOf(Nat) BY <1>3, FS_AddElement DEF FiniteSetsOf
<1> HIDE DEF old
<1>5. ids \in [DOMAIN c.ids \cup {turn} -> FiniteSetsOf(Nat)] BY <1>3, <1>4
<1>6. DOMAIN c.ids \cup {turn} \in SUBSET Nat BY <1>2
<1>7. ids \in Table(Nat, FiniteSetsOf(Nat)) BY <1>5, <1>6 DEF Table
<1>8. Remember(c, turn, m) = [c EXCEPT !.ids = ids] BY DEF Remember, old
<1> HIDE DEF ids
<1> QED BY <1>7, <1>8 DEF Caches

LEMMA ForgetType ==
  ASSUME NEW c \in Caches, NEW turn \in Nat, NEW m \in Nat
  PROVE  ForgetMessage(c, turn, m) \in Caches
<1> DEFINE left == c.ids[turn] \ {m}
<1>1. c.ids \in Table(Nat, FiniteSetsOf(Nat)) BY DEF Caches
<1>2. DOMAIN c.ids \subseteq Nat /\ \A t \in DOMAIN c.ids : c.ids[t] \in FiniteSetsOf(Nat)
  BY <1>1, TableParts
<1>3. CASE turn \notin DOMAIN c.ids BY <1>3 DEF ForgetMessage
<1>4. CASE turn \in DOMAIN c.ids /\ left = {} BY <1>1, <1>4, WithoutRows DEF ForgetMessage, Caches
<1>5. CASE turn \in DOMAIN c.ids /\ left # {}
  <2>1. left \in FiniteSetsOf(Nat) BY <1>2, <1>5, FS_RemoveElement DEF FiniteSetsOf
  <2> DEFINE ids == [c.ids EXCEPT ![turn] = left]
  <2>2. PICK S \in SUBSET Nat : c.ids \in [S -> FiniteSetsOf(Nat)] BY <1>1 DEF Table
  <2>3. ids \in [S -> FiniteSetsOf(Nat)]
    <3> HIDE DEF left
    <3> QED BY <2>1, <2>2
  <2>4. ids \in Table(Nat, FiniteSetsOf(Nat)) BY <2>3 DEF Table
  <2>5. ForgetMessage(c, turn, m) = [c EXCEPT !.ids = ids] BY <1>5 DEF ForgetMessage, Caches
  <2> HIDE DEF ids
  <2> QED BY <2>4, <2>5 DEF Caches
<1> QED BY <1>3, <1>4, <1>5

LEMMA BufferType ==
  ASSUME NEW c \in Caches, NEW m \in Nat
  PROVE  /\ Buffered(c, m) \in Text
         /\ ClearBuffer(c, m) \in Caches
         /\ \A text \in Text : SetBuffer(c, m, text) \in Caches
<1>1. c.buffer \in Table(Nat, Text) BY DEF Caches
<1>2. Buffered(c, m) \in Text BY <1>1, TableParts DEF Text, Buffered
<1>3. ClearBuffer(c, m) \in Caches BY <1>1, WithoutRows DEF ClearBuffer, Caches
<1>4. ASSUME NEW text \in Text PROVE SetBuffer(c, m, text) \in Caches
  <2> DEFINE b == [x \in DOMAIN c.buffer \cup {m} |-> IF x = m THEN text ELSE c.buffer[x]]
  <2>1. b \in Table(Nat, Text) BY <1>1, SetRow
  <2>2. SetBuffer(c, m, text) = [c EXCEPT !.buffer = b] BY DEF SetBuffer
  <2> HIDE DEF b
  <2> QED BY <2>1, <2>2 DEF Caches
<1> QED BY <1>2, <1>3, <1>4

(* A delta is spilled, or buffered, or spills the buffer with it. *)
LEMMA AfterDeltaType ==
  ASSUME caches \in Caches,
         NEW op \in [do : {"delta", "plan"}, turn : Nat, message : Nat, chunk : Nat]
  PROVE  AfterDelta(op).caches \in Caches /\ AfterDelta(op).spilled \in Text
<1> DEFINE known == Remember(caches, op.turn, op.message)
           text == Append(Buffered(caches, op.message), op.chunk)
<1>1. known \in Caches BY RememberType
<1>2. text \in Text BY BufferType DEF Text
<1>3. << op.chunk >> \in Text /\ << >> \in Text BY DEF Text
<1>4. AfterDelta(op) =
        IF caches.mode = "streaming" THEN [caches |-> known, spilled |-> << op.chunk >>]
        ELSE IF Len(text) <= MaxBuffered
             THEN [caches |-> SetBuffer(known, op.message, text), spilled |-> << >>]
        ELSE [caches |-> ClearBuffer(known, op.message), spilled |-> text]
  BY DEF AfterDelta
<1>5. SetBuffer(known, op.message, text) \in Caches /\ ClearBuffer(known, op.message) \in Caches
  <2> HIDE DEF known, text
  <2> QED BY <1>1, <1>2, BufferType
<1> HIDE DEF known, text
<1> QED BY <1>1, <1>2, <1>3, <1>4, <1>5

LEMMA FinalTextType ==
  ASSUME caches \in Caches, NEW op \in [do : {"flush"}, message : Nat, fallback : Text]
  PROVE  FinalText(op) \in Text
<1>1. Buffered(caches, op.message) \in Text BY BufferType
<1> QED BY <1>1 DEF FinalText

LEMMA PiecesType ==
  ASSUME caches \in Caches, NEW turn
  PROVE  Pieces(turn) \in PlanPieces
<1>1. caches.plans \in Table(Nat, PlanPieces) BY DEF Caches
<1>2. \A t \in DOMAIN caches.plans : caches.plans[t] \in PlanPieces BY <1>1, TableParts
<1>3. << >> \in PlanPieces BY DEF PlanPieces
<1> QED BY <1>2, <1>3 DEF Pieces

LEMMA MemoryType ==
  ASSUME caches \in Caches, NEW op \in Operation
  PROVE  Memory(op) \in Caches
<1>1. CASE op \in [do : {"mode"}, mode : Modes]
  BY <1>1 DEF Memory, Caches
<1>2. CASE op \in [do : {"delta", "plan"}, turn : Nat, message : Nat, chunk : Nat]
  <2>1. CASE op.do = "delta" BY <1>2, <2>1, AfterDeltaType DEF Memory
  <2>2. CASE op.do = "plan"
    <3>1. << op.message, op.chunk >> \in Nat \X Nat BY <1>2
    <3>2. Append(Pieces(op.turn), << op.message, op.chunk >>) \in PlanPieces
      BY <3>1, PiecesType DEF PlanPieces
    <3> DEFINE text == Append(Pieces(op.turn), << op.message, op.chunk >>)
               plans == [t \in DOMAIN caches.plans \cup {op.turn} |->
                           IF t = op.turn THEN text ELSE caches.plans[t]]
    <3>3. plans \in Table(Nat, PlanPieces)
      <4> HIDE DEF text
      <4>1. caches.plans \in Table(Nat, PlanPieces) BY DEF Caches
      <4>2. op.turn \in Nat BY <1>2
      <4>3. text \in PlanPieces BY <3>2 DEF text
      <4> QED BY <4>1, <4>2, <4>3, SetRow
    <3>4. Memory(op) = [caches EXCEPT !.plans = plans] BY <2>2 DEF Memory, PlanDelta
    <3> HIDE DEF plans
    <3> QED BY <3>3, <3>4 DEF Caches
  <2> QED BY <1>2, <2>1, <2>2
<1>3. CASE op \in [do : {"remember", "forget"}, turn : Nat, message : Nat]
  BY <1>3, RememberType, ForgetType DEF Memory
<1>4. CASE op \in [do : {"flush"}, message : Nat, fallback : Text]
  BY <1>4, BufferType DEF Memory
<1>5. CASE op \in [do : {"upsert"}, turn : Nat, fallback : PlanPieces]
  BY <1>5, WithoutRows DEF Caches, Memory
<1>6. CASE op \in [do : {"finish"}, turn : Nat] BY <1>6, WithoutRows DEF Caches, Memory
<1>7. CASE op \in [do : {"clear"}]
  <2> DEFINE S == UNION {caches.ids[t] : t \in DOMAIN caches.ids}
  <2>1. caches.buffer \in Table(Nat, Text) BY DEF Caches
  <2>2. Without(caches.buffer, S) \in Table(Nat, Text)
    <3> HIDE DEF S
    <3> QED BY <2>1, WithoutRows
  <2>3. << >> \in Table(Nat, FiniteSetsOf(Nat)) /\ << >> \in Table(Nat, PlanPieces)
    BY EmptyTable
  <2>4. Memory(op) = [caches EXCEPT !.buffer = Without(caches.buffer, S), !.ids = << >>,
                                    !.plans = << >>]
    BY <1>7 DEF Memory, Cleared
  <2> HIDE DEF S
  <2> QED BY <2>2, <2>3, <2>4 DEF Caches
<1>8. CASE op.do \in {"complete", "session", "activity"}
  BY <1>8 DEF Memory
<1> QED BY <1>1, <1>2, <1>3, <1>4, <1>5, <1>6, <1>7, <1>8 DEF Operation

LEMMA SetMessageType ==
  ASSUME thread \in Threads, NEW m \in Nat, NEW message \in MessageRow
  PROVE  SetMessage(m, message) \in Threads
<1> DEFINE messages == [x \in DOMAIN thread.messages \cup {m} |->
                          IF x = m THEN message ELSE thread.messages[x]]
<1>1. thread.messages \in Table(Nat, MessageRow) BY DEF Threads, MessageRow
<1>2. messages \in Table(Nat, MessageRow) BY <1>1, SetRow
<1>3. SetMessage(m, message) = [thread EXCEPT !.messages = messages] BY DEF SetMessage
<1> HIDE DEF messages
<1> QED BY <1>2, <1>3 DEF Threads, MessageRow

LEMMA MessageType ==
  ASSUME thread \in Threads, NEW m \in Nat
  PROVE  /\ Message(m).text \in Text
         /\ \A text \in Text : Delta(m, text) \in Threads
         /\ Completed(m) \in Threads
<1>1. thread.messages \in Table(Nat, MessageRow) BY DEF Threads, MessageRow
<1>2. \A k \in DOMAIN thread.messages : thread.messages[k] \in MessageRow BY <1>1, TableParts
<1>3. Message(m).text \in Text BY <1>2 DEF Message, Unknown, MessageRow, Text
<1>4. ASSUME NEW text \in Text PROVE Delta(m, text) \in Threads
  <2>1. Message(m).text \o text \in Text BY <1>3 DEF Text
  <2>2. [text |-> Message(m).text \o text, state |-> "streaming"] \in MessageRow
    BY <2>1 DEF MessageRow
  <2> QED BY <2>2, SetMessageType DEF Delta
<1>5. [text |-> Message(m).text, state |-> "done"] \in MessageRow BY <1>3 DEF MessageRow
<1>6. Completed(m) \in Threads BY <1>5, SetMessageType DEF Completed
<1> QED BY <1>3, <1>4, <1>6

(* The activity an operation tells the thread of. *)
LEMMA ActivityOfOperation ==
  ASSUME NEW op \in Operation, op.do = "activity"
  PROVE  /\ Without(op, {"do"}) \in ActivityRow
         /\ op.kind = "requested" => Without(op, {"do"}) = [kind |-> "requested", request |-> op.request]
         /\ op.kind = "resolved" =>
              Without(op, {"do"}) =
                [kind |-> "resolved", request |-> op.request, decision |-> op.decision]
<1>1. CASE op \in [do : {"activity"}, kind : {"requested"}, request : Nat]
  <2> DEFINE row == [kind |-> "requested", request |-> op.request]
  <2>1. op = [do |-> "activity", kind |-> "requested", request |-> op.request] BY <1>1
  <2>2. Without(op, {"do"}) = row BY <2>1 DEF Without
  <2>3. row \in [kind : {"requested"}, request : Nat] /\ op.kind = "requested" BY <1>1
  <2> HIDE DEF row
  <2>4. row \in ActivityRow BY <2>3, Zenon DEF ActivityRow
  <2> QED BY <2>2, <2>3, <2>4 DEF row
<1>2. CASE op \in [do : {"activity"}, kind : {"resolved"}, request : Nat, decision : Decisions]
  <2> DEFINE row == [kind |-> "resolved", request |-> op.request, decision |-> op.decision]
  <2>1. op = [do |-> "activity", kind |-> "resolved", request |-> op.request,
              decision |-> op.decision]
    BY <1>2
  <2>2. Without(op, {"do"}) = row BY <2>1 DEF Without
  <2>3. /\ row \in [kind : {"resolved"}, request : Nat, decision : Decisions]
        /\ op.kind = "resolved"
    BY <1>2
  <2> HIDE DEF row
  <2>4. row \in ActivityRow BY <2>3, Zenon DEF ActivityRow
  <2> QED BY <2>2, <2>3, <2>4 DEF row
<1> QED BY <1>1, <1>2 DEF Operation

LEMMA DispatchedType ==
  ASSUME caches \in Caches, thread \in Threads, NEW op \in Operation
  PROVE  Dispatched(op) \in Threads
<1>1. CASE op \in [do : {"delta", "plan"}, turn : Nat, message : Nat, chunk : Nat]
  BY <1>1, AfterDeltaType, MessageType DEF Dispatched
<1>2. CASE op \in [do : {"flush"}, message : Nat, fallback : Text]
  BY <1>2, FinalTextType, MessageType DEF Dispatched
<1>3. CASE op \in [do : {"complete"}, message : Nat]
  BY <1>3, MessageType DEF Dispatched
<1>4. CASE op \in [do : {"upsert"}, turn : Nat, fallback : PlanPieces]
  <2> DEFINE text == PlanText(op)
             plans == [t \in DOMAIN thread.plans \cup {op.turn} |->
                         IF t = op.turn THEN text ELSE thread.plans[t]]
  <2>1. text \in PlanPieces BY <1>4, PiecesType DEF PlanText
  <2> HIDE DEF text
  <2>2. thread.plans \in Table(Nat, PlanPieces) /\ op.turn \in Nat BY <1>4 DEF Threads
  <2>3. plans \in Table(Nat, PlanPieces) BY <2>1, <2>2, SetRow
  <2>4. Dispatched(op) = IF text # << >> THEN [thread EXCEPT !.plans = plans] ELSE thread
    BY <1>4 DEF Dispatched, Upsert, text
  <2> HIDE DEF plans
  <2> QED BY <2>3, <2>4 DEF Threads
<1>5. CASE op \in [do : {"session"}, status : {"ready", "stopped"}]
  BY <1>5 DEF Dispatched, Threads
<1>6. ASSUME NEW row \in ActivityRow, Dispatched(op) = [thread EXCEPT !.activities = Append(@, row)]
      PROVE  Dispatched(op) \in Threads
  <2>1. thread.activities \in Seq(ActivityRow) BY DEF Threads
  <2>2. Append(thread.activities, row) \in Seq(ActivityRow) BY <2>1, AppendParts
  <2> QED BY <1>6, <2>2 DEF Threads
<1>7. CASE op.do = "activity" BY <1>6, <1>7, ActivityOfOperation DEF Dispatched, Activity
<1>8. CASE op.do \in {"mode", "remember", "forget", "finish", "clear"}
  BY <1>8 DEF Dispatched
<1> QED BY <1>1, <1>2, <1>3, <1>4, <1>5, <1>7, <1>8 DEF Operation

-----------------------------------------------------------------------------
(* What a handler is made of. *)
LEMMA FourParts ==
  ASSUME NEW T, NEW a \in T, NEW b \in T, NEW c \in T, NEW d \in T
  PROVE  (<< a >> \o << b, c >>) \o << d >> = << a, b, c, d >>
<1> DEFINE u == << a >> \o << b, c >>
           w == u \o << d >>
<1>1. u \in Seq(T) /\ Len(u) = 3 /\ u[1] = a /\ u[2] = b /\ u[3] = c OBVIOUS
<1> HIDE DEF u
<1>2. w \in Seq(T) /\ Len(w) = 4 /\ w[1] = u[1] /\ w[2] = u[2] /\ w[3] = u[3] /\ w[4] = d
  <2>1. u \in Seq(T) /\ << d >> \in Seq(T) BY <1>1
  <2>2. /\ w \in Seq(T) /\ Len(w) = Len(u) + Len(<< d >>)
        /\ \A k \in 1 .. Len(u) : w[k] = u[k]
        /\ \A k \in 1 .. Len(<< d >>) : w[Len(u) + k] = << d >>[k]
    BY <2>1
  <2> QED BY <1>1, <2>2
<1> HIDE DEF w
<1>3. w \in [1 .. 4 -> T]
  <2>0. w \in Seq(T) BY <1>2
  <2>1. w \in [1 .. Len(w) -> T] BY <2>0
  <2>2. 1 .. Len(w) = 1 .. 4 BY <1>2
  <2> QED BY <2>1, <2>2, Zenon
<1>4. << a, b, c, d >> \in [1 .. 4 -> T] OBVIOUS
<1>5. \A k \in 1 .. 4 : w[k] = << a, b, c, d >>[k] BY <1>1, <1>2
<1>6. w = << a, b, c, d >> BY <1>3, <1>4, <1>5
<1> QED BY <1>6 DEF w, u

(* The messages of a turn in some order: each is there. *)
LEMMA OrderParts ==
  ASSUME NEW S, IsFiniteSet(S)
  PROVE  /\ SetToSeq(S) \in Seq(S)
         /\ \A m \in S : \E i \in 1 .. Len(SetToSeq(S)) : SetToSeq(S)[i] = m
<1> DEFINE n == Cardinality(S)
           s == SetToSeq(S)
<1>1. n \in Nat /\ ExistsBijection(1 .. n, S) BY FS_CardinalityType
<1>2. PICK g : g \in Bijection(1 .. n, S) BY <1>1 DEF ExistsBijection
<1>3. \E f \in [1 .. n -> S] : IsInjective(f)
  BY <1>2 DEF Bijection, Injection, IsInjective
<1>4. s \in [1 .. n -> S] /\ IsInjective(s)
  BY <1>3 DEF SetToSeq
<1>5. s \in Seq(S) /\ Len(s) = n BY <1>1, <1>4
<1>6. s \in Injection(1 .. n, S) BY <1>4 DEF Injection, IsInjective
<1>7. s \in Surjection(1 .. n, S) BY <1>1, <1>6, FS_Interval, FS_Injection
<1> QED BY <1>5, <1>7 DEF Surjection

(* Flush and completion of one message after the other. *)
LEMMA FinalizeAllParts ==
  ASSUME NEW order \in Seq(Nat)
  PROVE  LET ops == FinalizeAll(order)
         IN /\ ops \in Seq(Operation) /\ Len(ops) = 2 * Len(order)
            /\ \A i \in 1 .. Len(order) :
                 /\ ops[2 * i - 1] = [do |-> "flush", message |-> order[i], fallback |-> << >>]
                 /\ ops[2 * i] = [do |-> "complete", message |-> order[i]]
            /\ \A k \in 1 .. Len(ops) : \E i \in 1 .. Len(order) : k \in {2 * i - 1, 2 * i}
<1> DEFINE ops == FinalizeAll(order)
           L == Len(order)
<1>1. L \in Nat OBVIOUS
<1>2. \A k \in 1 .. 2 * L : \E i \in 1 .. L : k \in {2 * i - 1, 2 * i}
  <2> HIDE DEF L
  <2> SUFFICES ASSUME NEW k \in 1 .. 2 * L PROVE \E i \in 1 .. L : k \in {2 * i - 1, 2 * i}
    OBVIOUS
  <2>1. (k + 1) \div 2 \in 1 .. L /\ k \in {2 * ((k + 1) \div 2) - 1, 2 * ((k + 1) \div 2)}
    BY <1>1
  <2> QED BY <2>1
<1>3. ops = [k \in 1 .. 2 * L |->
               Finalize(order[(k + 1) \div 2], << >>)[IF k % 2 = 1 THEN 1 ELSE 2]]
  BY DEF FinalizeAll
<1>4. ASSUME NEW i \in 1 .. L
      PROVE  /\ ops[2 * i - 1] = [do |-> "flush", message |-> order[i], fallback |-> << >>]
             /\ ops[2 * i] = [do |-> "complete", message |-> order[i]]
  <2> HIDE DEF ops, L
  <2>1. 2 * i - 1 \in 1 .. 2 * L /\ 2 * i \in 1 .. 2 * L BY <1>1
  <2>2. ((2 * i - 1) + 1) \div 2 = i /\ (2 * i - 1) % 2 = 1 BY <1>1
  <2>3. (2 * i + 1) \div 2 = i /\ (2 * i) % 2 = 0 BY <1>1
  <2>4. ops[2 * i - 1] = Finalize(order[i], << >>)[1] BY <1>3, <2>1, <2>2
  <2>5. ops[2 * i] = Finalize(order[i], << >>)[2] BY <1>3, <2>1, <2>3
  <2> QED BY <2>4, <2>5 DEF Finalize
<1> HIDE DEF ops
<1>5. ASSUME NEW k \in 1 .. 2 * L PROVE ops[k] \in Operation
  <2>1. PICK i \in 1 .. L : k \in {2 * i - 1, 2 * i} BY <1>2
  <2>2. order[i] \in Nat /\ << >> \in Text BY DEF Text
  <2>3. [do |-> "flush", message |-> order[i], fallback |-> << >>]
           \in [do : {"flush"}, message : Nat, fallback : Text]
    BY <2>2
  <2>4. [do |-> "complete", message |-> order[i]] \in [do : {"complete"}, message : Nat] BY <2>2
  <2> QED BY <1>4, <2>1, <2>3, <2>4, Zenon DEF Operation
<1>6. ops \in Seq(Operation) /\ Len(ops) = 2 * L
  <2> HIDE DEF L
  <2>1. ops \in [1 .. 2 * L -> Operation] BY <1>3, <1>5
  <2> QED BY <1>1, <2>1
<1> QED BY <1>2, <1>4, <1>6 DEF ops

(* The end of a turn: every message that is still open is flushed and      *)
(* completed, and no other; then the turn is forgotten, and its plan told. *)
LEMMA TurnHandlerParts ==
  ASSUME caches \in Caches, NEW turn \in Nat
  PROVE  LET h == TurnHandler(turn)
             n == Len(h)
         IN /\ h \in Seq(Operation) /\ n \in Nat /\ n >= 3
            /\ h[1] = [do |-> "session", status |-> "ready"]
            /\ h[n - 1] = FinishOf(turn) /\ h[n] = UpsertOf(turn)
            /\ \A m \in InTurn(turn) : \E k \in 2 .. n - 3 :
                 h[k] = FlushOf(m) /\ h[k + 1] = CompleteOf(m)
            /\ \A k \in 2 .. n - 2 : \E m \in InTurn(turn) : Sweeping(h, k, m)
<1> DEFINE S == InTurn(turn)
           order == SetToSeq(S)
           L == Len(order)
           first == << [do |-> "session", status |-> "ready"] >>
           mid == FinalizeAll(order)
           last == << FinishOf(turn), UpsertOf(turn) >>
           h == TurnHandler(turn)
<1>1. S \in SUBSET Nat /\ IsFiniteSet(S)
  BY TableParts, FS_EmptySet DEF Caches, InTurn, FiniteSetsOf
<1>2. order \in Seq(S) /\ \A m \in S : \E i \in 1 .. L : order[i] = m
  <2> HIDE DEF S
  <2> QED BY <1>1, OrderParts
<1>3. order \in Seq(Nat) /\ L \in Nat /\ \A i \in 1 .. L : order[i] \in S
  <2> HIDE DEF order, S
  <2>1. L \in Nat /\ order \in [1 .. L -> S] BY <1>2
  <2>2. order \in [1 .. L -> Nat] BY <1>1, <2>1
  <2> QED BY <2>1, <2>2
<1>4. h = (first \o mid) \o last BY DEF TurnHandler, FinishOf, UpsertOf
<1>5. first \in Seq(Operation) /\ Len(first) = 1 BY DEF Operation
<1>6. last \in Seq(Operation) /\ Len(last) = 2 BY DEF PlanPieces, FinishOf, UpsertOf, Operation
<1> HIDE DEF order, S
<1>7. /\ mid \in Seq(Operation) /\ Len(mid) = 2 * L
      /\ \A i \in 1 .. L :
           mid[2 * i - 1] = FlushOf(order[i]) /\ mid[2 * i] = CompleteOf(order[i])
      /\ \A k \in 1 .. Len(mid) : \E i \in 1 .. L : k \in {2 * i - 1, 2 * i}
  BY <1>3, FinalizeAllParts DEF FlushOf, CompleteOf
<1> DEFINE fm == first \o mid
<1> HIDE DEF mid
<1>8. /\ fm \in Seq(Operation) /\ Len(fm) = 2 * L + 1
      /\ fm[1] = first[1] /\ \A k \in 1 .. 2 * L : fm[k + 1] = mid[k]
  <2> HIDE DEF first
  <2>1. /\ fm \in Seq(Operation) /\ Len(fm) = Len(first) + Len(mid)
        /\ \A k \in 1 .. Len(first) : fm[k] = first[k]
        /\ \A k \in 1 .. Len(mid) : fm[Len(first) + k] = mid[k]
    <3>1. first \in Seq(Operation) /\ mid \in Seq(Operation) BY <1>5, <1>7
    <3> QED BY <3>1
  <2>2. \A k \in Nat : 1 + k = k + 1 OBVIOUS
  <2> HIDE DEF fm
  <2> QED BY <1>3, <1>5, <1>7, <2>1, <2>2
<1>9. /\ h \in Seq(Operation) /\ Len(h) = 2 * L + 3
      /\ \A k \in 1 .. 2 * L + 1 : h[k] = fm[k]
      /\ h[2 * L + 2] = last[1] /\ h[2 * L + 3] = last[2]
  <2> HIDE DEF last, fm
  <2>1. /\ fm \o last \in Seq(Operation) /\ Len(fm \o last) = Len(fm) + Len(last)
        /\ \A k \in 1 .. Len(fm) : (fm \o last)[k] = fm[k]
        /\ \A k \in 1 .. Len(last) : (fm \o last)[Len(fm) + k] = last[k]
    <3>1. fm \in Seq(Operation) /\ last \in Seq(Operation) BY <1>6, <1>8
    <3> QED BY <3>1
  <2>2. h = fm \o last BY <1>4 DEF fm
  <2> HIDE DEF h
  <2> QED BY <1>3, <1>6, <1>8, <2>1, <2>2
<1> HIDE DEF h, fm
<1>10. ASSUME NEW m \in S
       PROVE  \E k \in 2 .. Len(h) - 3 : h[k] = FlushOf(m) /\ h[k + 1] = CompleteOf(m)
  <2>1. PICK i \in 1 .. L : order[i] = m BY <1>2
  <2>2. 2 * i - 1 \in 1 .. 2 * L /\ 2 * i \in 1 .. 2 * L /\ 2 * i \in 2 .. Len(h) - 3
    BY <1>3, <1>9
  <2>3. h[2 * i] = mid[2 * i - 1]
    <3>1. 2 * i = (2 * i - 1) + 1 /\ 2 * i \in 1 .. 2 * L + 1 BY <1>3
    <3>2. fm[(2 * i - 1) + 1] = mid[2 * i - 1] BY <1>8, <2>2
    <3> QED BY <1>9, <3>1, <3>2
  <2>4. h[2 * i + 1] = mid[2 * i] BY <1>3, <1>8, <1>9, <2>2
  <2> QED BY <1>7, <2>1, <2>2, <2>3, <2>4
<1>11. ASSUME NEW k \in 2 .. Len(h) - 2 PROVE \E m \in S : Sweeping(h, k, m)
  <2>1. k - 1 \in 1 .. 2 * L /\ k \in 1 .. 2 * L + 1 /\ (k - 1) + 1 = k BY <1>3, <1>9
  <2>2. h[k] = mid[k - 1] BY <1>8, <1>9, <2>1
  <2>3. PICK i \in 1 .. L : k - 1 \in {2 * i - 1, 2 * i} BY <1>7, <2>1
  <2>4. order[i] \in S BY <1>3
  <2>5. CASE k - 1 = 2 * i
    <3>1. /\ 2 * i - 1 \in 1 .. 2 * L /\ (2 * i - 1) + 1 = k - 1 /\ k - 1 \in 1 .. 2 * L + 1
          /\ k > 2
      BY <1>3, <2>1, <2>5
    <3>2. h[k - 1] = mid[2 * i - 1] BY <1>8, <1>9, <3>1
    <3> QED BY <1>7, <2>2, <2>4, <2>5, <3>1, <3>2 DEF Sweeping
  <2>6. CASE k - 1 = 2 * i - 1
    <3>1. 2 * i \in 1 .. 2 * L /\ k + 1 = 2 * i + 1 /\ k + 1 \in 1 .. 2 * L + 1
      BY <1>3, <2>1, <2>6
    <3>2. h[k + 1] = mid[2 * i] BY <1>8, <1>9, <3>1
    <3> QED BY <1>7, <2>2, <2>4, <2>6, <3>2 DEF Sweeping
  <2> QED BY <2>3, <2>5, <2>6
<1>12. h[1] = [do |-> "session", status |-> "ready"] BY <1>3, <1>8, <1>9
<1>13. /\ Len(h) \in Nat /\ Len(h) >= 3
       /\ h[Len(h) - 1] = FinishOf(turn) /\ h[Len(h)] = UpsertOf(turn)
  BY <1>3, <1>9
<1> QED BY <1>9, <1>10, <1>11, <1>12, <1>13 DEF h, S

(* What it does. *)
LEMMA TurnHandlerDoes ==
  ASSUME caches \in Caches, NEW turn \in Nat, NEW i \in DOMAIN TurnHandler(turn)
  PROVE  TurnHandler(turn)[i].do \in {"session", "flush", "complete", "finish", "upsert"}
<1> DEFINE h == TurnHandler(turn)
           n == Len(h)
<1>1. /\ h \in Seq(Operation) /\ n \in Nat /\ n >= 3
      /\ h[1] = [do |-> "session", status |-> "ready"]
      /\ h[n - 1] = FinishOf(turn) /\ h[n] = UpsertOf(turn)
      /\ \A k \in 2 .. n - 2 : \E m \in InTurn(turn) : Sweeping(h, k, m)
  BY TurnHandlerParts
<1>2. i \in 1 .. n BY <1>1
<1> HIDE DEF h, n
<1>3. i = 1 \/ i \in 2 .. n - 2 \/ i = n - 1 \/ i = n BY <1>1, <1>2
<1>4. ASSUME i \in 2 .. n - 2
      PROVE  h[i].do \in {"flush", "complete"}
  <2>1. PICK m : h[i] = FlushOf(m) \/ h[i] = CompleteOf(m) BY <1>1, <1>4 DEF Sweeping
  <2> QED BY <2>1 DEF FlushOf, CompleteOf
<1>5. h[i].do \in {"session", "flush", "complete", "finish", "upsert"}
  BY <1>1, <1>3, <1>4 DEF FinishOf, UpsertOf
<1> QED BY <1>5 DEF h

(* The handlers by the type of the event. *)
LEMMA HandlerIs ==
  ASSUME NEW event \in Event
  PROVE  /\ event.type = "mode" => Handler(event) = << [do |-> "mode", mode |-> event.mode] >>
         /\ event.type = "delta" =>
              Handler(event) =
                << [do |-> IF event.plan THEN "plan" ELSE "delta", turn |-> event.turn,
                    message |-> event.message, chunk |-> event.chunk] >>
         /\ event.type = "item" /\ event.plan =>
              Handler(event) = << [do |-> "upsert", turn |-> event.turn,
                                   fallback |-> WholePlan(event.message, event.chunks)] >>
         /\ event.type = "item" /\ ~event.plan =>
              Handler(event) =
                << [do |-> "remember", turn |-> event.turn, message |-> event.message],
                   [do |-> "flush", message |-> event.message, fallback |-> Whole(event.chunks)],
                   [do |-> "complete", message |-> event.message],
                   [do |-> "forget", turn |-> event.turn, message |-> event.message] >>
         /\ event.type = "turn" => Handler(event) = TurnHandler(event.turn)
         /\ event.type = "started" =>
              Handler(event) = << [do |-> "session", status |-> "ready"] >>
         /\ event.type = "exited" =>
              Handler(event) = << [do |-> "session", status |-> "stopped"], [do |-> "clear"] >>
         /\ event.type = "request" =>
              Handler(event) = << [do |-> "activity", kind |-> "requested",
                                   request |-> event.request] >>
         /\ event.type = "resolved" =>
              Handler(event) = << [do |-> "activity", kind |-> "resolved",
                                   request |-> event.request, decision |-> event.decision] >>
<1>1. CASE event.type \in {"request", "resolved"}
  BY <1>1 DEF Handler, Activities
<1>2. CASE event.type \in {"mode", "delta", "turn", "started", "exited"}
  BY <1>2 DEF Handler
<1>3. CASE event.type = "item"
  <2>1. Handler(event) =
          IF event.plan
          THEN << [do |-> "upsert", turn |-> event.turn,
                   fallback |-> WholePlan(event.message, event.chunks)] >>
          ELSE MessageHandler(event)
    BY <1>3 DEF Handler
  <2> DEFINE r == [do |-> "remember", turn |-> event.turn, message |-> event.message]
             f == [do |-> "flush", message |-> event.message, fallback |-> Whole(event.chunks)]
             c == [do |-> "complete", message |-> event.message]
             g == [do |-> "forget", turn |-> event.turn, message |-> event.message]
  <2>2. MessageHandler(event) = (<< r >> \o << f, c >>) \o << g >>
    BY DEF MessageHandler, Finalize
  <2> HIDE DEF r, f, c, g
  <2>3. (<< r >> \o << f, c >>) \o << g >> = << r, f, c, g >>
    <3> DEFINE T == {r, f, c, g}
    <3>1. r \in T /\ f \in T /\ c \in T /\ g \in T OBVIOUS
    <3> QED BY <3>1, FourParts
  <2>4. MessageHandler(event) = << r, f, c, g >> BY <2>2, <2>3
  <2> QED BY <1>3, <2>1, <2>4 DEF r, f, c, g
<1>4. event.type \in {"mode", "delta", "item", "turn", "started", "exited", "request", "resolved"}
  BY DEF Event, Line
<1> QED BY <1>1, <1>2, <1>3, <1>4

LEMMA HandlerType ==
  ASSUME caches \in Caches, NEW event \in Event
  PROVE  Handler(event) \in Seq(Operation)
<1>1. CASE event \in [type : {"delta"}, plan : BOOLEAN, turn : Nat, message : Nat, chunk : Nat]
  <2> DEFINE op == [do |-> IF event.plan THEN "plan" ELSE "delta", turn |-> event.turn,
                    message |-> event.message, chunk |-> event.chunk]
  <2>1. op \in [do : {"delta", "plan"}, turn : Nat, message : Nat, chunk : Nat] BY <1>1
  <2>2. Handler(event) = << op >> BY <1>1, HandlerIs
  <2> HIDE DEF op
  <2>3. op \in Operation BY <2>1, Zenon DEF Operation
  <2> QED BY <2>2, <2>3
<1>2. CASE event \in [type : {"item"}, plan : BOOLEAN, turn : Nat, message : Nat, chunks : Nat]
  <2>0. event.message \in Nat /\ event.turn \in Nat /\ event.chunks \in Nat BY <1>2
  <2>1. CASE event.plan
    <3> DEFINE op == [do |-> "upsert", turn |-> event.turn,
                      fallback |-> WholePlan(event.message, event.chunks)]
    <3>1. WholePlan(event.message, event.chunks) \in PlanPieces BY <2>0 DEF WholePlan, PlanPieces
    <3>2. op \in [do : {"upsert"}, turn : Nat, fallback : PlanPieces] BY <2>0, <3>1
    <3>3. Handler(event) = << op >> BY <1>2, <2>1, HandlerIs
    <3> HIDE DEF op
    <3>4. op \in Operation BY <3>2, Zenon DEF Operation
    <3> QED BY <3>3, <3>4
  <2>2. CASE ~event.plan
    <3> DEFINE r == [do |-> "remember", turn |-> event.turn, message |-> event.message]
               f == [do |-> "flush", message |-> event.message, fallback |-> Whole(event.chunks)]
               c == [do |-> "complete", message |-> event.message]
               g == [do |-> "forget", turn |-> event.turn, message |-> event.message]
    <3>1. Whole(event.chunks) \in Text BY <2>0 DEF Whole, Text
    <3>2. /\ r \in [do : {"remember", "forget"}, turn : Nat, message : Nat]
          /\ f \in [do : {"flush"}, message : Nat, fallback : Text]
          /\ c \in [do : {"complete"}, message : Nat]
          /\ g \in [do : {"remember", "forget"}, turn : Nat, message : Nat]
      BY <2>0, <3>1
    <3>3. Handler(event) = << r, f, c, g >> BY <1>2, <2>2, HandlerIs
    <3> HIDE DEF r, f, c, g
    <3>4. r \in Operation /\ f \in Operation /\ c \in Operation /\ g \in Operation
      BY <3>2, Zenon DEF Operation
    <3> QED BY <3>3, <3>4
  <2> QED BY <2>1, <2>2
<1>3. CASE event \in [type : {"turn"}, turn : Nat]
  BY <1>3, HandlerIs, TurnHandlerParts
<1>4. ASSUME NEW op \in Operation, Handler(event) = << op >>
      PROVE  Handler(event) \in Seq(Operation)
  BY <1>4
<1>5. CASE event \in [type : {"request"}, request : Nat]
  <2> DEFINE op == [do |-> "activity", kind |-> "requested", request |-> event.request]
  <2>1. op \in [do : {"activity"}, kind : {"requested"}, request : Nat] BY <1>5
  <2>2. Handler(event) = << op >> BY <1>5, HandlerIs
  <2> HIDE DEF op
  <2>3. op \in Operation BY <2>1, Zenon DEF Operation
  <2> QED BY <1>4, <2>2, <2>3
<1>6. CASE event \in [type : {"resolved"}, request : Nat, decision : Decisions]
  <2> DEFINE op == [do |-> "activity", kind |-> "resolved", request |-> event.request,
                    decision |-> event.decision]
  <2>1. op \in [do : {"activity"}, kind : {"resolved"}, request : Nat, decision : Decisions]
    BY <1>6
  <2>2. Handler(event) = << op >> BY <1>6, HandlerIs
  <2> HIDE DEF op
  <2>3. op \in Operation BY <2>1, Zenon DEF Operation
  <2> QED BY <1>4, <2>2, <2>3
<1>7. CASE event \in [type : {"mode"}, mode : Modes]
  <2> DEFINE op == [do |-> "mode", mode |-> event.mode]
  <2>1. op \in [do : {"mode"}, mode : Modes] BY <1>7
  <2>2. Handler(event) = << op >> BY <1>7, HandlerIs
  <2> HIDE DEF op
  <2>3. op \in Operation BY <2>1, Zenon DEF Operation
  <2> QED BY <1>4, <2>2, <2>3
<1>8. CASE event \in [type : {"started", "exited"}]
  <2>1. /\ [do |-> "session", status |-> "ready"] \in [do : {"session"}, status : {"ready", "stopped"}]
        /\ [do |-> "session", status |-> "stopped"] \in [do : {"session"}, status : {"ready", "stopped"}]
        /\ [do |-> "clear"] \in [do : {"clear"}]
    OBVIOUS
  <2>2. /\ [do |-> "session", status |-> "ready"] \in Operation
        /\ [do |-> "session", status |-> "stopped"] \in Operation
        /\ [do |-> "clear"] \in Operation
    BY <2>1, Zenon DEF Operation
  <2>3. CASE event.type = "started" BY <1>4, <2>2, <2>3, HandlerIs
  <2>4. CASE event.type = "exited"
    <3>1. Handler(event) = << [do |-> "session", status |-> "stopped"], [do |-> "clear"] >>
      BY <2>4, HandlerIs
    <3> QED BY <2>2, <3>1
  <2> QED BY <1>8, <2>3, <2>4
<1> QED BY <1>1, <1>2, <1>3, <1>5, <1>6, <1>7, <1>8 DEF Event, Line

-----------------------------------------------------------------------------
(* Every step keeps the shape of the state. *)
LEMMA LineTypes ==
  ASSUME NEW plan \in BOOLEAN, NEW turn \in Nat, NEW m \in Nat, NEW chunk \in Nat, NEW r \in Nat
  PROVE  /\ [type |-> "delta", plan |-> plan, turn |-> turn, message |-> m, chunk |-> chunk]
              \in Line
         /\ [type |-> "item", plan |-> plan, turn |-> turn, message |-> m, chunks |-> chunk]
              \in Line
         /\ [type |-> "turn", turn |-> turn] \in Line
         /\ [type |-> "request", request |-> r] \in Line
<1>1. /\ [type |-> "delta", plan |-> plan, turn |-> turn, message |-> m, chunk |-> chunk]
           \in [type : {"delta"}, plan : BOOLEAN, turn : Nat, message : Nat, chunk : Nat]
      /\ [type |-> "item", plan |-> plan, turn |-> turn, message |-> m, chunks |-> chunk]
           \in [type : {"item"}, plan : BOOLEAN, turn : Nat, message : Nat, chunks : Nat]
      /\ [type |-> "turn", turn |-> turn] \in [type : {"turn"}, turn : Nat]
      /\ [type |-> "request", request |-> r] \in [type : {"request"}, request : Nat]
  OBVIOUS
<1> QED BY <1>1, Zenon DEF Line

LEMMA EventTypes ==
  /\ \A line \in Line : line \in Event
  /\ \A mode \in Modes : [type |-> "mode", mode |-> mode] \in Event
  /\ [type |-> "started"] \in Event /\ [type |-> "exited"] \in Event
  /\ \A r \in Nat, d \in Decisions :
       [type |-> "resolved", request |-> r, decision |-> d] \in Event
<1>1. /\ \A mode \in Modes : [type |-> "mode", mode |-> mode] \in [type : {"mode"}, mode : Modes]
      /\ [type |-> "started"] \in [type : {"started", "exited"}]
      /\ [type |-> "exited"] \in [type : {"started", "exited"}]
      /\ \A r \in Nat, d \in Decisions :
           [type |-> "resolved", request |-> r, decision |-> d]
             \in [type : {"resolved"}, request : Nat, decision : Decisions]
  OBVIOUS
<1> QED BY <1>1, Zenon DEF Event

(* A line is written to the pipe of the running process and to no other. *)
LEMMA WriteParts ==
  ASSUME Shape, NEW line \in Line, Write(line)
  PROVE  /\ pipe' \in Seq(Seq(Line)) /\ Len(pipe') = Len(pipe)
         /\ codex.process \in 1 .. Len(pipe) /\ pipe[codex.process] \in Seq(Line)
         /\ pipe'[codex.process] = Append(pipe[codex.process], line)
         /\ \A p \in 1 .. Len(pipe) : p # codex.process => pipe'[p] = pipe[p]
<1>1. codex.process \in 1 .. Len(pipe) /\ pipe \in Seq(Seq(Line)) BY DEF Shape, Codexes, None
<1>2. pipe[codex.process] \in Seq(Line) BY <1>1
<1>3. Append(pipe[codex.process], line) \in Seq(Line) BY <1>2
<1>4. pipe' = [pipe EXCEPT ![codex.process] = Append(pipe[codex.process], line)] BY DEF Write
<1> QED BY <1>1, <1>2, <1>3, <1>4

LEMMA BumpParts ==
  ASSUME count \in Counts
  PROVE  /\ \A k \in {"others", "answers", "stops", "deaths", "failures"} :
              Bump(k) => /\ count' \in Counts /\ count'.asks = count.asks
                         /\ count'.turns = count.turns
         /\ Bump("turns") => /\ count' \in Counts /\ count'.asks = count.asks
                             /\ count'.turns = count.turns + 1
         /\ Bump("asks") => /\ count' \in Counts /\ count'.asks = count.asks + 1
                            /\ count'.turns = count.turns
<1>1. DOMAIN count = {"turns", "others", "asks", "answers", "stops", "deaths", "failures"}
  BY DEF Counts
<1>2. \A k \in DOMAIN count : Bump(k) => count' = [count EXCEPT ![k] = count[k] + 1] BY DEF Bump
<1>3. \A k \in DOMAIN count : count[k] + 1 \in Nat BY <1>1 DEF Counts
<1>4. \A k \in DOMAIN count, n \in Nat : [count EXCEPT ![k] = n] \in Counts BY <1>1 DEF Counts
<1> QED BY <1>1, <1>2, <1>3, <1>4

LEMMA SayShape ==
  ASSUME Shape, StartTurn \/ OtherTurn \/ Begin \/ Say \/ EndMessage \/ EndTurn \/ Ask \/ Die
  PROVE  Shape'
<1>0. \A mode \in scope.modes : [type |-> "mode", mode |-> mode] \in Event
  BY BoundsAssumption, EventTypes DEF Modes, Shape
<1>a. /\ codex \in Codexes /\ count \in Counts /\ events \in Seq(Event)
      /\ said \in Seq(MessageLog)
      /\ asked \in Seq(Askings)
  BY DEF Shape
<1>b. /\ codex.turn \in Nat /\ codex.process \in Nat /\ codex.message \in Nat
      /\ codex.waiting \in Nat /\ codex.alive \in BOOLEAN
      /\ Len(said) + 1 \in Nat /\ count.turns + 1 \in Nat /\ count.asks + 1 \in Nat
  BY <1>a, SMTT(30) DEF Codexes, Counts
<1>c. /\ \A m \in 1 .. Len(said) :
           /\ said[m] \in MessageLog /\ said[m].plan \in BOOLEAN /\ said[m].chunks \in Nat
           /\ m \in Nat /\ said[m].chunks + 1 \in Nat
           /\ \A n \in Nat : [said[m] EXCEPT !.chunks = n] \in MessageLog
      /\ \A m \in 1 .. Len(said), row \in MessageLog :
           [said EXCEPT ![m] = row] \in Seq(MessageLog) /\ Len([said EXCEPT ![m] = row]) = Len(said)
      /\ 0 \in 0 .. Len(said) /\ 0 \in 0 .. count.turns
      /\ Len(said) + 1 \in 0 .. Len(said) + 1 /\ count.turns + 1 \in 0 .. count.turns + 1
  <2>1. \A m \in 1 .. Len(said) : said[m] \in MessageLog BY <1>a
  <2>2. \A row \in MessageLog : /\ row.plan \in BOOLEAN /\ row.chunks \in Nat
                                /\ row.chunks + 1 \in Nat
                                /\ \A n \in Nat : [row EXCEPT !.chunks = n] \in MessageLog
    BY DEF MessageLog
  <2>3. \A m \in 1 .. Len(said), row \in MessageLog :
          [said EXCEPT ![m] = row] \in Seq(MessageLog) /\ Len([said EXCEPT ![m] = row]) = Len(said)
    BY <1>a
  <2>4. Len(said) \in Nat /\ count.turns \in Nat BY <1>a DEF Counts
  <2>5. \A m \in 1 .. Len(said) : m \in Nat BY <2>4
  <2> QED BY <2>1, <2>2, <2>3, <2>4, <2>5
<1>1. CASE StartTurn
  <2>1. events' \in Seq(Event) BY <1>0, <1>1, <1>a DEF StartTurn
  <2>2. count' \in Counts /\ count'.asks = count.asks /\ count'.turns = count.turns + 1
    BY <1>1, <1>a, BumpParts DEF StartTurn
  <2>3. codex' = [codex EXCEPT !.turn = count.turns + 1] BY <1>1 DEF StartTurn
  <2>4. /\ codex' \in Codexes /\ codex'.process = codex.process
        /\ codex'.message = codex.message /\ codex'.turn \in 0 .. count'.turns
    <3>1. codex'.turn = count'.turns /\ count'.turns \in 0 .. count'.turns BY <1>a, <1>c, <2>2, <2>3 DEF Codexes
    <3> QED BY <1>a, <1>b, <2>3, <3>1 DEF Codexes
  <2> QED BY <1>1, <2>1, <2>2, <2>4 DEF StartTurn, Shape, managerVars, ingestionVars
<1>2. CASE OtherTurn
  <2>1. events' \in Seq(Event) BY <1>0, <1>2, <1>a DEF OtherTurn
  <2>2. count' \in Counts /\ count'.asks = count.asks /\ count'.turns = count.turns
    BY <1>2, <1>a, BumpParts DEF OtherTurn
  <2> QED BY <1>2, <2>1, <2>2 DEF OtherTurn, Shape, codexVars, managerVars, ingestionVars
<1>3. CASE Begin
  <2>1. PICK plan \in scope.plans :
          /\ said' = Append(said, [turn |-> codex.turn, process |-> codex.process,
                                   plan |-> plan, chunks |-> 1])
          /\ Write([type |-> "delta", plan |-> plan, turn |-> codex.turn,
                    message |-> Len(said) + 1, chunk |-> 1])
    BY <1>3 DEF Begin
  <2>2. plan \in BOOLEAN BY BoundsAssumption DEF Shape
  <2>3. [type |-> "delta", plan |-> plan, turn |-> codex.turn, message |-> Len(said) + 1,
         chunk |-> 1] \in Line
    BY <1>b, <2>2, LineTypes
  <2>4. pipe' \in Seq(Seq(Line)) /\ Len(pipe') = Len(pipe) BY <2>1, <2>3, WriteParts
  <2>5. [turn |-> codex.turn, process |-> codex.process, plan |-> plan, chunks |-> 1] \in MessageLog
    BY <1>b, <2>2 DEF MessageLog
  <2>6. said' \in Seq(MessageLog) /\ Len(said') = Len(said) + 1 BY <1>a, <2>1, <2>5
  <2>7. codex' = [codex EXCEPT !.message = Len(said) + 1] BY <1>3 DEF Begin
  <2>8. /\ codex' \in Codexes /\ codex'.process = codex.process
        /\ codex'.message \in 0 .. Len(said') /\ codex'.turn = codex.turn
    <3>1. codex'.message = Len(said') /\ Len(said') \in 0 .. Len(said')
      BY <1>a, <1>c, <2>6, <2>7 DEF Codexes
    <3> QED BY <1>a, <1>b, <2>7, <3>1 DEF Codexes
  <2> QED BY <1>3, <2>4, <2>6, <2>8 DEF Begin, Shape, managerVars, ingestionVars
<1>4. CASE Say
  <2>1. PICK m \in 1 .. Len(said) : m = codex.message BY <1>4, <1>b DEF Say, Shape, None
  <2>2. /\ said' = [said EXCEPT ![m] = [said[m] EXCEPT !.chunks = said[m].chunks + 1]]
        /\ Write([type |-> "delta", plan |-> said[m].plan, turn |-> codex.turn,
                  message |-> m, chunk |-> said[m].chunks + 1])
    BY <1>4, <2>1 DEF Say
  <2>3. /\ said[m] \in MessageLog /\ said[m].plan \in BOOLEAN /\ said[m].chunks + 1 \in Nat
        /\ m \in Nat
    BY <1>c
  <2>4. [type |-> "delta", plan |-> said[m].plan, turn |-> codex.turn, message |-> m,
         chunk |-> said[m].chunks + 1] \in Line
    BY <1>b, <2>3, LineTypes
  <2>5. pipe' \in Seq(Seq(Line)) /\ Len(pipe') = Len(pipe) BY <2>2, <2>4, WriteParts
  <2>6. [said[m] EXCEPT !.chunks = said[m].chunks + 1] \in MessageLog BY <1>c, <2>3
  <2>7. said' \in Seq(MessageLog) /\ Len(said') = Len(said) BY <1>c, <2>2, <2>6
  <2> QED BY <1>4, <2>5, <2>7, SMTT(30) DEF Say, Shape, managerVars, ingestionVars
<1>5. CASE EndMessage
  <2>1. PICK m \in 1 .. Len(said) : m = codex.message BY <1>5, <1>b DEF EndMessage, Shape, None
  <2>2. Write([type |-> "item", plan |-> said[m].plan, turn |-> codex.turn,
               message |-> m, chunks |-> said[m].chunks])
    BY <1>5, <2>1 DEF EndMessage
  <2>3. said[m].plan \in BOOLEAN /\ said[m].chunks \in Nat /\ m \in Nat
    BY <1>c
  <2>4. [type |-> "item", plan |-> said[m].plan, turn |-> codex.turn, message |-> m,
         chunks |-> said[m].chunks] \in Line
    BY <1>b, <2>3, LineTypes
  <2>5. pipe' \in Seq(Seq(Line)) /\ Len(pipe') = Len(pipe) BY <2>2, <2>4, WriteParts
  <2>6. codex' = [codex EXCEPT !.message = None] BY <1>5 DEF EndMessage
  <2>7. /\ codex' \in Codexes /\ codex'.process = codex.process /\ codex'.turn = codex.turn
        /\ codex'.message \in 0 .. Len(said)
    BY <1>a, <1>b, <1>c, <2>6 DEF Codexes, None
  <2> QED BY <1>5, <2>5, <2>7 DEF EndMessage, Shape, managerVars, ingestionVars
<1>6. CASE EndTurn
  <2>1. Write([type |-> "turn", turn |-> codex.turn]) BY <1>6 DEF EndTurn
  <2>2. [type |-> "turn", turn |-> codex.turn] \in Line BY <1>b, LineTypes
  <2>3. pipe' \in Seq(Seq(Line)) /\ Len(pipe') = Len(pipe) BY <2>1, <2>2, WriteParts
  <2>4. codex' = [codex EXCEPT !.turn = None, !.message = None] BY <1>6 DEF EndTurn
  <2>5. /\ codex' \in Codexes /\ codex'.process = codex.process
        /\ codex'.turn \in 0 .. count.turns /\ codex'.message \in 0 .. Len(said)
    BY <1>a, <1>b, <1>c, <2>4 DEF Codexes, None
  <2> QED BY <1>6, <2>3, <2>5 DEF EndTurn, Shape, managerVars, ingestionVars
<1>7. CASE Ask
  <2>1. Write([type |-> "request", request |-> count.asks + 1]) BY <1>7 DEF Ask
  <2>2. [type |-> "request", request |-> count.asks + 1] \in Line BY <1>b, LineTypes
  <2>3. pipe' \in Seq(Seq(Line)) /\ Len(pipe') = Len(pipe) BY <2>1, <2>2, WriteParts
  <2>4. codex' = [codex EXCEPT !.waiting = count.asks + 1] BY <1>7 DEF Ask
  <2>5. /\ codex' \in Codexes /\ codex'.process = codex.process
        /\ codex'.turn = codex.turn /\ codex'.message = codex.message
    BY <1>a, <1>b, <2>4 DEF Codexes
  <2>6. count' \in Counts /\ count'.asks = count.asks + 1 /\ count'.turns = count.turns
    BY <1>7, <1>a, BumpParts DEF Ask
  <2>7. /\ asked' \in Seq(Askings)
        /\ Len(asked') = Len(asked) + 1
    BY <1>a, <1>b, <1>7 DEF Askings, Ask
  <2> QED BY <1>7, <2>3, <2>5, <2>6, <2>7 DEF Ask, Shape, managerVars, ingestionVars
<1>8. CASE Die
  <2>1. codex' = [codex EXCEPT !.alive = FALSE] BY <1>8 DEF Die
  <2>2. /\ codex' \in Codexes /\ codex'.process = codex.process
        /\ codex'.turn = codex.turn /\ codex'.message = codex.message
    BY <1>a, <1>b, <2>1 DEF Codexes
  <2>3. count' \in Counts /\ count'.asks = count.asks /\ count'.turns = count.turns
    BY <1>8, <1>a, BumpParts DEF Die
  <2> QED BY <1>8, <2>2, <2>3 DEF Die, Shape, managerVars, ingestionVars
<1> QED BY <1>1, <1>2, <1>3, <1>4, <1>5, <1>6, <1>7, <1>8

LEMMA ManagerShape ==
  ASSUME Shape, ReadLine \/ Exit
  PROVE  Shape'
<1>a. events \in Seq(Event) /\ pipe \in Seq(Seq(Line)) BY DEF Shape
<1>1. CASE ReadLine
  <2>1. PICK p \in Processes :
          /\ pipe[p] # << >> /\ pipe' = [pipe EXCEPT ![p] = Tail(pipe[p])]
          /\ events' = Append(events, Head(pipe[p])) \/ events' = events
          /\ UNCHANGED << scope, codex, said, asked, session, ingestionVars, thread, intents, count >>
    BY <1>1 DEF ReadLine, Emit
  <2>2. p \in 1 .. Len(pipe) /\ pipe[p] \in Seq(Line) BY <1>a DEF Processes
  <2>3. Head(pipe[p]) \in Line /\ Tail(pipe[p]) \in Seq(Line) BY <2>1, <2>2, TailParts
  <2>4. pipe' \in Seq(Seq(Line)) /\ Len(pipe') = Len(pipe) BY <1>a, <2>1, <2>2, <2>3
  <2>5. Head(pipe[p]) \in Event BY <2>3, EventTypes
  <2>6. events' \in Seq(Event)
    <3>1. \A e \in Event : Append(events, e) \in Seq(Event) BY <1>a
    <3> QED BY <1>a, <2>1, <2>5, <3>1
  <2> QED BY <2>1, <2>4, <2>6 DEF Shape, ingestionVars
<1>2. CASE Exit
  <2>1. events' \in Seq(Event) BY <1>a, <1>2, EventTypes DEF Exit, Emit
  <2> QED BY <1>2, <2>1 DEF Exit, Shape, codexVars, ingestionVars, None
<1> QED BY <1>1, <1>2

LEMMA IngestionShape ==
  ASSUME Shape, Take \/ Perform \/ DispatchFails
  PROVE  Shape'
<1>a. /\ events \in Seq(Event) /\ todo \in Seq(Operation) /\ caches \in Caches /\ thread \in Threads
      /\ count \in Counts /\ finished \subseteq Nat
  BY DEF Shape
<1>1. CASE Take BY <1>a, <1>1, TailParts, HandlerType DEF Take, Shape, codexVars, managerVars
<1>2. ASSUME todo # << >>
      PROVE  /\ Head(todo) \in Operation /\ Tail(todo) \in Seq(Operation)
             /\ Memory(Head(todo)) \in Caches /\ Dispatched(Head(todo)) \in Threads
  <2>1. Head(todo) \in Operation /\ Tail(todo) \in Seq(Operation) BY <1>a, <1>2, TailParts
  <2> QED BY <1>a, <2>1, MemoryType, DispatchedType
<1>3. CASE Perform
  <2>1. Head(todo).do = "finish" => Head(todo).turn \in Nat
    BY <1>2, <1>3 DEF Perform, Operation
  <2>2. finished' \subseteq Nat BY <1>a, <1>3, <2>1 DEF Perform
  <2> QED BY <1>2, <1>3, <2>2 DEF Perform, Shape, codexVars, managerVars
<1>4. CASE DispatchFails
  BY <1>a, <1>2, <1>4, BumpParts DEF DispatchFails, Shape, codexVars, managerVars
<1> QED BY <1>1, <1>3, <1>4

LEMMA IntentTypes ==
  /\ [do |-> "stop"] \in Intent
  /\ \A r \in Nat, d \in Decisions : [do |-> "answer", request |-> r, decision |-> d] \in Intent
<1>1. /\ [do |-> "stop"] \in [do : {"stop"}]
      /\ \A r \in Nat, d \in Decisions :
           [do |-> "answer", request |-> r, decision |-> d]
             \in [do : {"answer"}, request : Nat, decision : Decisions]
  OBVIOUS
<1> QED BY <1>1, Zenon DEF Intent

LEMMA UserShape ==
  ASSUME Shape, Respond \/ RequestStop
  PROVE  Shape'
<1>a. intents \in Seq(Intent) /\ count \in Counts
      /\ asked \in Seq(Askings)
  BY DEF Shape
<1>b. count' \in Counts /\ count'.asks = count.asks /\ count'.turns = count.turns
  BY <1>a, BumpParts DEF Respond, RequestStop
<1>1. intents' \in Seq(Intent)
  <2>1. CASE Respond BY <1>a, <2>1, IntentTypes DEF Respond
  <2>2. CASE RequestStop BY <1>a, <2>2, IntentTypes DEF RequestStop
  <2> QED BY <2>1, <2>2
<1> QED BY <1>1, <1>b DEF Respond, RequestStop, Shape, codexVars, managerVars, ingestionVars

(* Every way the reactor answers leaves an activity or an event behind. *)
LEMMA FailedType ==
  ASSUME thread \in Threads, NEW r \in Nat,
         NEW why \in {"no session", "unknown approval request", "cannot recover", "cannot write"},
         Failed(r, why)
  PROVE  /\ thread' \in Threads
         /\ thread'.activities = Append(thread.activities,
                                        [kind |-> "failed", request |-> r, why |-> why])
         /\ thread'.messages = thread.messages /\ thread'.plans = thread.plans
<1> DEFINE row == [kind |-> "failed", request |-> r, why |-> why]
<1>1. row \in [kind : {"failed"}, request : Nat,
               why : {"no session", "unknown approval request", "cannot recover", "cannot write"}]
  OBVIOUS
<1>2. thread' = [thread EXCEPT !.activities = Append(thread.activities, row)] BY DEF Failed
<1> HIDE DEF row
<1>3. row \in ActivityRow BY <1>1, Zenon DEF ActivityRow
<1>4. thread.activities \in Seq(ActivityRow) BY DEF Threads
<1>5. Append(thread.activities, row) \in Seq(ActivityRow) BY <1>3, <1>4, AppendParts
<1>6. thread' \in Threads BY <1>2, <1>5 DEF Threads
<1> QED BY <1>2, <1>6 DEF Threads, row

LEMMA AnswerShape ==
  ASSUME Shape, TakeAnswer
  PROVE  Shape'
<1>a. /\ intents \in Seq(Intent) /\ thread \in Threads /\ events \in Seq(Event)
      /\ codex \in Codexes /\ pipe \in Seq(Seq(Line)) /\ intents # << >>
      /\ asked \in Seq(Askings)
  BY DEF Shape, TakeAnswer
<1>1. Head(intents) \in Intent /\ Tail(intents) \in Seq(Intent) /\ Head(intents).do = "answer"
  BY <1>a, TailParts DEF TakeAnswer
<1> DEFINE r == Head(intents).request
           d == Head(intents).decision
<1>2. r \in Nat /\ d \in Decisions BY <1>1 DEF Intent
<1> HIDE DEF r, d
<1>3. /\ intents' = Tail(intents) /\ UNCHANGED << scope, ingestionVars, count >>
      /\ \/ NoSession(r) \/ Recovered(r) \/ Refused(r) \/ CannotWrite(r)
         \/ RespondToRequest(r, d)
  BY DEF TakeAnswer, r, d
<1>4. CASE NoSession(r) \/ Refused(r) \/ CannotWrite(r)
           \/ (Failed(r, "cannot recover") /\ UNCHANGED << codexVars, managerVars, events >>)
  <2>1. thread' \in Threads BY <1>2, <1>4, <1>a, FailedType DEF NoSession, Refused, CannotWrite
  <2>2. UNCHANGED << codexVars, session, events >>
    BY <1>4 DEF NoSession, Refused, CannotWrite, managerVars
  <2> QED BY <1>1, <1>3, <2>1, <2>2 DEF Shape, codexVars, ingestionVars
<1>5. CASE Resume /\ Failed(r, "unknown approval request")
  <2>1. thread' \in Threads BY <1>2, <1>5, <1>a, FailedType
  <2>2. pipe' \in Seq(Seq(Line)) /\ Len(pipe') = Len(pipe) + 1 /\ Len(pipe) \in Nat
    <3>1. << >> \in Seq(Line) OBVIOUS
    <3>2. pipe' = Append(pipe, << >>) BY <1>5 DEF Resume
    <3>3. Len(pipe) \in Nat BY <1>a
    <3> QED BY <1>a, <3>1, <3>2, <3>3, AppendParts
  <2>3. /\ codex' \in Codexes /\ codex'.process = Len(pipe') /\ codex'.process # None
        /\ codex'.message = 0 /\ codex'.turn = 0 /\ session' = codex'.process
    <3>1. /\ codex' = [process |-> Len(pipe) + 1, alive |-> TRUE, turn |-> 0, message |-> 0,
                       waiting |-> 0]
          /\ session' = Len(pipe) + 1
      BY <1>5 DEF Resume, NewProcess, None
    <3>2. Len(pipe) + 1 \in Nat /\ Len(pipe) + 1 # 0 BY <2>2
    <3> QED BY <2>2, <3>1, <3>2 DEF Codexes, None
  <2>4. events' \in Seq(Event) BY <1>a, <1>5, EventTypes, AppendParts DEF Resume, Emit
  <2>5. 0 \in 0 .. Len(said) /\ 0 \in 0 .. count.turns BY DEF Shape, Counts
  <2>6. UNCHANGED << said, asked >> BY <1>5 DEF Resume
  <2> QED BY <1>1, <1>3, <2>1, <2>2, <2>3, <2>4, <2>5, <2>6 DEF Shape, ingestionVars
<1>6. CASE RespondToRequest(r, d)
  <2>1. events' \in Seq(Event) BY <1>2, <1>6, <1>a, EventTypes DEF RespondToRequest, Emit
  <2>2. UNCHANGED << said, pipe, session, thread >> BY <1>6 DEF RespondToRequest
  <2>3. /\ codex' \in Codexes /\ codex'.process = codex.process
        /\ codex'.message = codex.message /\ codex'.turn = codex.turn
    <3>1. codex' = codex \/ codex' = [codex EXCEPT !.waiting = IF @ = r THEN None ELSE @]
      BY <1>6 DEF RespondToRequest
    <3>2. codex.waiting \in Nat BY <1>a DEF Codexes
    <3>3. codex' = codex \/ \E w \in Nat : codex' = [codex EXCEPT !.waiting = w]
      BY <3>1, <3>2 DEF None
    <3> QED BY <1>a, <3>3 DEF Codexes
  <2>4. /\ asked' \in Seq(Askings)
        /\ Len(asked') = Len(asked)
    <3>1. CASE asked' = asked BY <1>a, <3>1
    <3>2. CASE asked' # asked
      <4>1. asked' = [asked EXCEPT ![r].answers = Append(@, d)] BY <1>6, <3>2 DEF RespondToRequest
      <4>2. r \in DOMAIN asked BY <4>1, <3>2, <1>a
      <4>3. r \in 1 .. Len(asked) BY <1>a, <4>2
      <4>4. asked[r] \in Askings BY <1>a, <4>3
      <4>5. asked[r].answers \in Seq(Decisions) BY <4>4 DEF Askings
      <4>6. Append(asked[r].answers, d) \in Seq(Decisions) BY <1>2, <4>5, AppendParts
      <4>7. [asked[r] EXCEPT !.answers = Append(asked[r].answers, d)] \in Askings
        BY <4>4, <4>6 DEF Askings
      <4>8. asked' = [asked EXCEPT ![r] = [asked[r] EXCEPT !.answers = Append(asked[r].answers, d)]]
        BY <4>1
      <4> QED BY <1>a, <4>3, <4>7, <4>8, ReplaceParts
    <3> QED BY <3>1, <3>2
  <2> QED BY <1>1, <1>3, <2>1, <2>2, <2>3, <2>4 DEF Shape, ingestionVars
<1> QED BY <1>3, <1>4, <1>5, <1>6 DEF Recovered

LEMMA StopShape ==
  ASSUME Shape, TakeStop
  PROVE  Shape'
<1>a. /\ intents \in Seq(Intent) /\ thread \in Threads /\ events \in Seq(Event)
      /\ codex \in Codexes /\ pipe \in Seq(Seq(Line)) /\ intents # << >>
  BY DEF Shape, TakeStop
<1>1. Tail(intents) \in Seq(Intent) /\ intents' = Tail(intents) BY <1>a, TailParts DEF TakeStop
<1>2. thread' \in Threads BY <1>a DEF TakeStop, Threads
<1>3. UNCHANGED << scope, ingestionVars, count >> BY DEF TakeStop
<1>4. CASE session # None /\ StopSession
  <2>1. events' \in Seq(Event) BY <1>a, <1>4, EventTypes DEF StopSession, Emit
  <2>2. codex' \in Codexes /\ codex'.process = codex.process /\ codex'.turn = codex.turn
        /\ codex'.message = codex.message
    BY <1>a, <1>4 DEF StopSession, Codexes
  <2>3. pipe' \in Seq(Seq(Line)) /\ Len(pipe') = Len(pipe)
    BY <1>a, <1>4, ReplaceParts DEF StopSession, Shape, None, Codexes
  <2> QED BY <1>1, <1>2, <1>3, <1>4, <2>1, <2>2, <2>3 DEF StopSession, Shape, ingestionVars
<1>5. CASE UNCHANGED << codexVars, managerVars, events >>
  BY <1>1, <1>2, <1>3, <1>5 DEF Shape, codexVars, managerVars, ingestionVars
<1> QED BY <1>4, <1>5 DEF TakeStop

LEMMA ShapeStep ==
  ASSUME Shape, [Next]_vars
  PROVE  Shape'
<1>1. CASE UNCHANGED vars
  BY <1>1 DEF Shape, vars, codexVars, managerVars, ingestionVars
<1> QED
  BY <1>1, SayShape, ManagerShape, IngestionShape, UserShape, AnswerShape, StopShape
  DEF Next, Codex, Manager, Ingestion, User, Reactor

LEMMA ShapeInit ==
  ASSUME Init
  PROVE  Shape
<1>1. << >> \in Table(Nat, Text) /\ << >> \in Table(Nat, FiniteSetsOf(Nat))
      /\ << >> \in Table(Nat, PlanPieces) /\ << >> \in Table(Nat, MessageRow)
  BY EmptyTable
<1>2. caches \in Caches BY <1>1 DEF Init, Caches, Modes
<1>3. thread \in Threads BY <1>1 DEF Init, Threads, MessageRow
<1>4. count \in Counts /\ count.asks = 0 /\ count.turns = 0 BY DEF Init, Counts
<1>5. codex \in Codexes /\ codex.process = 1 /\ codex.message = 0 /\ codex.turn = 0
  BY DEF Init, Codexes, NewProcess, None
<1>6. pipe \in Seq(Seq(Line)) /\ Len(pipe) = 1 BY DEF Init
<1> QED BY <1>2, <1>3, <1>4, <1>5, <1>6 DEF Init, Shape, None

-----------------------------------------------------------------------------
LEMMA AnswersKept ==
  ASSUME Shape, Answers, PlacesKept, PipesKept, pending' \subseteq pending,
         Processes \subseteq Processes', DOMAIN asked' \subseteq Nat,
         \A r \in DOMAIN asked : r \in DOMAIN asked' /\ asked'[r] = asked[r],
         \A r \in DOMAIN asked' \ DOMAIN asked :
           asked'[r].process \in Processes' /\ asked'[r].answers = << >>,
         \/ codex'.process = codex.process /\ (codex'.alive => codex.alive)
         \/ codex'.process \notin Processes
  PROVE  Answers'
<1>1. \A r \in Nat : (Untold(r) => Untold(r)') /\ ToldOnce(r)'
  BY DEF PlacesKept, Answers, Untold, ToldOnce, One
<1>2. \A r \in Nat : \A d : Outcome(r, d) => Outcome(r, d)'
  BY DEF Answers, Outcome
<1>3. Outcomes'
  BY <1>2 DEF Outcomes, Answers, PlacesKept
<1>4. \A r \in Nat : Unanswered(r) => Unanswered(r)' /\ asked'[r].process = asked[r].process
  BY <1>1 DEF Unanswered
<1>5. \A r \in Nat : r \notin DOMAIN asked => Untold(r) BY DEF Outcome, Untold, Answers, Outcomes
<1>6. \A r \in DOMAIN asked' : asked'[r].process \in Processes' /\ Len(asked'[r].answers) <= 1
  BY DEF Answers
<1>7. PendingOnce'
  BY <1>4 DEF PendingOnce, Answers
<1>8. UnreadOnce'
  <2> SUFFICES ASSUME NEW p \in Processes', NEW k \in DOMAIN pipe'[p], NEW r \in Nat,
                      AskedOf(p, k, r)'
               PROVE  /\ Unanswered(r)' /\ asked'[r].process = p /\ << p, r >> \notin pending'
                      /\ \A j \in DOMAIN pipe'[p] : AskedOf(p, j, r)' => j = k
    BY Zenon DEF UnreadOnce
  <2>1. CASE p \in Processes /\ pipe'[p] = pipe[p] BY <1>4, <2>1 DEF AskedOf, Answers, UnreadOnce
  <2>2. ASSUME p \in Processes,
               NEW n,
               DOMAIN pipe'[p] = DOMAIN pipe[p] \cup {n},
               \A j \in DOMAIN pipe[p] : pipe'[p][j] = pipe[p][j] /\ j # n,
               \A q \in Nat : AskedOf(p, n, q)' =>
                 q \notin DOMAIN asked /\ q \in DOMAIN asked' /\ asked'[q].process = p
        PROVE  /\ Unanswered(r)' /\ asked'[r].process = p /\ << p, r >> \notin pending'
               /\ \A j \in DOMAIN pipe'[p] : AskedOf(p, j, r)' => j = k
    <3>0. \A j \in DOMAIN pipe[p] : AskedOf(p, j, r)' => AskedOf(p, j, r) BY <2>2 DEF AskedOf
    <3>1. \A j \in DOMAIN pipe[p] : AskedOf(p, j, r) => r \in DOMAIN asked
      BY <2>2 DEF Answers, UnreadOnce, Unanswered
    <3>2. CASE k \in DOMAIN pipe[p]
      <4>1. \A j \in DOMAIN pipe'[p] : AskedOf(p, j, r)' => j \in DOMAIN pipe[p]
        BY <2>2, <3>0, <3>1, <3>2
      <4>2. AskedOf(p, k, r) BY <3>0, <3>2
      <4> QED BY <1>4, <2>2, <3>0, <3>2, <4>1, <4>2 DEF Answers, UnreadOnce
    <3>3. CASE k = n
      <4>1. r \notin DOMAIN asked /\ r \in DOMAIN asked' /\ asked'[r].process = p BY <2>2, <3>3
      <4>2. \A j \in DOMAIN pipe'[p] : AskedOf(p, j, r)' => j = k
        BY <2>2, <3>0, <3>1, <3>3, <4>1
      <4>3. << p, r >> \notin pending BY <4>1 DEF Answers, PendingOnce, Unanswered
      <4>4. Untold(r)' BY <1>1, <1>5, <4>1
      <4> QED BY <4>1, <4>2, <4>3, <4>4 DEF Unanswered
    <3> QED BY <2>2, <3>2, <3>3
  <2> QED BY <2>1, <2>2, Zenon DEF PipesKept
<1> QED BY <1>1, <1>3, <1>6, <1>7, <1>8 DEF Answers

(* A step of the ingestion: what tells the thread of an answer moves on.   *)
LEMMA AnswersMove ==
  ASSUME Shape, Answers, UNCHANGED << codexVars, managerVars >>, Outcomes',
         \A r \in Nat : (Untold(r) => Untold(r)') /\ ToldOnce(r)'
  PROVE  Answers'
<1>1. \A r \in Nat : Unanswered(r) => Unanswered(r)' BY DEF Unanswered, codexVars
<1>2. PendingOnce' BY <1>1 DEF PendingOnce, Answers, codexVars, managerVars
<1>3. UnreadOnce'
  BY <1>1 DEF UnreadOnce, Answers, codexVars, managerVars, AskedOf, Processes
<1> QED BY <1>2, <1>3 DEF Answers, codexVars, Processes

LEMMA KeptResolved ==
  ASSUME Shape, NEW r \in Nat,
         \/ thread'.activities = thread.activities
         \/ \E row \in ActivityRow :
              row.kind # "resolved" /\ thread'.activities = Append(thread.activities, row)
  PROVE  /\ Resolved(r)' = Resolved(r)
         /\ \A i \in Resolved(r) : thread'.activities[i].decision = thread.activities[i].decision
<1>1. CASE thread'.activities = thread.activities BY <1>1 DEF Resolved
<1>2. ASSUME NEW row \in ActivityRow, row.kind # "resolved",
             thread'.activities = Append(thread.activities, row)
      PROVE  /\ Resolved(r)' = Resolved(r)
             /\ \A i \in Resolved(r) :
                  thread'.activities[i].decision = thread.activities[i].decision
  <2> DEFINE a == thread.activities
             b == thread'.activities
  <2>1. a \in Seq(ActivityRow) BY DEF Shape, Threads
  <2>2. b = Append(a, row) BY <1>2
  <2>3. Resolved(r) = {i \in DOMAIN a : a[i].kind = "resolved" /\ a[i].request = r}
    BY DEF Resolved
  <2>4. Resolved(r)' = {i \in DOMAIN b : b[i].kind = "resolved" /\ b[i].request = r}
    BY DEF Resolved
  <2> HIDE DEF a, b
  <2>5. /\ DOMAIN b = DOMAIN a \cup {Len(a) + 1}
        /\ b[Len(a) + 1] = row /\ \A k \in DOMAIN a : b[k] = a[k]
    BY <2>1, <2>2
  <2>6. Resolved(r)' = Resolved(r) /\ \A i \in Resolved(r) : b[i].decision = a[i].decision
    BY <1>2, <2>3, <2>4, <2>5
  <2> QED BY <2>6 DEF a, b
<1> QED BY <1>1, <1>2

LEMMA KeptPlaces ==
  ASSUME Shape, todo' = todo,
         events' = events \/ \E e \in Event : e.type # "resolved" /\ events' = Append(events, e),
         \/ thread'.activities = thread.activities
         \/ \E row \in ActivityRow :
              row.kind # "resolved" /\ thread'.activities = Append(thread.activities, row)
  PROVE  PlacesKept
<1> SUFFICES ASSUME NEW r \in Nat
             PROVE  /\ EventPlaces(r)' = EventPlaces(r) /\ TodoPlaces(r)' = TodoPlaces(r)
                    /\ Resolved(r)' = Resolved(r)
                    /\ \A i \in EventPlaces(r) : events'[i].decision = events[i].decision
                    /\ \A i \in TodoPlaces(r) : todo'[i].decision = todo[i].decision
                    /\ \A i \in Resolved(r) :
                         thread'.activities[i].decision = thread.activities[i].decision
  BY DEF PlacesKept
<1>1. TodoPlaces(r)' = TodoPlaces(r) BY DEF TodoPlaces
<1>2. /\ EventPlaces(r)' = EventPlaces(r)
      /\ \A i \in EventPlaces(r) : events'[i].decision = events[i].decision
  <2>1. CASE events' = events BY <2>1 DEF EventPlaces
  <2>2. ASSUME NEW e \in Event, e.type # "resolved", events' = Append(events, e)
        PROVE  /\ EventPlaces(r)' = EventPlaces(r)
               /\ \A i \in EventPlaces(r) : events'[i].decision = events[i].decision
    <3>1. events \in Seq(Event) BY DEF Shape
    <3>2. /\ DOMAIN events' = DOMAIN events \cup {Len(events) + 1}
          /\ events'[Len(events) + 1] = e /\ \A k \in DOMAIN events : events'[k] = events[k]
      BY <2>2, <3>1
    <3> QED BY <2>2, <3>2 DEF EventPlaces
  <2> QED BY <2>1, <2>2
<1>3. /\ Resolved(r)' = Resolved(r)
      /\ \A i \in Resolved(r) : thread'.activities[i].decision = thread.activities[i].decision
  BY KeptResolved
<1> QED BY <1>1, <1>2, <1>3

LEMMA KeptPipes ==
  ASSUME Shape, NEW line \in Line, Write(line),
         line.type = "request" =>
           /\ line.request \notin DOMAIN asked /\ line.request \in DOMAIN asked'
           /\ asked'[line.request].process = codex.process
  PROVE  PipesKept /\ Processes' = Processes
<1>1. /\ pipe' \in Seq(Seq(Line)) /\ Len(pipe') = Len(pipe)
      /\ codex.process \in 1 .. Len(pipe) /\ pipe[codex.process] \in Seq(Line)
      /\ pipe'[codex.process] = Append(pipe[codex.process], line)
      /\ \A p \in 1 .. Len(pipe) : p # codex.process => pipe'[p] = pipe[p]
  BY WriteParts
<1>2. Processes' = Processes BY <1>1 DEF Processes
<1>3. PICK c \in Processes : c = codex.process BY <1>1 DEF Processes
<1>4. PICK n : n = Len(pipe[c]) + 1 OBVIOUS
<1>5. /\ DOMAIN pipe'[c] = DOMAIN pipe[c] \cup {n} /\ pipe'[c][n] = line
      /\ \A k \in DOMAIN pipe[c] : pipe'[c][k] = pipe[c][k] /\ k # n
  <2> DEFINE old == pipe[c]
  <2>1. old \in Seq(Line) /\ pipe'[c] = Append(old, line) /\ n = Len(old) + 1
    BY <1>1, <1>3, <1>4
  <2> HIDE DEF old
  <2>2. /\ DOMAIN pipe'[c] = DOMAIN old \cup {n} /\ pipe'[c][n] = line
        /\ \A k \in DOMAIN old : pipe'[c][k] = old[k] /\ k # n
    BY <2>1
  <2> QED BY <2>2 DEF old
<1>6. \A r \in Nat : AskedOf(c, n, r)' =>
        r \notin DOMAIN asked /\ r \in DOMAIN asked' /\ asked'[r].process = c
  BY <1>3, <1>5 DEF AskedOf
<1>7. \A p \in Processes' : p # c => p \in Processes /\ pipe'[p] = pipe[p]
  BY <1>1, <1>2, <1>3 DEF Processes
<1>8. PipesKept
  <2> SUFFICES ASSUME NEW p \in Processes'
               PROVE  \/ p \in Processes /\ pipe'[p] = pipe[p]
                      \/ /\ p \in Processes
                         /\ \E x : /\ DOMAIN pipe'[p] = DOMAIN pipe[p] \cup {x}
                                   /\ \A k \in DOMAIN pipe[p] : pipe'[p][k] = pipe[p][k] /\ k # x
                                   /\ \A r \in Nat : AskedOf(p, x, r)' =>
                                        /\ r \notin DOMAIN asked /\ r \in DOMAIN asked'
                                        /\ asked'[r].process = p
    BY Zenon DEF PipesKept
  <2>1. CASE p # c BY <1>7, <2>1
  <2>2. CASE p = c BY <1>5, <1>6, <2>2, Zenon
  <2> QED BY <2>1, <2>2
<1> QED BY <1>2, <1>8

LEMMA SamePipes ==
  ASSUME pipe' = pipe
  PROVE  PipesKept /\ Processes' = Processes
BY DEF PipesKept, Processes

LEMMA SayAnswers ==
  ASSUME Shape, Answers,
         StartTurn \/ OtherTurn \/ Begin \/ Say \/ EndMessage \/ EndTurn \/ Ask \/ Die
  PROVE  Answers'
<1>a. /\ codex \in Codexes /\ count \in Counts /\ said \in Seq(MessageLog)
      /\ asked \in Seq(Askings) /\ Len(asked) = count.asks
  BY DEF Shape
<1>b. /\ codex.turn \in Nat /\ codex.process \in Nat /\ codex.message \in Nat
      /\ Len(said) + 1 \in Nat /\ count.asks + 1 \in Nat /\ DOMAIN asked \subseteq Nat
  BY <1>a DEF Codexes, Counts
<1>c. /\ todo' = todo /\ thread' = thread /\ pending' = pending
  BY DEF StartTurn, OtherTurn, Begin, Say, EndMessage, EndTurn, Ask, Die, codexVars,
         managerVars, ingestionVars
<1>d. codex'.process = codex.process /\ (codex'.alive => codex.alive)
  BY <1>a DEF StartTurn, OtherTurn, Begin, Say, EndMessage, EndTurn, Ask, Die, codexVars, Codexes
<1>1. CASE StartTurn \/ OtherTurn
  <2>1. PICK mode \in scope.modes : events' = Append(events, [type |-> "mode", mode |-> mode])
    BY <1>1 DEF StartTurn, OtherTurn
  <2>2. mode \in Modes BY BoundsAssumption DEF Modes, Shape
  <2>3. [type |-> "mode", mode |-> mode] \in Event BY <2>2, EventTypes
  <2>4. PlacesKept BY <1>c, <2>1, <2>3, KeptPlaces
  <2>5. pipe' = pipe /\ asked' = asked BY <1>1 DEF StartTurn, OtherTurn, codexVars
  <2> QED BY <1>b, <1>c, <1>d, <2>4, <2>5, SamePipes, AnswersKept
<1>2. ASSUME NEW line \in Line, Write(line), line.type # "request", events' = events, asked' = asked
      PROVE  Answers'
  <2>1. PlacesKept BY <1>2, <1>c, KeptPlaces
  <2>2. PipesKept /\ Processes' = Processes BY <1>2, KeptPipes
  <2> QED BY <1>2, <1>b, <1>c, <1>d, <2>1, <2>2, AnswersKept
<1>3. CASE Begin
  <2>1. PICK plan \in scope.plans :
          Write([type |-> "delta", plan |-> plan, turn |-> codex.turn,
                 message |-> Len(said) + 1, chunk |-> 1])
    BY <1>3 DEF Begin
  <2>2. plan \in BOOLEAN BY BoundsAssumption DEF Shape
  <2>3. [type |-> "delta", plan |-> plan, turn |-> codex.turn, message |-> Len(said) + 1,
         chunk |-> 1] \in Line
    BY <1>b, <2>2, LineTypes
  <2> QED BY <1>2, <1>3, <2>1, <2>3 DEF Begin
<1>4. ASSUME NEW m \in 1 .. Len(said)
      PROVE  said[m].plan \in BOOLEAN /\ said[m].chunks \in Nat /\ m \in Nat
             /\ said[m].chunks + 1 \in Nat
  <2>1. said[m] \in MessageLog BY <1>a
  <2> QED BY <2>1 DEF MessageLog
<1>5. CASE Say
  <2>1. PICK m \in 1 .. Len(said) : m = codex.message BY <1>5, <1>b DEF Say, Shape, None
  <2>2. Write([type |-> "delta", plan |-> said[m].plan, turn |-> codex.turn,
               message |-> m, chunk |-> said[m].chunks + 1])
    BY <1>5, <2>1 DEF Say
  <2>3. [type |-> "delta", plan |-> said[m].plan, turn |-> codex.turn, message |-> m,
         chunk |-> said[m].chunks + 1] \in Line
    BY <1>b, <1>4, LineTypes
  <2> QED BY <1>2, <1>5, <2>2, <2>3 DEF Say
<1>6. CASE EndMessage
  <2>1. PICK m \in 1 .. Len(said) : m = codex.message BY <1>6, <1>b DEF EndMessage, Shape, None
  <2>2. Write([type |-> "item", plan |-> said[m].plan, turn |-> codex.turn,
               message |-> m, chunks |-> said[m].chunks])
    BY <1>6, <2>1 DEF EndMessage
  <2>3. [type |-> "item", plan |-> said[m].plan, turn |-> codex.turn, message |-> m,
         chunks |-> said[m].chunks] \in Line
    BY <1>b, <1>4, LineTypes
  <2> QED BY <1>2, <1>6, <2>2, <2>3 DEF EndMessage
<1>7. CASE EndTurn BY <1>b, <1>2, <1>7, LineTypes DEF EndTurn
<1>8. CASE Ask
  <2> DEFINE n == count.asks + 1
             row == [process |-> codex.process, answers |-> << >>]
  <2>1. Write([type |-> "request", request |-> n]) BY <1>8 DEF Ask
  <2>2. [type |-> "request", request |-> n] \in Line BY <1>b, LineTypes
  <2>3. asked' = Append(asked, row) /\ row \in Askings /\ n = Len(asked) + 1
    BY <1>8, <1>a, <1>b DEF Ask, Askings
  <2>4. row.process = codex.process /\ row.answers = << >> OBVIOUS
  <2> HIDE DEF n, row
  <2>5. /\ DOMAIN asked' = DOMAIN asked \cup {n} /\ n \notin DOMAIN asked /\ asked'[n] = row
        /\ n \in Nat /\ \A r \in DOMAIN asked : asked'[r] = asked[r]
    BY <1>a, <1>b, <2>3
  <2>6. PipesKept /\ Processes' = Processes BY <2>1, <2>2, <2>4, <2>5, KeptPipes
  <2>7. codex.process \in Processes BY <1>b DEF Shape, Processes, None
  <2>8. PlacesKept BY <1>8, <1>c, KeptPlaces DEF Ask
  <2> QED BY <1>b, <1>c, <1>d, <2>4, <2>5, <2>6, <2>7, <2>8, AnswersKept
<1>9. CASE Die
  <2>1. events' = events /\ pipe' = pipe /\ asked' = asked BY <1>9 DEF Die
  <2>2. PlacesKept BY <1>c, <2>1, KeptPlaces
  <2> QED BY <1>b, <1>c, <1>d, <2>1, <2>2, SamePipes, AnswersKept
<1> QED BY <1>1, <1>3, <1>5, <1>6, <1>7, <1>8, <1>9

(* A request that is read is pending from then on. *)
LEMMA ReadAnswers ==
  ASSUME Shape, Answers, ReadLine
  PROVE  Answers'
<1>a. pipe \in Seq(Seq(Line)) BY DEF Shape
<1>1. PICK p \in Processes :
        /\ pipe[p] # << >> /\ pipe' = [pipe EXCEPT ![p] = Tail(pipe[p])]
        /\ pending' = Remembered(p, Head(pipe[p]))
        /\ events' = Append(events, Head(pipe[p])) \/ events' = events
        /\ UNCHANGED << scope, codex, said, asked, session, ingestionVars, thread, intents, count >>
  BY DEF ReadLine, Emit
<1>2. p \in 1 .. Len(pipe) /\ pipe[p] \in Seq(Line) BY <1>a DEF Processes
<1>3. PICK line : line = Head(pipe[p]) OBVIOUS
<1>4. /\ line \in Line /\ Tail(pipe[p]) \in Seq(Line) /\ line = pipe[p][1]
      /\ Len(pipe[p]) = Len(Tail(pipe[p])) + 1
      /\ \A k \in 1 .. Len(Tail(pipe[p])) : Tail(pipe[p])[k] = pipe[p][k + 1]
  BY <1>1, <1>2, <1>3, TailParts
<1>5. /\ Len(pipe') = Len(pipe) /\ pipe'[p] = Tail(pipe[p])
      /\ \A q \in 1 .. Len(pipe) : q # p => pipe'[q] = pipe[q]
  BY <1>a, <1>1, <1>2, <1>4, ReplaceParts
<1>6. Processes' = Processes BY <1>5 DEF Processes
<1>7. line.type # "resolved" BY <1>4 DEF Line
<1>8. PlacesKept
  <2>1. line \in Event BY <1>4, EventTypes
  <2>2. (events' = Append(events, line) \/ events' = events) /\ todo' = todo /\ thread' = thread
    BY <1>1, <1>3 DEF ingestionVars
  <2> QED BY <1>7, <2>1, <2>2, KeptPlaces
<1>9. asked' = asked /\ codex' = codex BY <1>1
<1>10. \A r \in Nat : (Untold(r) => Untold(r)') /\ (Unanswered(r) => Unanswered(r)') /\ ToldOnce(r)'
  BY <1>8, <1>9 DEF PlacesKept, Answers, Untold, ToldOnce, One, Unanswered
<1>11. Outcomes' BY <1>8, <1>9 DEF Outcome, Outcomes, Answers, PlacesKept
<1>12. pending' = IF line.type = "request" THEN pending \cup {<< p, line.request >>} ELSE pending
  BY <1>1, <1>3 DEF Remembered
<1>13. line.type = "request" => /\ line.request \in Nat
                                /\ Unanswered(line.request) /\ asked[line.request].process = p
                                /\ 1 \in DOMAIN pipe[p] /\ AskedOf(p, 1, line.request)
  <2>1. ASSUME line.type = "request"
        PROVE  /\ line.request \in Nat
               /\ Unanswered(line.request) /\ asked[line.request].process = p
               /\ 1 \in DOMAIN pipe[p] /\ AskedOf(p, 1, line.request)
    <3>1. line.request \in Nat BY <1>4, <2>1 DEF Line
    <3>2. 1 \in DOMAIN pipe[p] BY <1>1, <1>2, <1>4
    <3>3. AskedOf(p, 1, line.request) BY <1>4, <2>1 DEF AskedOf
    <3> QED BY <3>1, <3>2, <3>3 DEF Answers, UnreadOnce
  <2> QED BY <2>1
<1>14. PendingOnce' BY <1>9, <1>10, <1>12, <1>13 DEF PendingOnce, Answers
<1>15. UnreadOnce'
  <2> SUFFICES ASSUME NEW q \in Processes, NEW k \in DOMAIN pipe'[q], NEW r \in Nat,
                      AskedOf(q, k, r)'
               PROVE  /\ Unanswered(r)' /\ asked[r].process = q /\ << q, r >> \notin pending'
                      /\ \A j \in DOMAIN pipe'[q] : AskedOf(q, j, r)' => j = k
    BY <1>6, <1>9, Zenon DEF UnreadOnce
  <2>1. CASE q # p
    <3>1. pipe'[q] = pipe[q] BY <1>5, <2>1 DEF Processes
    <3>2. k \in DOMAIN pipe[q] /\ AskedOf(q, k, r) BY <3>1 DEF AskedOf
    <3>3. \A j \in DOMAIN pipe'[q] : AskedOf(q, j, r)' => j = k
      <4>1. \A j \in DOMAIN pipe'[q] : AskedOf(q, j, r)' => AskedOf(q, j, r) /\ j \in DOMAIN pipe[q]
        BY <3>1 DEF AskedOf
      <4> QED BY <3>2, <4>1 DEF Answers, UnreadOnce
    <3>4. Unanswered(r) /\ asked[r].process = q /\ << q, r >> \notin pending
      BY <3>2 DEF Answers, UnreadOnce
    <3> QED BY <1>10, <1>12, <2>1, <3>3, <3>4
  <2>2. CASE q = p
    <3>0. \A j \in DOMAIN pipe'[p] : j + 1 \in DOMAIN pipe[p] /\ pipe'[p][j] = pipe[p][j + 1]
                                     /\ j + 1 # 1 /\ j \in Nat
      BY <1>2, <1>4, <1>5
    <3>1. \A j \in DOMAIN pipe'[p] : AskedOf(p, j, r)' => AskedOf(p, j + 1, r)
      BY <3>0 DEF AskedOf
    <3>2. AskedOf(p, k + 1, r) /\ k + 1 \in DOMAIN pipe[p] BY <2>2, <3>0, <3>1
    <3>3. /\ Unanswered(r) /\ asked[r].process = p /\ << p, r >> \notin pending
          /\ \A j \in DOMAIN pipe[p] : AskedOf(p, j, r) => j = k + 1
      BY <3>2 DEF Answers, UnreadOnce
    <3>4. \A j \in DOMAIN pipe'[p] : AskedOf(p, j, r)' => j = k BY <2>2, <3>0, <3>1, <3>3
    <3>5. << p, r >> \notin pending'
      <4>1. CASE line.type = "request" /\ line.request = r
        <5>1. 1 = k + 1 BY <1>13, <3>3, <4>1
        <5> QED BY <2>2, <3>0, <5>1
      <4> QED BY <1>12, <3>3, <4>1
    <3> QED BY <1>10, <2>2, <3>3, <3>4, <3>5
  <2> QED BY <2>1, <2>2
<1> QED BY <1>6, <1>9, <1>10, <1>11, <1>14, <1>15 DEF Answers

(* Only the answer of a request makes an activity that tells of it. *)
LEMMA HandlerTells ==
  ASSUME caches \in Caches, NEW e \in Event, e.type # "resolved",
         NEW i \in DOMAIN Handler(e), Handler(e)[i].do = "activity"
  PROVE  Handler(e)[i].kind = "requested"
<1>1. CASE e.type = "turn" BY <1>1, HandlerIs, TurnHandlerDoes DEF Event, Line
<1>2. CASE e.type \in {"mode", "delta", "item", "started", "exited", "request"}
  BY <1>2, HandlerIs
<1>3. e.type \in {"mode", "delta", "item", "turn", "started", "exited", "request", "resolved"}
  BY DEF Event, Line
<1> QED BY <1>1, <1>2, <1>3

(* The ingestion moves what tells the thread of an answer on, and drops it *)
(* at most.                                                                *)
LEMMA TakeAnswers ==
  ASSUME Shape, Answers, Take
  PROVE  Answers'
<1>a. events \in Seq(Event) /\ caches \in Caches BY DEF Shape
<1>b. /\ todo = << >> /\ events # << >> /\ todo' = Handler(Head(events)) /\ events' = Tail(events)
      /\ UNCHANGED << scope, codexVars, managerVars, caches, finished, thread, intents, count >>
  BY DEF Take
<1>1. PICK e : e = Head(events) OBVIOUS
<1>2. /\ e \in Event /\ e = events[1] /\ 1 \in DOMAIN events
      /\ \A i \in DOMAIN events' : i + 1 \in DOMAIN events /\ events'[i] = events[i + 1]
                                   /\ i + 1 # 1 /\ i \in Nat
  BY <1>a, <1>b, <1>1
<1>3. \A r : TodoPlaces(r) = {} BY <1>b DEF TodoPlaces
<1>4. \A r : Resolved(r)' = Resolved(r) BY <1>b DEF Resolved
<1>5. \A r : \A i \in EventPlaces(r)' : i + 1 \in EventPlaces(r) BY <1>2 DEF EventPlaces
<1>6. \A r \in Nat : One(EventPlaces(r)')
  BY <1>2, <1>5 DEF One, Answers, ToldOnce, EventPlaces
<1>7. CASE e.type = "resolved"
  <2>1. PICK r \in Nat : r = e.request BY <1>2, <1>7 DEF Event, Line
  <2>2. PICK op \in Operation : /\ op = [do |-> "activity", kind |-> "resolved",
                                         request |-> e.request, decision |-> e.decision]
                                /\ todo' = << op >>
    <3>1. Handler(e) = << [do |-> "activity", kind |-> "resolved", request |-> e.request,
                           decision |-> e.decision] >>
      BY <1>2, <1>7, HandlerIs
    <3>2. Handler(e) \in Seq(Operation) BY <1>2, <1>a, HandlerType
    <3>3. Handler(e)[1] \in Operation BY <3>1, <3>2
    <3> QED BY <1>1, <1>b, <3>1, <3>3
  <2>3. op.do = "activity" /\ op.kind = "resolved" /\ op.request = r /\ op.decision = e.decision
    BY <2>1, <2>2
  <2>4. TodoPlaces(r)' = {1} /\ \A q : q # r => TodoPlaces(q)' = {}
    BY <2>2, <2>3 DEF TodoPlaces
  <2>5. 1 \in EventPlaces(r) BY <1>2, <1>7, <2>1 DEF EventPlaces
  <2>6. EventPlaces(r)' = {} BY <1>2, <1>5, <2>5 DEF Answers, ToldOnce, One, EventPlaces
  <2>7. Resolved(r) = {} BY <2>5 DEF Answers, ToldOnce
  <2>8. \A q \in Nat : (Untold(q) => Untold(q)') /\ ToldOnce(q)'
    <3>1. \A q \in Nat : One(Resolved(q)) BY DEF Answers, ToldOnce
    <3>2. \A q : One(TodoPlaces(q)') BY <2>4 DEF One
    <3>3. \A q \in Nat : EventPlaces(q)' # {} => EventPlaces(q) # {} BY <1>5
    <3>4. \A q \in Nat : Untold(q) => q # r BY <2>5 DEF Untold
    <3>5. \A q \in Nat : Untold(q) => Untold(q)'
      BY <1>4, <2>4, <3>3, <3>4 DEF Untold
    <3>6. \A q \in Nat : ToldOnce(q)'
      BY <1>3, <1>4, <1>6, <2>4, <2>6, <2>7, <3>1, <3>2, <3>3 DEF ToldOnce, Answers
    <3> QED BY <3>5, <3>6
  <2>9. Outcomes'
    <3>1. \A q, d : Outcome(q, d) => Outcome(q, d)' BY <1>b DEF Outcome, codexVars
    <3>2. \A q \in Nat : \A i \in EventPlaces(q)' : Outcome(q, events[i].decision)'
      BY <1>2, <1>5, <3>1 DEF Outcomes, Answers, EventPlaces
    <3>3. \A q \in Nat : \A i \in TodoPlaces(q)' : Outcome(q, todo[i].decision)'
      <4>1. Outcome(r, e.decision) BY <1>2, <2>5 DEF Outcomes, Answers
      <4>2. todo'[1].decision = e.decision BY <2>2, <2>3
      <4> QED BY <2>4, <3>1, <4>1, <4>2
    <3>4. \A q \in Nat : \A i \in Resolved(q)' : Outcome(q, thread.activities[i].decision)'
      BY <1>4, <1>b, <3>1 DEF Outcomes, Answers
    <3> QED BY <3>2, <3>3, <3>4 DEF Outcomes
  <2> QED BY <1>b, <2>8, <2>9, AnswersMove
<1>8. CASE e.type # "resolved"
  <2>1. \A q : TodoPlaces(q)' = {}
    <3>1. \A i \in DOMAIN todo' : todo'[i].do = "activity" => todo'[i].kind = "requested"
      BY <1>a, <1>b, <1>1, <1>2, <1>8, HandlerTells
    <3> QED BY <3>1 DEF TodoPlaces
  <2>2. \A q \in Nat : (Untold(q) => Untold(q)') /\ ToldOnce(q)'
    BY <1>4, <1>5, <1>6, <2>1 DEF Untold, ToldOnce, Answers, One
  <2>3. Outcomes'
    <3>1. \A q, d : Outcome(q, d) => Outcome(q, d)' BY <1>b DEF Outcome, codexVars
    <3>2. \A q \in Nat : \A i \in EventPlaces(q)' : Outcome(q, events[i].decision)'
      BY <1>2, <1>5, <3>1 DEF Outcomes, Answers, EventPlaces
    <3>4. \A q \in Nat : \A i \in Resolved(q)' : Outcome(q, thread.activities[i].decision)'
      BY <1>4, <1>b, <3>1 DEF Outcomes, Answers
    <3> QED BY <2>1, <3>2, <3>4 DEF Outcomes
  <2> QED BY <1>b, <2>2, <2>3, AnswersMove
<1> QED BY <1>7, <1>8

LEMMA PerformAnswers ==
  ASSUME Shape, Answers, Perform
  PROVE  Answers'
<1>a. /\ todo \in Seq(Operation) /\ todo # << >> /\ thread.activities \in Seq(ActivityRow)
      /\ thread' = Dispatched(Head(todo)) /\ todo' = Tail(todo)
      /\ UNCHANGED << scope, codexVars, managerVars, events, intents, count >>
  BY DEF Shape, Perform, Threads
<1>1. PICK op : op = Head(todo) OBVIOUS
<1>2. /\ op \in Operation /\ op = todo[1] /\ 1 \in DOMAIN todo
      /\ \A i \in DOMAIN todo' : i + 1 \in DOMAIN todo /\ todo'[i] = todo[i + 1]
                                 /\ i + 1 # 1 /\ i \in Nat
  BY <1>a, <1>1
<1>3. \A r : EventPlaces(r)' = EventPlaces(r) BY <1>a DEF EventPlaces
<1>4. \A r : \A i \in TodoPlaces(r)' : i + 1 \in TodoPlaces(r) BY <1>2 DEF TodoPlaces
<1>5. \A r \in Nat : One(TodoPlaces(r)')
  BY <1>2, <1>4 DEF One, Answers, ToldOnce, TodoPlaces
<1>6. \A q, d : Outcome(q, d) => Outcome(q, d)' BY <1>a DEF Outcome, codexVars
<1>7. \A q \in Nat : \A i \in EventPlaces(q)' : Outcome(q, events[i].decision)'
  BY <1>3, <1>6, <1>a DEF Outcomes, Answers
<1>8. \A q \in Nat : \A i \in TodoPlaces(q)' : Outcome(q, todo[i].decision)'
  BY <1>2, <1>4, <1>6 DEF Outcomes, Answers, TodoPlaces
<1>9. CASE op.do = "activity" /\ op.kind = "resolved"
  <2>1. PICK r \in Nat : r = op.request BY <1>2, <1>9 DEF Operation
  <2>2. 1 \in TodoPlaces(r) BY <1>2, <1>9, <2>1 DEF TodoPlaces
  <2>3. TodoPlaces(r)' = {}
    <3>1. \A i \in TodoPlaces(r)' : i + 1 = 1 BY <1>4, <2>2 DEF Answers, ToldOnce, One
    <3> QED BY <1>2, <3>1 DEF TodoPlaces
  <2>4. PICK row \in ActivityRow :
          /\ row = [kind |-> "resolved", request |-> op.request, decision |-> op.decision]
          /\ thread'.activities = Append(thread.activities, row)
    <3>1. Dispatched(op) = [thread EXCEPT !.activities = Append(@, Without(op, {"do"}))]
      BY <1>9 DEF Dispatched, Activity
    <3>2. /\ Without(op, {"do"}) \in ActivityRow
          /\ Without(op, {"do"}) =
               [kind |-> "resolved", request |-> op.request, decision |-> op.decision]
      BY <1>2, <1>9, ActivityOfOperation
    <3>3. thread \in Threads BY DEF Shape
    <3>4. thread'.activities = Append(thread.activities, Without(op, {"do"}))
      BY <1>a, <1>1, <3>1, <3>3 DEF Threads
    <3> QED BY <3>2, <3>4
  <2>5. PICK n : /\ DOMAIN thread'.activities = DOMAIN thread.activities \cup {n}
                 /\ n \notin DOMAIN thread.activities /\ thread'.activities[n] = row
                 /\ \A i \in DOMAIN thread.activities :
                      thread'.activities[i] = thread.activities[i]
    <3> DEFINE a == thread.activities
               b == thread'.activities
    <3>1. a \in Seq(ActivityRow) /\ b = Append(a, row) BY <1>a, <2>4
    <3> HIDE DEF a, b
    <3>2. /\ DOMAIN b = DOMAIN a \cup {Len(a) + 1} /\ Len(a) + 1 \notin DOMAIN a
          /\ b[Len(a) + 1] = row /\ \A i \in DOMAIN a : b[i] = a[i]
      BY <3>1
    <3> QED BY <3>2 DEF a, b
  <2>6. row.kind = "resolved" /\ row.request = r /\ row.decision = op.decision BY <2>1, <2>4
  <2>7. Resolved(r) = {} /\ EventPlaces(r) = {} BY <2>2 DEF Answers, ToldOnce
  <2>8. Resolved(r)' = {n} BY <2>5, <2>6, <2>7 DEF Resolved
  <2>9. \A q : q # r => Resolved(q)' = Resolved(q) BY <2>5, <2>6 DEF Resolved
  <2>10. \A q \in Nat : (Untold(q) => Untold(q)') /\ ToldOnce(q)'
    <3>1. \A q \in Nat : q # r => (Untold(q) => Untold(q)') /\ ToldOnce(q)'
      BY <1>3, <1>4, <1>5, <2>9 DEF Untold, ToldOnce, Answers
    <3>2. ~Untold(r) BY <2>2 DEF Untold
    <3>3. ToldOnce(r)' BY <1>3, <2>3, <2>7, <2>8 DEF ToldOnce, One
    <3> QED BY <3>1, <3>2, <3>3
  <2>11. \A q \in Nat : \A i \in Resolved(q)' : Outcome(q, thread.activities[i].decision)'
    <3>1. Outcome(r, op.decision) BY <1>2, <2>2 DEF Outcomes, Answers
    <3>2. Outcome(r, thread.activities[n].decision)' BY <1>6, <2>5, <2>6, <3>1
    <3>3. \A q \in Nat : \A i \in Resolved(q) : i \in DOMAIN thread.activities
      BY DEF Resolved
    <3>4. \A q \in Nat : q # r =>
            \A i \in Resolved(q)' : Outcome(q, thread.activities[i].decision)'
      BY <1>6, <2>5, <2>9, <3>3 DEF Outcomes, Answers
    <3> QED BY <2>8, <3>2, <3>4
  <2>12. Outcomes' BY <1>7, <1>8, <2>11 DEF Outcomes
  <2> QED BY <1>a, <2>10, <2>12, AnswersMove
<1>10. CASE ~(op.do = "activity" /\ op.kind = "resolved")
  <2>1. \/ thread'.activities = thread.activities
        \/ \E row \in ActivityRow :
             row.kind # "resolved" /\ thread'.activities = Append(thread.activities, row)
    <3>1. thread \in Threads BY DEF Shape
    <3>2. CASE op.do = "activity"
      <4>1. op.kind = "requested" BY <1>2, <1>10, <3>2 DEF Operation
      <4>2. Dispatched(op) = [thread EXCEPT !.activities = Append(@, Without(op, {"do"}))]
        BY <3>2 DEF Dispatched, Activity
      <4>3. /\ Without(op, {"do"}) \in ActivityRow
            /\ Without(op, {"do"}) = [kind |-> "requested", request |-> op.request]
        BY <1>2, <3>2, <4>1, ActivityOfOperation
      <4>4. Without(op, {"do"}).kind = "requested" BY <4>3
      <4>5. thread'.activities = Append(thread.activities, Without(op, {"do"}))
        BY <1>a, <1>1, <4>2, <3>1 DEF Threads
      <4> QED BY <4>3, <4>4, <4>5
    <3>3. CASE op.do # "activity"
      BY <1>a, <1>1, <3>1, <3>3
      DEF Dispatched, Delta, Completed, SetMessage, Upsert, Threads
    <3> QED BY <3>2, <3>3
  <2>2. \A r \in Nat : /\ Resolved(r)' = Resolved(r)
                       /\ \A i \in Resolved(r) :
                            thread'.activities[i].decision = thread.activities[i].decision
    BY <2>1, KeptResolved
  <2>3. \A q \in Nat : (Untold(q) => Untold(q)') /\ ToldOnce(q)'
    BY <1>3, <1>4, <1>5, <2>2 DEF Untold, ToldOnce, Answers
  <2>4. \A q \in Nat : \A i \in Resolved(q)' : Outcome(q, thread.activities[i].decision)'
    BY <1>6, <2>2 DEF Outcomes, Answers
  <2>5. Outcomes' BY <1>7, <1>8, <2>4 DEF Outcomes
  <2> QED BY <1>a, <2>3, <2>5, AnswersMove
<1> QED BY <1>9, <1>10

LEMMA FailsAnswers ==
  ASSUME Shape, Answers, DispatchFails
  PROVE  Answers'
<1>1. /\ UNCHANGED << scope, codexVars, managerVars, events, finished, thread, intents >>
      /\ todo' = << >>
  BY DEF DispatchFails
<1>2. \A r : TodoPlaces(r)' = {} BY <1>1 DEF TodoPlaces
<1>3. \A r : EventPlaces(r)' = EventPlaces(r) /\ Resolved(r)' = Resolved(r)
  BY <1>1 DEF EventPlaces, Resolved
<1>4. \A r \in Nat : (Untold(r) => Untold(r)') /\ ToldOnce(r)'
  BY <1>2, <1>3 DEF Untold, ToldOnce, Answers, One
<1>5. \A q, d : Outcome(q, d) => Outcome(q, d)' BY <1>1 DEF Outcome, codexVars
<1>6. \A q \in Nat : \A i \in EventPlaces(q)' : Outcome(q, events[i].decision)'
  BY <1>1, <1>3, <1>5 DEF Outcomes, Answers
<1>7. \A q \in Nat : \A i \in Resolved(q)' : Outcome(q, thread.activities[i].decision)'
  BY <1>1, <1>3, <1>5 DEF Outcomes, Answers
<1>8. Outcomes' BY <1>2, <1>6, <1>7 DEF Outcomes
<1> QED BY <1>1, <1>4, <1>8, AnswersMove

(* An answer that finds its request pending takes it, and is told once. *)
LEMMA RespondAnswers ==
  ASSUME Shape, Answers, NEW r \in Nat, NEW d \in Decisions, RespondToRequest(r, d), todo' = todo
  PROVE  Answers'
<1>a. /\ asked \in Seq(Askings) /\ events \in Seq(Event) /\ codex \in Codexes
      /\ << session, r >> \in pending /\ pending' = pending \ {<< session, r >>}
      /\ events' = Append(events, [type |-> "resolved", request |-> r, decision |-> d])
      /\ UNCHANGED << said, pipe, session, thread >>
  BY DEF RespondToRequest, Shape, Forget, Emit
<1>1. /\ Unanswered(r) /\ asked[r].process = session
      /\ \A q \in pending' : q[2] # r
  BY <1>a DEF Answers, PendingOnce
<1>2. r \in 1 .. Len(asked) BY <1>a, <1>1 DEF Unanswered
<1>3. /\ codex'.process = codex.process /\ codex'.alive = codex.alive
  BY <1>a DEF RespondToRequest, Codexes
<1>4. /\ DOMAIN asked' = DOMAIN asked /\ \A q \in DOMAIN asked : q # r => asked'[q] = asked[q]
      /\ asked'[r].process = asked[r].process
      /\ asked'[r].answers = << d >> \/ (~codex.alive /\ asked'[r].answers = << >>)
  <2>1. asked[r].answers = << >> BY <1>1 DEF Unanswered
  <2>2. asked[r] \in Askings BY <1>a, <1>2
  <2>3. CASE codex.alive
    <3>1. asked' = [asked EXCEPT ![r].answers = Append(@, d)] BY <2>3 DEF RespondToRequest
    <3>2. asked' = [asked EXCEPT ![r] = [asked[r] EXCEPT !.answers = << d >>]] BY <2>1, <3>1
    <3>3. asked'[r] = [asked[r] EXCEPT !.answers = << d >>] BY <1>a, <1>2, <3>2
    <3> QED BY <1>a, <1>2, <2>2, <3>2, <3>3 DEF Askings
  <2>4. CASE ~codex.alive BY <2>1, <2>4 DEF RespondToRequest
  <2> QED BY <2>3, <2>4
<1>5. PICK n : /\ DOMAIN events' = DOMAIN events \cup {n} /\ n \notin DOMAIN events
               /\ events'[n] = [type |-> "resolved", request |-> r, decision |-> d]
               /\ \A i \in DOMAIN events : events'[i] = events[i]
  <2> DEFINE e == [type |-> "resolved", request |-> r, decision |-> d]
  <2>1. e \in Event BY EventTypes
  <2> HIDE DEF e
  <2>2. events' = Append(events, e) BY <1>a DEF e
  <2>3. /\ DOMAIN events' = DOMAIN events \cup {Len(events) + 1}
        /\ Len(events) + 1 \notin DOMAIN events
        /\ events'[Len(events) + 1] = e /\ \A k \in DOMAIN events : events'[k] = events[k]
    BY <1>a, <2>1, <2>2
  <2> QED BY <2>3 DEF e
<1>6. \A q : TodoPlaces(q)' = TodoPlaces(q) /\ Resolved(q)' = Resolved(q)
  BY <1>a DEF TodoPlaces, Resolved
<1>7. \A q : q # r => EventPlaces(q)' = EventPlaces(q) BY <1>5 DEF EventPlaces
<1>8. EventPlaces(r)' = {n} BY <1>1, <1>5 DEF Unanswered, Untold, EventPlaces
<1>9. \A q \in Nat : ToldOnce(q)'
  <2>1. ToldOnce(r)' BY <1>1, <1>6, <1>8 DEF ToldOnce, One, Unanswered, Untold
  <2> QED BY <1>6, <1>7, <2>1 DEF ToldOnce, Answers
<1>10. \A q \in Nat : q # r /\ Unanswered(q) => Unanswered(q)' /\ asked'[q].process = asked[q].process
  BY <1>4, <1>6, <1>7 DEF Unanswered, Untold
<1>11. \A q \in Nat : \A x : q # r /\ Outcome(q, x) => Outcome(q, x)'
  BY <1>3, <1>4 DEF Outcome
<1>12. Outcome(r, d)'
  BY <1>1, <1>3, <1>4 DEF Outcome, Unanswered
<1>13. Outcomes'
  <2>1. \A q \in Nat : q # r =>
          /\ \A i \in EventPlaces(q)' : Outcome(q, events[i].decision)'
          /\ \A i \in TodoPlaces(q)' : Outcome(q, todo[i].decision)'
          /\ \A i \in Resolved(q)' : Outcome(q, thread.activities[i].decision)'
    <3>1. \A q : \A i \in EventPlaces(q) : i \in DOMAIN events BY DEF EventPlaces
    <3> QED BY <1>a, <1>5, <1>6, <1>7, <1>11, <3>1 DEF Outcomes, Answers
  <2>2. \A i \in EventPlaces(r)' : Outcome(r, events[i].decision)'
    BY <1>5, <1>8, <1>12
  <2>3. TodoPlaces(r)' = {} /\ Resolved(r)' = {} BY <1>1, <1>6 DEF Unanswered, Untold
  <2> QED BY <2>1, <2>2, <2>3 DEF Outcomes
<1>14. PendingOnce'
  BY <1>a, <1>1, <1>10 DEF PendingOnce, Answers
<1>15. UnreadOnce'
  <2> SUFFICES ASSUME NEW p \in Processes', NEW k \in DOMAIN pipe'[p], NEW q \in Nat,
                      AskedOf(p, k, q)'
               PROVE  /\ Unanswered(q)' /\ asked'[q].process = p /\ << p, q >> \notin pending'
                      /\ \A j \in DOMAIN pipe'[p] : AskedOf(p, j, q)' => j = k
    BY Zenon DEF UnreadOnce
  <2>1. p \in Processes /\ k \in DOMAIN pipe[p] /\ AskedOf(p, k, q)
    BY <1>a DEF Processes, AskedOf
  <2>2. /\ Unanswered(q) /\ asked[q].process = p /\ << p, q >> \notin pending
        /\ \A j \in DOMAIN pipe[p] : AskedOf(p, j, q) => j = k
    BY <2>1 DEF Answers, UnreadOnce
  <2>3. q # r BY <1>a, <1>1, <2>2
  <2>4. \A j \in DOMAIN pipe'[p] : AskedOf(p, j, q)' => j = k
    BY <1>a, <2>2 DEF AskedOf
  <2> QED BY <1>a, <1>10, <2>2, <2>3, <2>4
<1>16. \A q \in DOMAIN asked' : asked'[q].process \in Processes' /\ Len(asked'[q].answers) <= 1
  <2>1. Len(<< >>) <= 1 /\ Len(<< d >>) <= 1 OBVIOUS
  <2> QED BY <1>a, <1>4, <2>1 DEF Answers, Processes
<1> QED BY <1>9, <1>13, <1>14, <1>15, <1>16 DEF Answers

LEMMA ReactAnswers ==
  ASSUME Shape, Answers, TakeAnswer
  PROVE  Answers'
<1>a. /\ intents \in Seq(Intent) /\ thread \in Threads /\ pipe \in Seq(Seq(Line))
      /\ intents # << >> /\ asked \in Seq(Askings) /\ DOMAIN asked \subseteq Nat
  BY DEF Shape, TakeAnswer
<1>1. Head(intents) \in Intent /\ Head(intents).do = "answer"
  BY <1>a, TailParts DEF TakeAnswer
<1> DEFINE r == Head(intents).request
           d == Head(intents).decision
<1>2. r \in Nat /\ d \in Decisions BY <1>1 DEF Intent
<1> HIDE DEF r, d
<1>3. /\ todo' = todo
      /\ \/ NoSession(r) \/ Recovered(r) \/ Refused(r) \/ CannotWrite(r)
         \/ RespondToRequest(r, d)
  BY DEF TakeAnswer, r, d, ingestionVars
<1>4. ASSUME NEW why \in {"no session", "unknown approval request", "cannot recover",
                          "cannot write"},
             Failed(r, why),
             events' = events \/ \E e \in Event : e.type # "resolved" /\ events' = Append(events, e)
      PROVE  PlacesKept
  <2> DEFINE row == [kind |-> "failed", request |-> r, why |-> why]
  <2>1. thread'.activities = Append(thread.activities, row)
    BY <1>2, <1>4, <1>a, FailedType
  <2>2. row \in [kind : {"failed"}, request : Nat,
                 why : {"no session", "unknown approval request", "cannot recover",
                        "cannot write"}]
        /\ row.kind # "resolved"
    BY <1>2
  <2> HIDE DEF row
  <2>3. row \in ActivityRow BY <2>2, Zenon DEF ActivityRow
  <2> QED BY <1>3, <1>4, <2>1, <2>2, <2>3, KeptPlaces
<1>5. CASE NoSession(r) \/ Refused(r) \/ CannotWrite(r)
           \/ (Failed(r, "cannot recover") /\ UNCHANGED << codexVars, managerVars, events >>)
  <2>1. /\ UNCHANGED << codexVars, session, events >> /\ pending' \subseteq pending
        /\ \E why \in {"no session", "unknown approval request", "cannot recover",
                       "cannot write"} : Failed(r, why)
    BY <1>5 DEF NoSession, Refused, CannotWrite, managerVars, Forget
  <2>2. PlacesKept BY <1>4, <2>1
  <2>3. pipe' = pipe /\ asked' = asked /\ codex' = codex BY <2>1 DEF codexVars
  <2> QED BY <1>a, <2>1, <2>2, <2>3, SamePipes, AnswersKept
<1>6. CASE Resume /\ Failed(r, "unknown approval request")
  <2>1. events' = Append(events, [type |-> "started"]) BY <1>6 DEF Resume, Emit
  <2>2. PlacesKept BY <1>4, <1>6, <2>1, EventTypes
  <2>3. pipe' = Append(pipe, << >>) /\ UNCHANGED << said, asked, pending >>
    BY <1>6 DEF Resume
  <2>4. /\ Len(pipe') = Len(pipe) + 1 /\ pipe'[Len(pipe) + 1] = << >> /\ Len(pipe) \in Nat
        /\ \A p \in 1 .. Len(pipe) : pipe'[p] = pipe[p]
    BY <1>a, <2>3, AppendParts
  <2>5. Processes \subseteq Processes' /\ Processes' = Processes \cup {Len(pipe) + 1}
    BY <2>4 DEF Processes
  <2>6. PipesKept BY <2>4, <2>5 DEF PipesKept, Processes
  <2>7. codex'.process \notin Processes
    <3>1. codex'.process = Len(pipe) + 1 BY <1>6 DEF Resume, NewProcess
    <3> QED BY <2>4, <3>1 DEF Processes
  <2> QED BY <1>a, <2>2, <2>3, <2>5, <2>6, <2>7, AnswersKept
<1>7. CASE RespondToRequest(r, d)
  BY <1>2, <1>3, <1>7, RespondAnswers
<1> QED BY <1>3, <1>5, <1>6, <1>7 DEF Recovered

LEMMA StopAnswers ==
  ASSUME Shape, Answers, TakeStop
  PROVE  Answers'
<1>a. /\ thread \in Threads /\ codex \in Codexes /\ pipe \in Seq(Seq(Line))
      /\ asked \in Seq(Askings) /\ DOMAIN asked \subseteq Nat
  BY DEF Shape
<1>1. thread'.activities = thread.activities /\ todo' = todo
  BY <1>a DEF TakeStop, Threads, ingestionVars
<1>2. CASE session # None /\ StopSession
  <2>1. events' = Append(events, [type |-> "exited"]) BY <1>2 DEF StopSession, Emit
  <2>2. PlacesKept BY <1>1, <2>1, EventTypes, KeptPlaces
  <2>3. /\ pending' \subseteq pending /\ asked' = asked
        /\ codex'.process = codex.process /\ ~codex'.alive
    BY <1>a, <1>2 DEF StopSession, Codexes
  <2>4. /\ Len(pipe') = Len(pipe) /\ pipe'[session] = << >>
        /\ \A p \in 1 .. Len(pipe) : p # session => pipe'[p] = pipe[p]
    BY <1>a, <1>2, ReplaceParts DEF StopSession, Shape, None, Codexes
  <2>5. Processes' = Processes BY <2>4 DEF Processes
  <2>6. PipesKept BY <2>4, <2>5 DEF PipesKept, Processes
  <2> QED BY <1>a, <2>2, <2>3, <2>5, <2>6, AnswersKept
<1>3. CASE UNCHANGED << codexVars, managerVars, events >>
  <2>1. PlacesKept BY <1>1, <1>3, KeptPlaces
  <2>2. /\ pipe' = pipe /\ asked' = asked /\ codex' = codex /\ pending' = pending
    BY <1>3 DEF codexVars, managerVars
  <2> QED BY <1>a, <2>1, <2>2, SamePipes, AnswersKept
<1> QED BY <1>2, <1>3 DEF TakeStop

LEMMA AnswersStep ==
  ASSUME Shape, Answers, [Next]_vars
  PROVE  Answers'
<1>a. asked \in Seq(Askings) /\ DOMAIN asked \subseteq Nat BY DEF Shape
<1>1. CASE Exit
  <2>1. /\ events' = Append(events, [type |-> "exited"])
        /\ UNCHANGED << scope, codexVars, pending, ingestionVars, thread, intents, count >>
    BY <1>1 DEF Exit, Emit
  <2>2. /\ todo' = todo /\ thread' = thread /\ pipe' = pipe /\ asked' = asked /\ codex' = codex
        /\ pending' = pending
    BY <2>1 DEF codexVars, ingestionVars
  <2>3. PlacesKept BY <2>1, <2>2, EventTypes, KeptPlaces
  <2> QED BY <1>a, <2>2, <2>3, SamePipes, AnswersKept
<1>2. CASE Respond \/ RequestStop \/ UNCHANGED vars
  <2>1. /\ todo' = todo /\ thread' = thread /\ pipe' = pipe /\ asked' = asked /\ codex' = codex
        /\ pending' = pending /\ events' = events
    BY <1>2 DEF Respond, RequestStop, vars, codexVars, managerVars, ingestionVars
  <2>2. PlacesKept BY <2>1, KeptPlaces
  <2> QED BY <1>a, <2>1, <2>2, SamePipes, AnswersKept
<1> QED
  BY <1>1, <1>2, SayAnswers, ReadAnswers, TakeAnswers, PerformAnswers, FailsAnswers, ReactAnswers,
     StopAnswers
  DEF Next, Codex, Manager, Ingestion, User, Reactor

LEMMA AnswersInit ==
  ASSUME Init
  PROVE  Answers
<1>1. \A r : EventPlaces(r) = {} /\ TodoPlaces(r) = {} /\ Resolved(r) = {}
  BY DEF Init, EventPlaces, TodoPlaces, Resolved
<1>2. DOMAIN asked = {} /\ pending = {} /\ DOMAIN pipe[1] = {} /\ Len(pipe) = 1 BY DEF Init
<1>3. UnreadOnce BY <1>2 DEF Processes, UnreadOnce
<1> QED BY <1>1, <1>2, <1>3 DEF Answers, PendingOnce, ToldOnce, One, Outcomes

(* DecisionsAgree: codex gets at most one answer to what it asks, however  *)
(* often the user answers it, and the thread tells of that answer once and *)
(* as it was, unless the process that asked is gone.                       *)
THEOREM DecisionsHold == Spec => []DecisionsAgree
<1>1. Init => Shape /\ Answers BY ShapeInit, AnswersInit
<1>2. Shape /\ Answers /\ [Next]_vars => (Shape /\ Answers)' BY ShapeStep, AnswersStep
<1>3. Shape /\ Answers => DecisionsAgree
  <2> SUFFICES ASSUME Shape, Answers, NEW r \in DOMAIN asked
               PROVE  /\ Len(asked[r].answers) <= 1
                      /\ \A i, j \in Resolved(r) : i = j
                      /\ \A i \in Resolved(r) :
                           \/ asked[r].answers = << thread.activities[i].decision >>
                           \/ asked[r].process # codex.process \/ ~codex.alive
    BY Zenon DEF DecisionsAgree
  <2>1. r \in Nat BY DEF Shape
  <2> QED BY <2>1 DEF Answers, ToldOnce, One, Outcomes, Outcome
<1> QED BY <1>1, <1>2, <1>3, PTL DEF Spec

-----------------------------------------------------------------------------
(* The queues: what waits, and what each step does to it. *)
LEMMA WaitingTypes ==
  ASSUME Shape
  PROVE  /\ \A i \in DOMAIN events : << 0, i >> \in Waiting /\ At(<< 0, i >>) = events[i]
         /\ \A p \in Processes : \A k \in DOMAIN pipe[p] :
              << p, k >> \in Waiting /\ At(<< p, k >>) = pipe[p][k] /\ p # 0
         /\ \A a \in Waiting :
              /\ At(a) \in Event
              /\ a[1] \in Nat /\ a[2] \in Nat /\ a[2] >= 1 /\ a = << a[1], a[2] >>
              /\ \/ /\ a[1] = 0 /\ a[2] \in DOMAIN events
                    /\ At(a) = events[a[2]]
                 \/ /\ a[1] # 0 /\ a[1] \in Processes /\ a[2] \in DOMAIN pipe[a[1]]
                    /\ At(a) = pipe[a[1]][a[2]] /\ At(a) \in Line
<1>1. events \in Seq(Event) /\ pipe \in Seq(Seq(Line)) BY DEF Shape
<1>2. \A i \in DOMAIN events : i \in Nat /\ i >= 1 /\ events[i] \in Event BY <1>1
<1>3. \A p \in Processes : p \in Nat /\ p # 0 /\ pipe[p] \in Seq(Line) BY <1>1 DEF Processes
<1>4. \A p \in Processes : \A k \in DOMAIN pipe[p] : k \in Nat /\ k >= 1 /\ pipe[p][k] \in Line
  BY <1>3
<1>5. \A l \in Line : l \in Event BY EventTypes
<1>6. \A i \in DOMAIN events : << 0, i >> \in Waiting /\ At(<< 0, i >>) = events[i]
  BY <1>2 DEF Waiting, At
<1>7. \A p \in Processes : \A k \in DOMAIN pipe[p] :
        << p, k >> \in Waiting /\ At(<< p, k >>) = pipe[p][k] /\ p # 0
  BY <1>3, <1>4 DEF Waiting, At
<1>8. ASSUME NEW a \in Waiting
      PROVE  /\ At(a) \in Event
             /\ a[1] \in Nat /\ a[2] \in Nat /\ a[2] >= 1 /\ a = << a[1], a[2] >>
             /\ \/ /\ a[1] = 0 /\ a[2] \in DOMAIN events
                   /\ At(a) = events[a[2]]
                \/ /\ a[1] # 0 /\ a[1] \in Processes /\ a[2] \in DOMAIN pipe[a[1]]
                   /\ At(a) = pipe[a[1]][a[2]] /\ At(a) \in Line
  BY <1>2, <1>3, <1>4, <1>5 DEF Waiting, At
<1> QED BY <1>6, <1>7, <1>8

LEMMA MovedBy ==
  ASSUME NEW fresh, NEW e, NEW gone, NEW old \in [Waiting' \ {fresh} -> Waiting],
         \A a \in Waiting' \ {fresh} : At(a)' = At(old[a]) /\ a[1] \in {0, old[a][1]},
         \A a, b \in Waiting' \ {fresh} : /\ old[a] = old[b] => a = b
                                          /\ Ahead(old[a], old[b]) => Ahead(a, b),
         \A c \in Waiting \ gone : \E a \in Waiting' \ {fresh} : old[a] = c,
         fresh \in Waiting' => At(fresh)' = e
  PROVE  Moved(fresh, e, gone)
BY DEF Moved

(* An event is emitted, and some pipes are closed or begin empty. *)
LEMMA EmitMoves ==
  ASSUME Shape, NEW e \in Event, events' = Append(events, e),
         NEW S, S \subseteq Processes, Processes \subseteq Processes', 0 \notin Processes',
         \A p \in Processes \ S : pipe'[p] = pipe[p],
         \A p \in Processes' : p \in Processes \ S \/ DOMAIN pipe'[p] = {}
  PROVE  LET here == << 0, Len(events) + 1 >>
         IN /\ Moved(here, e, {a \in Waiting : a[1] \in S}) /\ here \in Waiting'
            /\ \A b \in Waiting' : b = here \/ (b \in Waiting /\ At(b)' = At(b))
<1>1. events \in Seq(Event) BY DEF Shape
<1>2. PICK n \in Nat : n = Len(events) + 1 BY <1>1
<1>3. /\ DOMAIN events' = DOMAIN events \cup {n} /\ n \notin DOMAIN events /\ events'[n] = e
      /\ \A i \in DOMAIN events : events'[i] = events[i] /\ i < n
  BY <1>1, <1>2
<1>4. PICK gone : gone = {a \in Waiting : a[1] \in S} OBVIOUS
<1>5. Waiting' = (Waiting \ gone) \cup {<< 0, n >>} /\ << 0, n >> \notin Waiting
  <2>1. ASSUME NEW a \in Nat \X Nat
        PROVE  a \in Waiting' <=> a \in Waiting \ gone \/ a = << 0, n >>
    BY <1>3, <1>4 DEF Waiting
  <2>2. << 0, n >> \in Nat \X Nat /\ Waiting \subseteq Nat \X Nat /\ Waiting' \subseteq Nat \X Nat
    BY DEF Waiting
  <2>3. << 0, n >> \notin Waiting BY <1>3 DEF Waiting
  <2> QED BY <2>1, <2>2, <2>3
<1>6. Waiting' \ {<< 0, n >>} = Waiting \ gone BY <1>5
<1>7. \A a \in Waiting \ gone : At(a)' = At(a) BY <1>3, <1>4 DEF Waiting, At
<1>8. At(<< 0, n >>)' = e BY <1>3 DEF At
<1>9. Moved(<< 0, n >>, e, gone)
  <2>1. PICK old \in [Waiting \ gone -> Waiting] : \A a \in Waiting \ gone : old[a] = a
    <3>1. [a \in Waiting \ gone |-> a] \in [Waiting \ gone -> Waiting] OBVIOUS
    <3> QED BY <3>1
  <2>2. PICK here : here = << 0, n >> OBVIOUS
  <2>3. Waiting' \ {here} = Waiting \ gone /\ At(here)' = e BY <1>6, <1>8, <2>2
  <2>4. /\ \A a \in Waiting' \ {here} : At(a)' = At(old[a]) /\ a[1] \in {0, old[a][1]}
        /\ \A a, b \in Waiting' \ {here} : /\ old[a] = old[b] => a = b
                                           /\ Ahead(old[a], old[b]) => Ahead(a, b)
        /\ \A c \in Waiting \ gone : \E a \in Waiting' \ {here} : old[a] = c
    BY <1>7, <2>1, <2>3
  <2>5. old \in [Waiting' \ {here} -> Waiting] BY <2>1, <2>3
  <2>6. Moved(here, e, gone) BY <2>3, <2>4, <2>5, MovedBy
  <2> QED BY <2>2, <2>6
<1>10. \A b \in Waiting' : b = << 0, n >> \/ (b \in Waiting /\ At(b)' = At(b)) BY <1>5, <1>7
<1>11. << 0, n >> \in Waiting' BY <1>5
<1> QED BY <1>2, <1>4, <1>9, <1>10, <1>11

(* A line is written. *)
LEMMA WriteMoves ==
  ASSUME Shape, NEW line \in Line, Write(line), events' = events
  PROVE  LET here == << codex.process, Len(pipe[codex.process]) + 1 >>
         IN /\ Moved(here, line, {}) /\ here \in Waiting' /\ here[1] # 0
            /\ \A b \in Waiting : b[1] \in {0, codex.process} => Ahead(b, here)
            /\ \A b \in Waiting' : b = here \/ (b \in Waiting /\ At(b)' = At(b))
            /\ Processes' = Processes
<1>1. /\ pipe' \in Seq(Seq(Line)) /\ Len(pipe') = Len(pipe)
      /\ codex.process \in 1 .. Len(pipe) /\ pipe[codex.process] \in Seq(Line)
      /\ pipe'[codex.process] = Append(pipe[codex.process], line)
      /\ \A p \in 1 .. Len(pipe) : p # codex.process => pipe'[p] = pipe[p]
  BY WriteParts
<1>2. Processes' = Processes BY <1>1 DEF Processes
<1>3. PICK c \in Processes : c = codex.process BY <1>1 DEF Processes
<1>4. PICK n : n = Len(pipe[c]) + 1 OBVIOUS
<1>5. /\ DOMAIN pipe'[c] = DOMAIN pipe[c] \cup {n} /\ pipe'[c][n] = line /\ n \in Nat
      /\ \A k \in DOMAIN pipe[c] : pipe'[c][k] = pipe[c][k] /\ k # n /\ k < n
  <2> DEFINE was == pipe[c]
  <2>1. was \in Seq(Line) /\ pipe'[c] = Append(was, line) /\ n = Len(was) + 1
    BY <1>1, <1>3, <1>4
  <2> HIDE DEF was
  <2>2. /\ DOMAIN pipe'[c] = DOMAIN was \cup {n} /\ pipe'[c][n] = line /\ n \in Nat
        /\ \A k \in DOMAIN was : pipe'[c][k] = was[k] /\ k # n /\ k < n
    BY <2>1
  <2> QED BY <2>2 DEF was
<1>6. c \in Nat /\ c # 0 /\ 0 \notin Processes BY <1>1, <1>3 DEF Processes
<1>7. \A p \in Processes : p # c => pipe'[p] = pipe[p] BY <1>1, <1>3 DEF Processes
<1>8. Waiting' = Waiting \cup {<< c, n >>} /\ << c, n >> \notin Waiting
  <2>1. ASSUME NEW a \in Nat \X Nat
        PROVE  a \in Waiting' <=> a \in Waiting \/ a = << c, n >>
    BY <1>2, <1>5, <1>6, <1>7 DEF Waiting
  <2>2. << c, n >> \in Nat \X Nat /\ Waiting \subseteq Nat \X Nat /\ Waiting' \subseteq Nat \X Nat
    BY <1>5, <1>6 DEF Waiting
  <2>3. << c, n >> \notin Waiting BY <1>5, <1>6 DEF Waiting
  <2> QED BY <2>1, <2>2, <2>3
<1>9. \A a \in Waiting : At(a)' = At(a) BY <1>5, <1>6, <1>7 DEF At, Waiting
<1>10. At(<< c, n >>)' = line BY <1>5, <1>6 DEF At
<1>11. Waiting' \ {<< c, n >>} = Waiting BY <1>8
<1> DEFINE old == [a \in Waiting |-> a]
<1>12. Moved(<< c, n >>, line, {})
  <2>1. old \in [Waiting -> Waiting] /\ \A a \in Waiting : old[a] = a OBVIOUS
  <2> HIDE DEF old
  <2> QED BY <1>9, <1>10, <1>11, <2>1 DEF Moved
<1>13. \A b \in Waiting : b[1] \in {0, c} => Ahead(b, << c, n >>)
  BY <1>5, <1>6 DEF Waiting, Ahead
<1>14. \A b \in Waiting' : b = << c, n >> \/ (b \in Waiting /\ At(b)' = At(b))
  BY <1>8, <1>9
<1>15. << codex.process, Len(pipe[codex.process]) + 1 >> = << c, n >> BY <1>3, <1>4
<1>16. << c, n >> \in Waiting' /\ << c, n >>[1] # 0 BY <1>6, <1>8
<1> QED BY <1>2, <1>3, <1>12, <1>13, <1>14, <1>15, <1>16

(* Nothing is emitted, written or read. *)
LEMMA RestMoves ==
  ASSUME Shape, events' = events, pipe' = pipe
  PROVE  /\ Moved(<< 0, 0 >>, 0, {}) /\ << 0, 0 >> \notin Waiting'
         /\ Waiting' = Waiting /\ \A b \in Waiting : At(b)' = At(b)
<1>1. events \in Seq(Event) BY DEF Shape
<1>2. Waiting' = Waiting BY DEF Waiting, Processes
<1>3. << 0, 0 >> \notin Waiting BY <1>1 DEF Shape, Processes, Waiting
<1>4. \A b \in Waiting : At(b)' = At(b) BY DEF At
<1>5. PICK here : here = << 0, 0 >> OBVIOUS
<1>6. PICK old \in [Waiting -> Waiting] : \A a \in Waiting : old[a] = a
  <2>1. [a \in Waiting |-> a] \in [Waiting -> Waiting] OBVIOUS
  <2> QED BY <2>1
<1>7. Waiting' \ {here} = Waiting BY <1>2, <1>3, <1>5
<1>8. Moved(here, 0, {})
  <2>1. /\ \A a \in Waiting' \ {here} : At(a)' = At(old[a]) /\ a[1] \in {0, old[a][1]}
        /\ \A a, b \in Waiting' \ {here} : /\ old[a] = old[b] => a = b
                                           /\ Ahead(old[a], old[b]) => Ahead(a, b)
        /\ \A c \in Waiting \ {} : \E a \in Waiting' \ {here} : old[a] = c
    BY <1>4, <1>6, <1>7
  <2>2. here \notin Waiting' /\ old \in [Waiting' \ {here} -> Waiting]
    BY <1>2, <1>3, <1>5, <1>6, <1>7
  <2> QED BY <2>1, <2>2, MovedBy
<1> QED BY <1>2, <1>3, <1>4, <1>5, <1>8

(* The first event is taken. *)
LEMMA TakeMoves ==
  ASSUME Shape, events # << >>, events' = Tail(events), pipe' = pipe
  PROVE  /\ Moved(<< 0, 0 >>, 0, {<< 0, 1 >>}) /\ << 0, 0 >> \notin Waiting'
         /\ << 0, 1 >> \in Waiting /\ At(<< 0, 1 >>) = Head(events) /\ Head(events) \in Event
         /\ \A b \in Waiting : ~Ahead(b, << 0, 1 >>)
<1>1. events \in Seq(Event) BY DEF Shape
<1>2. /\ \A i \in DOMAIN events' : i + 1 \in DOMAIN events /\ events'[i] = events[i + 1]
                                   /\ i \in Nat /\ i >= 1
      /\ \A i \in DOMAIN events : i \in Nat /\ (i = 1 \/ (i - 1 \in DOMAIN events' /\ i - 1 \in Nat))
      /\ 1 \in DOMAIN events /\ Head(events) = events[1] /\ Head(events) \in Event
  BY <1>1
<1>3. Processes' = Processes /\ 0 \notin Processes BY DEF Shape, Processes
<1>4. << 0, 0 >> \notin Waiting' BY <1>2, <1>3 DEF Waiting
<1>5. << 0, 1 >> \in Waiting /\ At(<< 0, 1 >>) = Head(events) BY <1>2, WaitingTypes
<1>6. \A b \in Waiting : ~Ahead(b, << 0, 1 >>) BY WaitingTypes DEF Ahead
<1>7. PICK here : here = << 0, 0 >> OBVIOUS
<1> DEFINE f(a) == IF a[1] = 0 THEN << 0, a[2] + 1 >> ELSE a
<1>8. \A a \in Waiting' : f(a) \in Waiting /\ At(a)' = At(f(a)) /\ a[1] \in {0, f(a)[1]}
  <2> SUFFICES ASSUME NEW a \in Waiting'
               PROVE  f(a) \in Waiting /\ At(a)' = At(f(a)) /\ a[1] \in {0, f(a)[1]}
    OBVIOUS
  <2>1. CASE a[1] = 0 BY <1>2, <1>3, <2>1 DEF Waiting, At
  <2>2. CASE a[1] # 0 BY <1>3, <2>2 DEF Waiting, At
  <2> QED BY <2>1, <2>2
<1>9. \A a \in Waiting' : a[1] \in Nat /\ a[2] \in Nat /\ a = << a[1], a[2] >> BY DEF Waiting
<1>10. \A a, b \in Waiting' : /\ f(a) = f(b) => a = b
                              /\ Ahead(f(a), f(b)) => Ahead(a, b)
  <2> SUFFICES ASSUME NEW a \in Waiting', NEW b \in Waiting'
               PROVE  /\ f(a) = f(b) => a = b
                      /\ Ahead(f(a), f(b)) => Ahead(a, b)
    OBVIOUS
  <2>1. a[1] \in Nat /\ a[2] \in Nat /\ a = << a[1], a[2] >> BY <1>9
  <2>2. b[1] \in Nat /\ b[2] \in Nat /\ b = << b[1], b[2] >> BY <1>9
  <2>3. CASE a[1] = 0 /\ b[1] = 0 BY <2>1, <2>2, <2>3 DEF Ahead
  <2>4. CASE a[1] # 0 /\ b[1] = 0 BY <2>1, <2>2, <2>4 DEF Ahead
  <2>5. CASE a[1] = 0 /\ b[1] # 0 BY <2>1, <2>2, <2>5 DEF Ahead
  <2>6. CASE a[1] # 0 /\ b[1] # 0 BY <2>1, <2>2, <2>6 DEF Ahead
  <2> QED BY <2>3, <2>4, <2>5, <2>6
<1>11. \A c \in Waiting \ {<< 0, 1 >>} : \E a \in Waiting' : f(a) = c
  <2> SUFFICES ASSUME NEW c \in Waiting, c # << 0, 1 >> PROVE \E a \in Waiting' : f(a) = c
    OBVIOUS
  <2>1. c[1] \in Nat /\ c[2] \in Nat /\ c = << c[1], c[2] >> BY DEF Waiting
  <2>2. CASE c[1] = 0
    <3>1. c[2] \in DOMAIN events /\ c[2] # 1 BY <1>3, <2>1, <2>2 DEF Waiting
    <3>2. c[2] - 1 \in DOMAIN events' /\ c[2] - 1 \in Nat BY <1>2, <3>1
    <3>3. << 0, c[2] - 1 >> \in Waiting' BY <3>2 DEF Waiting
    <3>4. f(<< 0, c[2] - 1 >>) = c BY <2>1, <2>2
    <3> QED BY <3>3, <3>4
  <2>3. CASE c[1] # 0 BY <1>3, <2>3 DEF Waiting
  <2> QED BY <2>2, <2>3
<1>12. PICK old \in [Waiting' -> Waiting] : \A a \in Waiting' : old[a] = f(a)
  <2>1. [a \in Waiting' |-> f(a)] \in [Waiting' -> Waiting] BY <1>8
  <2> QED BY <2>1
<1> HIDE DEF f
<1>13. Moved(here, 0, {<< 0, 1 >>})
  <2>1. Waiting' \ {here} = Waiting' /\ here \notin Waiting' BY <1>4, <1>7
  <2>2. old \in [Waiting' \ {here} -> Waiting] BY <1>12, <2>1
  <2>3. /\ \A a \in Waiting' \ {here} : At(a)' = At(old[a]) /\ a[1] \in {0, old[a][1]}
        /\ \A a, b \in Waiting' \ {here} : /\ old[a] = old[b] => a = b
                                           /\ Ahead(old[a], old[b]) => Ahead(a, b)
        /\ \A c \in Waiting \ {<< 0, 1 >>} : \E a \in Waiting' \ {here} : old[a] = c
    BY <1>8, <1>10, <1>11, <1>12, <2>1
  <2> QED BY <2>1, <2>2, <2>3, MovedBy
<1> QED BY <1>2, <1>4, <1>5, <1>6, <1>7, <1>13

(* The first line of a pipe is read and no event comes of it. *)
LEMMA DropMoves ==
  ASSUME Shape, NEW p \in Processes, pipe[p] # << >>, pipe' = [pipe EXCEPT ![p] = Tail(@)],
         events' = events
  PROVE  /\ Moved(<< 0, 0 >>, 0, {<< p, 1 >>}) /\ << 0, 0 >> \notin Waiting'
         /\ Processes' = Processes /\ At(<< p, 1 >>) = Head(pipe[p])
<1>a. events \in Seq(Event) /\ pipe \in Seq(Seq(Line)) BY DEF Shape
<1>1. p \in 1 .. Len(pipe) /\ pipe[p] \in Seq(Line) /\ p \in Nat /\ p # 0 BY <1>a DEF Processes
<1>2. PICK was \in Seq(Line) : was = pipe[p] BY <1>1
<1>3. PICK now : now = Tail(was) OBVIOUS
<1>4. /\ now \in Seq(Line) /\ Head(was) = was[1] /\ Head(was) \in Line /\ 1 \in DOMAIN was
      /\ \A k \in DOMAIN now : k + 1 \in DOMAIN was /\ now[k] = was[k + 1] /\ k \in Nat /\ k >= 1
      /\ \A k \in DOMAIN was : k \in Nat /\ (k = 1 \/ (k - 1 \in DOMAIN now /\ k - 1 \in Nat))
  <2>1. was # << >> BY <1>2
  <2> QED BY <1>2, <1>3, <2>1, SMTT(30)
<1>5. pipe' = [pipe EXCEPT ![p] = now] BY <1>2, <1>3
<1>6. /\ Len(pipe') = Len(pipe) /\ pipe'[p] = now
      /\ \A q \in 1 .. Len(pipe) : q # p => pipe'[q] = pipe[q]
  BY <1>a, <1>1, <1>4, <1>5, ReplaceParts
<1>7. Processes' = Processes /\ 0 \notin Processes
      /\ \A q \in Processes : q # p => pipe'[q] = pipe[q]
  BY <1>6 DEF Processes
<1>8. << 0, 0 >> \notin Waiting'
  <2>1. 0 \notin DOMAIN events' BY <1>a
  <2> QED BY <1>7, <2>1 DEF Waiting
<1>9. At(<< p, 1 >>) = Head(pipe[p]) BY <1>1, <1>2, <1>4 DEF At
<1>10. PICK here : here = << 0, 0 >> OBVIOUS
<1> DEFINE f(a) == IF a[1] = p THEN << p, a[2] + 1 >> ELSE a
<1>11. ASSUME NEW a \in Waiting'
       PROVE  /\ f(a) \in Waiting /\ At(a)' = At(f(a)) /\ a[1] \in {0, f(a)[1]}
              /\ a[1] \in Nat /\ a[2] \in Nat /\ a = << a[1], a[2] >>
  <2>0. a[1] \in Nat /\ a[2] \in Nat /\ a = << a[1], a[2] >> BY DEF Waiting
  <2>1. CASE a[1] = p
    <3>1. a[2] \in DOMAIN now BY <1>1, <1>6, <2>1 DEF Waiting
    <3>2. f(a) = << p, a[2] + 1 >> BY <2>1
    <3>3. a[2] + 1 \in DOMAIN pipe[p] /\ now[a[2]] = pipe[p][a[2] + 1] BY <1>2, <1>4, <3>1
    <3>4. f(a) \in Waiting /\ At(f(a)) = pipe[p][a[2] + 1] BY <3>2, <3>3, WaitingTypes
    <3>5. At(a)' = now[a[2]] BY <1>1, <1>6, <2>1 DEF At
    <3> QED BY <2>0, <2>1, <3>2, <3>3, <3>4, <3>5
  <2>2. CASE a[1] # p BY <1>1, <1>7, <2>0, <2>2 DEF Waiting, At
  <2> QED BY <2>1, <2>2
<1>12. ASSUME NEW a \in Waiting', NEW b \in Waiting'
       PROVE  (f(a) = f(b) => a = b) /\ (Ahead(f(a), f(b)) => Ahead(a, b))
  <2>1. a[1] \in Nat /\ a[2] \in Nat /\ a = << a[1], a[2] >> BY <1>11
  <2>2. b[1] \in Nat /\ b[2] \in Nat /\ b = << b[1], b[2] >> BY <1>11
  <2>3. CASE a[1] = p /\ b[1] = p BY <1>1, <2>1, <2>2, <2>3 DEF Ahead
  <2>4. CASE a[1] # p /\ b[1] = p BY <1>1, <2>1, <2>2, <2>4 DEF Ahead
  <2>5. CASE a[1] = p /\ b[1] # p BY <1>1, <2>1, <2>2, <2>5 DEF Ahead
  <2>6. CASE a[1] # p /\ b[1] # p BY <1>1, <2>1, <2>2, <2>6 DEF Ahead
  <2> QED BY <2>3, <2>4, <2>5, <2>6
<1>13. ASSUME NEW c \in Waiting, c # << p, 1 >> PROVE \E a \in Waiting' : f(a) = c
  <2>1. c[1] \in Nat /\ c[2] \in Nat /\ c = << c[1], c[2] >> BY DEF Waiting
  <2>2. CASE c[1] = p
    <3>1. c[2] \in DOMAIN was /\ c[2] # 1 BY <1>1, <1>2, <1>13, <2>1, <2>2 DEF Waiting
    <3>2. c[2] - 1 \in DOMAIN now /\ c[2] - 1 \in Nat BY <1>4, <3>1
    <3>3. << p, c[2] - 1 >> \in Waiting' BY <1>1, <1>6, <1>7, <3>2 DEF Waiting
    <3>4. f(<< p, c[2] - 1 >>) = c BY <2>1, <2>2
    <3> QED BY <3>3, <3>4
  <2>3. CASE c[1] # p BY <1>7, <2>1, <2>3 DEF Waiting
  <2> QED BY <2>2, <2>3
<1>14. PICK old \in [Waiting' -> Waiting] : \A a \in Waiting' : old[a] = f(a)
  <2>1. [a \in Waiting' |-> f(a)] \in [Waiting' -> Waiting] BY <1>11
  <2> QED BY <2>1
<1> HIDE DEF f
<1>15. Moved(here, 0, {<< p, 1 >>})
  <2>1. Waiting' \ {here} = Waiting' /\ here \notin Waiting' BY <1>8, <1>10
  <2>2. old \in [Waiting' \ {here} -> Waiting] BY <1>14, <2>1
  <2>3. /\ \A a \in Waiting' \ {here} : At(a)' = At(old[a]) /\ a[1] \in {0, old[a][1]}
        /\ \A a, b \in Waiting' \ {here} : /\ old[a] = old[b] => a = b
                                           /\ Ahead(old[a], old[b]) => Ahead(a, b)
        /\ \A c \in Waiting \ {<< p, 1 >>} : \E a \in Waiting' \ {here} : old[a] = c
    BY <1>11, <1>12, <1>13, <1>14, <2>1
  <2> QED BY <2>1, <2>2, <2>3, MovedBy
<1> QED BY <1>7, <1>8, <1>9, <1>10, <1>15

(* The first line of a pipe is read. *)
LEMMA ReadMoves ==
  ASSUME Shape, NEW p \in Processes, pipe[p] # << >>, pipe' = [pipe EXCEPT ![p] = Tail(@)],
         events' = Append(events, Head(pipe[p]))
  PROVE  /\ Moved(<< 0, 0 >>, 0, {}) /\ << 0, 0 >> \notin Waiting' /\ Processes' = Processes
         /\ Head(pipe[p]) \in Line /\ << p, 1 >> \in Waiting /\ At(<< p, 1 >>) = Head(pipe[p])
         /\ \A a \in Waiting' :
              \E b \in Waiting : At(a)' = At(b) /\ a[1] \in {0, b[1]}
<1>a. events \in Seq(Event) /\ pipe \in Seq(Seq(Line)) BY DEF Shape
<1>1. p \in 1 .. Len(pipe) /\ pipe[p] \in Seq(Line) /\ p \in Nat /\ p # 0 BY <1>a DEF Processes
<1>2. PICK was \in Seq(Line) : was = pipe[p] BY <1>1
<1>3. PICK now : now = Tail(was) OBVIOUS
<1>4. /\ now \in Seq(Line) /\ Head(was) = was[1] /\ Head(was) \in Line
      /\ 1 \in DOMAIN was
      /\ \A k \in DOMAIN now : /\ k + 1 \in DOMAIN was /\ now[k] = was[k + 1]
                               /\ k \in Nat /\ k >= 1
      /\ \A k \in DOMAIN was : k \in Nat /\ (k = 1 \/ (k - 1 \in DOMAIN now /\ k - 1 \in Nat))
  <2>1. was # << >> BY <1>2
  <2> QED BY <1>2, <1>3, <2>1, SMTT(30)
<1>5. pipe' = [pipe EXCEPT ![p] = now] BY <1>2, <1>3
<1>6. /\ Len(pipe') = Len(pipe) /\ pipe'[p] = now
      /\ \A q \in 1 .. Len(pipe) : q # p => pipe'[q] = pipe[q]
  BY <1>a, <1>1, <1>4, <1>5, ReplaceParts
<1>7. Processes' = Processes /\ 0 \notin Processes
      /\ \A q \in Processes : q # p => pipe'[q] = pipe[q]
  BY <1>6 DEF Processes
<1>8. PICK n \in Nat : n = Len(events) + 1 BY <1>a
<1>9. PICK l \in Event : l = was[1] BY <1>4, EventTypes
<1>10. /\ DOMAIN events' = DOMAIN events \cup {n} /\ n \notin DOMAIN events /\ events'[n] = l
       /\ n # 0 /\ \A i \in DOMAIN events : events'[i] = events[i] /\ i < n /\ i # 0 /\ i \in Nat
  <2>1. events' = Append(events, l) BY <1>2, <1>4, <1>9
  <2>2. /\ DOMAIN events' = DOMAIN events \cup {n} /\ n \notin DOMAIN events /\ events'[n] = l
        /\ \A i \in DOMAIN events : events'[i] = events[i] /\ i < n
    BY <1>a, <1>8, <2>1
  <2>3. n # 0 /\ \A i \in DOMAIN events : i # 0 /\ i \in Nat BY <1>a, <1>8
  <2> QED BY <2>2, <2>3
<1>11. << 0, 0 >> \notin Waiting' BY <1>7, <1>10 DEF Waiting
<1> DEFINE f(a) == IF a = << 0, n >> THEN << p, 1 >>
                   ELSE IF a[1] = p THEN << p, a[2] + 1 >> ELSE a
<1>12. ASSUME NEW a \in Waiting'
       PROVE  /\ f(a) \in Waiting /\ At(a)' = At(f(a)) /\ a[1] \in {0, f(a)[1]}
              /\ a[1] \in Nat /\ a[2] \in Nat /\ a = << a[1], a[2] >> /\ a[2] >= 1
              /\ a[1] = 0 => a[2] <= n
  <2>0. a[1] \in Nat /\ a[2] \in Nat /\ a = << a[1], a[2] >> BY DEF Waiting
  <2>1. CASE a = << 0, n >>
    <3>1. f(a) = << p, 1 >> /\ a[1] = 0 /\ a[2] = n BY <2>1
    <3>2. << p, 1 >> \in Waiting /\ At(<< p, 1 >>) = l
      BY <1>1, <1>2, <1>4, <1>9, WaitingTypes
    <3>3. At(a)' = l BY <1>10, <3>1 DEF At
    <3> QED BY <1>10, <2>0, <3>1, <3>2, <3>3
  <2>2. CASE a[1] = p
    <3>1. a[2] \in DOMAIN now BY <1>1, <1>6, <2>2 DEF Waiting
    <3>2. f(a) = << p, a[2] + 1 >> BY <1>1, <2>2
    <3>3. a[2] + 1 \in DOMAIN pipe[p] /\ now[a[2]] = pipe[p][a[2] + 1] BY <1>2, <1>4, <3>1
    <3>4. f(a) \in Waiting /\ At(f(a)) = pipe[p][a[2] + 1] BY <3>2, <3>3, WaitingTypes
    <3>5. At(a)' = now[a[2]] BY <1>1, <1>6, <2>2 DEF At
    <3> QED BY <1>1, <1>4, <2>0, <2>2, <3>1, <3>2, <3>3, <3>4, <3>5
  <2>3. CASE a # << 0, n >> /\ a[1] = 0
    <3>1. a[2] \in DOMAIN events BY <1>7, <1>10, <2>0, <2>3 DEF Waiting
    <3>2. f(a) = a BY <1>1, <2>3
    <3>3. a \in Waiting /\ At(a)' = At(a) BY <1>10, <2>0, <2>3, <3>1 DEF Waiting, At
    <3>4. a[2] <= n /\ a[2] >= 1 BY <1>10, <2>0, <3>1
    <3> QED BY <2>0, <2>3, <3>2, <3>3, <3>4
  <2>4. CASE a[1] # 0 /\ a[1] # p BY <1>7, <2>0, <2>4, WaitingTypes DEF Waiting, At
  <2> QED BY <2>1, <2>2, <2>3, <2>4
<1>13. ASSUME NEW a \in Waiting', NEW b \in Waiting'
       PROVE  /\ f(a) = f(b) => a = b
              /\ Ahead(f(a), f(b)) => Ahead(a, b)
  <2>1. /\ a[1] \in Nat /\ a[2] \in Nat /\ a = << a[1], a[2] >> /\ a[2] >= 1
        /\ a[1] = 0 => a[2] <= n
    BY <1>12
  <2>2. /\ b[1] \in Nat /\ b[2] \in Nat /\ b = << b[1], b[2] >> /\ b[2] >= 1
        /\ b[1] = 0 => b[2] <= n
    BY <1>12
  <2>3. CASE a = << 0, n >>
    <3>1. CASE b = << 0, n >> BY <1>1, <2>3, <3>1 DEF Ahead
    <3>2. CASE b[1] = p BY <1>1, <2>2, <2>3, <3>2 DEF Ahead
    <3>3. CASE b[1] # p /\ b # << 0, n >> BY <1>1, <2>2, <2>3, <3>3 DEF Ahead
    <3> QED BY <3>1, <3>2, <3>3
  <2>4. CASE a[1] = p
    <3>0. f(a) = << p, a[2] + 1 >> BY <1>1, <2>4
    <3>1. CASE b = << 0, n >>
      <4>1. f(b) = << p, 1 >> BY <3>1
      <4> QED BY <1>1, <2>1, <2>4, <3>0, <4>1 DEF Ahead
    <3>2. CASE b[1] = p
      <4>1. f(b) = << p, b[2] + 1 >> BY <1>1, <3>2
      <4>2. f(a) = f(b) => a[2] + 1 = b[2] + 1
        <5> HIDE DEF f
        <5> QED BY <3>0, <4>1
      <4>3. f(a) = f(b) => a = b
        <5> HIDE DEF f
        <5>1. f(a) = f(b) => a[2] = b[2] BY <2>1, <2>2, <4>2
        <5>2. a[2] = b[2] => << a[1], a[2] >> = << b[1], b[2] >> BY <2>4, <3>2
        <5> QED BY <2>1, <2>2, <5>1, <5>2
      <4>4. Ahead(f(a), f(b)) => a[2] + 1 < b[2] + 1
        <5> HIDE DEF f
        <5> QED BY <1>1, <3>0, <4>1 DEF Ahead
      <4>5. Ahead(f(a), f(b)) => Ahead(a, b) BY <2>1, <2>2, <2>4, <3>2, <4>4 DEF Ahead
      <4> QED BY <4>3, <4>5
    <3>3. CASE b[1] # p /\ b # << 0, n >>
      <4>1. f(b) = b BY <3>3
      <4> QED BY <1>1, <2>1, <2>2, <2>4, <3>0, <3>3, <4>1 DEF Ahead
    <3> QED BY <3>1, <3>2, <3>3
  <2>5. CASE a[1] # p /\ a # << 0, n >>
    <3>0. f(a) = a BY <2>5
    <3>1. CASE b = << 0, n >>
      <4>1. f(b) = << p, 1 >> BY <3>1
      <4>2. a[1] = 0 => a[2] # n BY <2>1, <2>5
      <4> QED BY <1>1, <2>1, <2>2, <2>5, <3>0, <3>1, <4>1, <4>2 DEF Ahead
    <3>2. CASE b[1] = p
      <4>1. f(b) = << p, b[2] + 1 >> BY <1>1, <3>2
      <4> QED BY <1>1, <2>1, <2>2, <2>5, <3>0, <3>2, <4>1 DEF Ahead
    <3>3. CASE b[1] # p /\ b # << 0, n >>
      <4>1. f(b) = b BY <3>3
      <4> HIDE DEF f
      <4> QED BY <3>0, <4>1
    <3> QED BY <3>1, <3>2, <3>3
  <2> QED BY <2>3, <2>4, <2>5
<1>14. ASSUME NEW c \in Waiting PROVE \E a \in Waiting' : f(a) = c
  <2>1. /\ c[1] \in Nat /\ c[2] \in Nat /\ c = << c[1], c[2] >>
    BY DEF Waiting
  <2>2. CASE c[1] = 0
    <3>1. c[2] \in DOMAIN events BY <1>7, <2>2 DEF Waiting
    <3>2. c \in Waiting' /\ c # << 0, n >> BY <1>10, <2>1, <2>2, <3>1 DEF Waiting
    <3> QED BY <1>1, <2>2, <3>2
  <2>3. CASE c[1] # 0 /\ c[1] # p BY <1>7, <2>1, <2>3 DEF Waiting
  <2>4. CASE c[1] = p
    <3>1. c[2] \in DOMAIN was BY <1>1, <1>2, <2>4 DEF Waiting
    <3>2. CASE c[2] = 1 BY <1>10, <2>1, <2>4, <3>2 DEF Waiting
    <3>3. CASE c[2] # 1
      <4>1. c[2] - 1 \in DOMAIN now /\ c[2] - 1 \in Nat BY <1>4, <3>1, <3>3
      <4>2. << p, c[2] - 1 >> \in Waiting' BY <1>1, <1>6, <1>7, <4>1 DEF Waiting
      <4>3. f(<< p, c[2] - 1 >>) = c BY <1>1, <2>1, <2>4
      <4> QED BY <4>2, <4>3
    <3> QED BY <3>2, <3>3
  <2> QED BY <2>2, <2>3, <2>4
<1>15. PICK here : here = << 0, 0 >> OBVIOUS
<1>16. PICK old \in [Waiting' -> Waiting] : \A a \in Waiting' : old[a] = f(a)
  <2>1. [a \in Waiting' |-> f(a)] \in [Waiting' -> Waiting] BY <1>12
  <2> QED BY <2>1
<1> HIDE DEF f
<1>17. Moved(here, 0, {})
  <2>1. Waiting' \ {here} = Waiting' /\ here \notin Waiting' BY <1>11, <1>15
  <2>2. old \in [Waiting' \ {here} -> Waiting] BY <1>16, <2>1
  <2>3. /\ \A a \in Waiting' \ {here} : At(a)' = At(old[a]) /\ a[1] \in {0, old[a][1]}
        /\ \A a, b \in Waiting' \ {here} : /\ old[a] = old[b] => a = b
                                           /\ Ahead(old[a], old[b]) => Ahead(a, b)
        /\ \A c \in Waiting \ {} : \E a \in Waiting' \ {here} : old[a] = c
    BY <1>12, <1>13, <1>14, <1>16, <2>1
  <2> QED BY <2>1, <2>2, <2>3, MovedBy
<1>18. << p, 1 >> \in Waiting /\ At(<< p, 1 >>) = Head(pipe[p])
  BY <1>1, <1>2, <1>4, WaitingTypes
<1> QED BY <1>2, <1>4, <1>7, <1>11, <1>12, <1>15, <1>17, <1>18

-----------------------------------------------------------------------------
(* Turns are closed in the order in which they were spoken.                *)
LEMMA QueuesKept ==
  ASSUME Shape, Shape', WaitingSound, InOrder, ExitsFirst, SaidSound', MoreSaid,
         NEW fresh, NEW e, NEW gone, Moved(fresh, e, gone),
         fresh \in Waiting' => Placed(fresh, e),
         session' = session \/ \A m \in Messages' : said'[m].process # session'
  PROVE  WaitingSound' /\ InOrder' /\ ExitsFirst' /\ \A t : Over(t) => Over(t)'
<1>1. PICK old \in [Waiting' \ {fresh} -> Waiting] :
        /\ \A a \in Waiting' \ {fresh} : At(a)' = At(old[a]) /\ a[1] \in {0, old[a][1]}
        /\ \A a, b \in Waiting' \ {fresh} : Ahead(old[a], old[b]) => Ahead(a, b)
        /\ fresh \in Waiting' => At(fresh)' = e
  BY DEF Moved
<1>2. \A a \in Waiting' \ {fresh} : old[a] \in Waiting BY <1>1
<1>3. ASSUME NEW a \in Waiting' \ {fresh}, Speaks(At(a)')
      PROVE  LET l == At(old[a])
             IN /\ Speaks(l) /\ At(a)' = l /\ l.message \in Messages
                /\ l.message \in Messages' /\ said'[l.message].turn = l.turn
                /\ said'[l.message].process = said[l.message].process
                /\ a[1] # 0 => said'[l.message].process = a[1]
  <2>1. PICK l : l = At(old[a]) OBVIOUS
  <2>2. At(a)' = l /\ Speaks(l) /\ a[1] \in {0, old[a][1]} BY <1>1, <1>3, <2>1
  <2>3. /\ l.message \in Messages /\ said[l.message].turn = l.turn
        /\ old[a][1] # 0 => said[l.message].process = old[a][1]
    BY <1>2, <2>1, <2>2 DEF WaitingSound, LineSound
  <2>4. /\ l.message \in Messages' /\ said'[l.message].turn = said[l.message].turn
        /\ said'[l.message].process = said[l.message].process
    BY <2>3 DEF MoreSaid
  <2> QED BY <2>1, <2>2, <2>3, <2>4
<1>4. ASSUME NEW a \in Waiting' \ {fresh}, At(a)'.type = "turn"
      PROVE  LET l == At(old[a])
             IN /\ l.type = "turn" /\ At(a)' = l /\ l.turn # codex.turn
                /\ l.turn \in 1 .. count'.turns /\ l.turn # codex'.turn
  BY <1>1, <1>2, <1>4 DEF WaitingSound, LineSound, MoreSaid
<1>5. WaitingSound'
  <2> SUFFICES ASSUME NEW a \in Waiting'
               PROVE  /\ LineSound(At(a))'
                      /\ (Speaks(At(a)) /\ a[1] # 0 => said[At(a).message].process = a[1])'
    BY DEF WaitingSound
  <2>1. CASE a # fresh
    BY <1>3, <1>4, <2>1 DEF LineSound, Speaks
  <2>2. CASE a = fresh BY <1>1, <2>2 DEF LineSound, Speaks, Placed
  <2> QED BY <2>1, <2>2
<1>6. InOrder'
  <2> SUFFICES ASSUME NEW a \in Waiting', NEW b \in Waiting', Speaks(At(a)'),
                      At(b)'.type = "turn", At(a)'.turn = At(b)'.turn
               PROVE  Ahead(a, b)
    BY DEF InOrder, Speaks, Ahead
  <2>1. CASE a # fresh /\ b # fresh BY <1>1, <1>2, <2>1 DEF InOrder
  <2>2. CASE a = fresh /\ b # fresh BY <1>1, <1>4, <2>2 DEF Placed
  <2>3. CASE b = fresh /\ a # fresh BY <1>1, <2>3 DEF Placed
  <2>4. CASE a = fresh /\ b = fresh BY <2>4 DEF Speaks
  <2> QED BY <2>1, <2>2, <2>3, <2>4
<1>7. ExitsFirst'
  <2> SUFFICES ASSUME NEW i \in DOMAIN events', events'[i].type = "exited",
                      NEW b \in Waiting', Speaks(At(b)'), Mine(At(b).message)'
               PROVE  Ahead(<< 0, i >>, b)
    BY DEF ExitsFirst, Speaks, Ahead
  <2>1. << 0, i >> \in Waiting' /\ At(<< 0, i >>)' = events'[i]
    <3>1. events' \in Seq(Event) BY DEF Shape
    <3>2. i \in Nat BY <3>1
    <3> QED BY <3>2 DEF Waiting, At
  <2>2. PICK m : m = At(b)'.message OBVIOUS
  <2>3. m \in Messages' /\ said'[m].process = session' BY <1>5, <2>2 DEF WaitingSound, LineSound, Speaks, Mine
  <2>4. session' = session /\ session' # None BY <2>3 DEF SaidSound, Processes, None
  <2>5. PICK a : a = << 0, i >> OBVIOUS
  <2>6. a # fresh BY <1>1, <2>1, <2>4, <2>5 DEF Placed
  <2>7. /\ old[a] \in Waiting /\ At(old[a]).type = "exited"
    BY <1>1, <1>2, <2>1, <2>5, <2>6
  <2>8. /\ old[a] = << 0, old[a][2] >> /\ old[a][2] \in DOMAIN events
        /\ events[old[a][2]].type = "exited"
    BY <2>7, WaitingTypes DEF Line
  <2>9. CASE b = fresh BY <1>1, <2>9 DEF Placed, Ahead
  <2>10. CASE b # fresh
    <3>1. At(b)' = At(old[b]) /\ old[b] \in Waiting BY <1>1, <1>2, <2>10
    <3>2. m \in Messages /\ said'[m].process = said[m].process BY <1>3, <2>2, <2>10
    <3>3. Mine(At(old[b]).message) BY <2>2, <2>3, <2>4, <3>1, <3>2 DEF Mine
    <3>4. Ahead(old[a], old[b]) BY <2>8, <3>1, <3>3 DEF ExitsFirst
    <3> QED BY <1>1, <2>1, <2>5, <2>6, <2>10, <3>4
  <2> QED BY <2>9, <2>10
<1>8. ASSUME NEW t, Over(t) PROVE Over(t)'
  <2>1. t \in 1 .. count'.turns /\ t # codex'.turn /\ t # codex.turn BY <1>8 DEF Over, MoreSaid
  <2>2. ASSUME NEW a \in Waiting', Speaks(At(a)') PROVE At(a)'.turn # t
    <3>1. CASE a = fresh BY <1>1, <2>1, <2>2, <3>1 DEF Placed
    <3>2. CASE a # fresh
      <4>1. At(a)' = At(old[a]) /\ old[a] \in Waiting BY <1>1, <1>2, <3>2
      <4> QED BY <1>8, <2>2, <4>1 DEF Over
    <3> QED BY <3>1, <3>2
  <2> QED BY <2>1, <2>2 DEF Over, Speaks
<1> QED BY <1>5, <1>6, <1>7, <1>8

(* A message that is open is known. *)
LEMMA OpenKnown ==
  ASSUME KeysSaid, NEW m, Open(m)
  PROVE  m \in Messages
<1>1. Unknown.state # "streaming" BY DEF Unknown
<1> QED BY <1>1 DEF Open, Message, KeysSaid

(* What is outside the ingestion leaves it as it is. *)
LEMMA IngestionKept ==
  ASSUME KeysSaid, TodoForm, IdsSaid, OpenRemembered, FinishedOver, ExitsAlone, MoreSaid,
         todo' = todo, caches' = caches, finished' = finished,
         thread'.messages = thread.messages,
         \A t : Over(t) => Over(t)',
         \/ session' = session /\ (Exits' => Exits)
         \/ \A m \in Messages' : said'[m].process # session'
  PROVE  KeysSaid' /\ TodoForm' /\ IdsSaid' /\ OpenRemembered' /\ FinishedOver' /\ ExitsAlone'
<1>1. \A m : Message(m)' = Message(m) /\ (Open(m)' <=> Open(m))
  BY DEF Message, Open
<1>2. \A t : InTurn(t)' = InTurn(t) BY DEF InTurn
<1>3. \A m \in Messages : m \in Messages' /\ said'[m].turn = said[m].turn
                          /\ said'[m].process = said[m].process
  BY DEF MoreSaid
<1>4. \A m, t : MessageOf(m, t) => MessageOf(m, t)' BY <1>3 DEF MessageOf
<1>5. \A m \in Messages : Mine(m)' => Mine(m) /\ session' = session /\ (Exits' => Exits)
  BY <1>3 DEF Mine
<1>6. \A m \in Messages : Unhurried(m) => Unhurried(m)' BY <1>5 DEF Unhurried
<1>7. KeysSaid' BY <1>3 DEF KeysSaid
<1>8. IdsSaid' BY <1>3 DEF IdsSaid
<1>9. \A m \in Messages' : Open(m)' => m \in Messages /\ Open(m) BY <1>1, OpenKnown
<1>10. OpenRemembered' BY <1>2, <1>3, <1>5, <1>9 DEF OpenRemembered
<1>11. ExitsAlone' BY <1>5, <1>9 DEF ExitsAlone
<1>12. FinishedOver' BY DEF FinishedOver
<1>13. TodoForm'
  <2>1. CASE todo = << >> BY <2>1 DEF TodoForm
  <2>2. CASE SingleForm
    <3>1. PICK op \in Operation :
            /\ todo = << op >>
            /\ \/ op.do \in {"mode", "session", "activity", "clear", "upsert"}
               \/ op.do = "plan" /\ op.turn \notin finished
               \/ op.do = "delta" /\ MessageOf(op.message, op.turn) /\ Unhurried(op.message)
      BY <2>2 DEF SingleForm
    <3>2. op.do = "delta" /\ MessageOf(op.message, op.turn) /\ Unhurried(op.message)
            => MessageOf(op.message, op.turn)' /\ Unhurried(op.message)'
      BY <1>4, <1>6 DEF MessageOf
    <3>3. SingleForm' BY <3>1, <3>2 DEF SingleForm
    <3> QED BY <3>3 DEF TodoForm
  <2>3. CASE ExitForm BY <2>3 DEF ExitForm, TodoForm
  <2>4. CASE ItemForm
    <3>1. \A m, t : MessageOf(m, t) /\ Unhurried(m) => MessageOf(m, t)' /\ Unhurried(m)'
      BY <1>4, <1>6 DEF MessageOf
    <3>2. ItemForm' BY <1>1, <1>2, <2>4, <3>1 DEF ItemForm
    <3> QED BY <3>2 DEF TodoForm
  <2>5. CASE TurnForm BY <1>1, <1>2, <2>5 DEF Sweeps, Swept, TurnForm, TodoForm
  <2> QED BY <2>1, <2>2, <2>3, <2>4, <2>5 DEF TodoForm
<1> QED BY <1>7, <1>8, <1>10, <1>11, <1>12, <1>13

(* A step outside the ingestion keeps all of it, when what it adds to the  *)
(* queues is in its place.                                                 *)
LEMMA OutsideKeeps ==
  ASSUME Shape, Shape', Settling, SaidSound', MoreSaid,
         NEW fresh, NEW e, NEW gone, Moved(fresh, e, gone),
         fresh \in Waiting' => Placed(fresh, e),
         todo' = todo, caches' = caches, finished' = finished,
         thread'.messages = thread.messages,
         \/ session' = session /\ (Exits' => Exits)
         \/ \A m \in Messages' : said'[m].process # session'
  PROVE  Settling'
<1>1. /\ WaitingSound /\ InOrder /\ ExitsFirst /\ ExitsAlone /\ KeysSaid
      /\ TodoForm /\ IdsSaid /\ OpenRemembered /\ FinishedOver
  BY DEF Settling
<1>2. WaitingSound' /\ InOrder' /\ ExitsFirst' /\ \A t : Over(t) => Over(t)'
  BY <1>1, QueuesKept
<1>3. KeysSaid' /\ TodoForm' /\ IdsSaid' /\ OpenRemembered' /\ FinishedOver' /\ ExitsAlone'
  BY <1>1, <1>2, IngestionKept
<1> QED BY <1>2, <1>3 DEF Settling

(* Codex writes a line. *)
LEMMA WriteSettles ==
  ASSUME Shape, Shape', Settling, SaidSound', MoreSaid,
         NEW line \in Line, Write(line), events' = events, session' = session,
         UNCHANGED ingestionVars, UNCHANGED thread,
         Speaks(line) =>
           /\ line.message \in Messages' /\ said'[line.message].turn = line.turn
           /\ said'[line.message].process = codex.process /\ line.turn = codex.turn,
         line.type = "turn" => line.turn = codex.turn /\ codex.turn # None /\ codex'.turn = None
  PROVE  Settling'
<1>1. PICK here : here = << codex.process, Len(pipe[codex.process]) + 1 >> OBVIOUS
<1>2. /\ Moved(here, line, {}) /\ here \in Waiting' /\ here[1] # 0 /\ here[1] = codex.process
      /\ \A b \in Waiting : b[1] \in {0, here[1]} => Ahead(b, here)
      /\ \A b \in Waiting' : b = here \/ (b \in Waiting /\ At(b)' = At(b))
  BY <1>1, WriteMoves
<1>3. WaitingSound /\ SaidSound BY DEF Settling
<1>4. Placed(here, line)
  <2>1. ASSUME line.type = "turn"
        PROVE  /\ line.turn \in 1 .. count'.turns /\ line.turn # codex'.turn
               /\ \A a \in Waiting' \ {here} :
                    Speaks(At(a)') /\ At(a)'.turn = line.turn => Ahead(a, here)
    <3>1. line.turn \in 1 .. count.turns
      <4>1. codex.turn \in 0 .. count.turns /\ count.turns \in Nat BY DEF Shape, Counts
      <4> QED BY <2>1, <4>1 DEF None
    <3>2. line.turn \in 1 .. count'.turns /\ line.turn # codex'.turn
      BY <2>1, <3>1 DEF MoreSaid, None
    <3>3. ASSUME NEW a \in Waiting' \ {here}, Speaks(At(a)'), At(a)'.turn = line.turn
          PROVE  Ahead(a, here)
      BY <1>2, <1>3, <2>1, <3>3 DEF WaitingSound, LineSound, SaidSound
    <3> QED BY <3>2, <3>3
  <2>2. line.type # "exited" BY DEF Line
  <2> QED BY <1>2, <2>1, <2>2 DEF Placed
<1>5. Exits' => Exits BY DEF Exits, ingestionVars
<1> QED BY <1>2, <1>4, <1>5, OutsideKeeps DEF ingestionVars

(* Nothing is added to the queues. *)
LEMMA RestSettles ==
  ASSUME Shape, Shape', Settling, SaidSound', MoreSaid, events' = events, pipe' = pipe,
         session' = session, UNCHANGED ingestionVars, thread'.messages = thread.messages
  PROVE  Settling'
<1>1. PICK here : here = << 0, 0 >> OBVIOUS
<1>2. Moved(here, 0, {}) /\ here \notin Waiting' BY <1>1, RestMoves
<1>3. Exits' => Exits BY DEF Exits, ingestionVars
<1> QED BY <1>2, <1>3, OutsideKeeps DEF ingestionVars

(* Something that is no line is added to the events. *)
LEMMA EmitSettles ==
  ASSUME Shape, Shape', Settling, SaidSound', MoreSaid,
         NEW e \in Event, events' = Append(events, e), e.type \notin {"delta", "item", "turn"},
         NEW S, S \subseteq Processes, Processes \subseteq Processes',
         \A p \in Processes \ S : pipe'[p] = pipe[p],
         \A p \in Processes' : p \in Processes \ S \/ DOMAIN pipe'[p] = {},
         UNCHANGED ingestionVars, thread'.messages = thread.messages,
         \/ session' = session /\ e.type # "exited"
         \/ session' = None
         \/ session' \notin Processes /\ e.type # "exited" /\ said' = said
  PROVE  Settling'
<1>0. 0 \notin Processes' BY DEF Processes
<1>1. PICK here : here = << 0, Len(events) + 1 >> OBVIOUS
<1>2. Moved(here, e, {a \in Waiting : a[1] \in S}) BY <1>0, <1>1, EmitMoves
<1>4. Placed(here, e) BY DEF Placed, Speaks
<1>5. SaidSound BY DEF Settling
<1>6. CASE session' = session /\ e.type # "exited"
  <2>1. Exits' => Exits
    <3>1. \A i \in DOMAIN events' : events'[i] = e \/ (i \in DOMAIN events /\ events'[i] = events[i])
      <4>1. events \in Seq(Event) BY DEF Shape
      <4> QED BY <4>1
    <3> QED BY <1>6, <3>1 DEF Exits, ingestionVars
  <2> QED BY <1>2, <1>4, <1>6, <2>1, OutsideKeeps DEF ingestionVars
<1>7. CASE \A m \in Messages' : said'[m].process # session'
  BY <1>2, <1>4, <1>7, OutsideKeeps DEF ingestionVars
<1>8. CASE session' = None BY <1>7, <1>8 DEF SaidSound, Processes, None
<1>9. CASE session' \notin Processes /\ e.type # "exited" /\ said' = said
  BY <1>5, <1>7, <1>9 DEF SaidSound, Messages
<1> QED BY <1>6, <1>8, <1>9

(* What was said stays, and codex goes on with the turn, ends it or begins *)
(* another.                                                                *)
LEMMA SameSaid ==
  ASSUME Shape, SaidSound, said' = said, Processes \subseteq Processes', count'.turns \in Nat,
         count'.turns >= count.turns,
         \/ /\ codex'.turn = codex.turn /\ codex'.process = codex.process
            /\ codex'.message \in {codex.message, None}
         \/ codex'.turn = None /\ codex'.message = None
         \/ codex'.turn = count.turns + 1 /\ codex'.message = None
  PROVE  SaidSound' /\ MoreSaid
<1>1. count.turns \in Nat /\ codex.turn \in Nat BY DEF Shape, Counts, Codexes
<1>2. Messages' = Messages BY DEF Messages
<1>3. \A t \in 1 .. count.turns : /\ t \in 1 .. count'.turns /\ t # None /\ t # count.turns + 1
  BY <1>1 DEF None
<1>4. MoreSaid BY <1>2, <1>3 DEF MoreSaid
<1>5. \A m \in Messages : /\ said'[m].turn \in 1 .. count'.turns /\ said'[m].process \in Processes'
                          /\ said'[m].turn # None /\ said'[m].turn # count.turns + 1
  BY <1>3 DEF SaidSound
<1>6. \A m \in Messages : said'[m].turn = codex'.turn => said'[m].process = codex'.process
  BY <1>5 DEF SaidSound
<1>7. codex'.message # None => said'[codex'.message].turn = codex'.turn BY DEF SaidSound
<1> QED BY <1>2, <1>4, <1>5, <1>6, <1>7 DEF SaidSound

(* What codex says and does. *)
LEMMA SaySettles ==
  ASSUME Shape, Shape', Settling,
         StartTurn \/ OtherTurn \/ Begin \/ Say \/ EndMessage \/ EndTurn \/ Ask \/ Die
  PROVE  Settling'
<1>1. /\ codex \in Codexes /\ count \in Counts /\ said \in Seq(MessageLog) /\ SaidSound
      /\ codex.process = Len(pipe) /\ codex.process # None /\ codex.process \in Nat
      /\ codex.turn \in 0 .. count.turns /\ codex.turn \in Nat /\ codex.message \in 0 .. Len(said)
      /\ count.turns \in Nat
  BY DEF Shape, Settling, Codexes, Counts
<1>2. /\ \A m \in Messages : /\ said[m] \in MessageLog /\ said[m].plan \in BOOLEAN
                             /\ said[m].chunks \in Nat /\ said[m].chunks + 1 \in Nat /\ m \in Nat
      /\ codex.process \in Processes
      /\ codex.message # None => codex.message \in Messages
      /\ Len(said) + 1 \in Nat /\ 1 \in Nat /\ Len(said) \in Nat /\ count.asks + 1 \in Nat
  <2>0. count.asks + 1 \in Nat BY <1>1 DEF Counts
  <2>1. Len(said) \in Nat /\ Len(said) + 1 \in Nat BY <1>1
  <2>2. \A m \in Messages : said[m] \in MessageLog /\ m \in Nat BY <1>1 DEF Messages
  <2>3. \A row \in MessageLog : row.plan \in BOOLEAN /\ row.chunks \in Nat /\ row.chunks + 1 \in Nat
    BY DEF MessageLog
  <2>4. codex.process \in Processes BY <1>1 DEF Processes, None
  <2>5. codex.message # None => codex.message \in Messages BY <1>1, <2>1 DEF Messages, None
  <2> QED BY <2>0, <2>1, <2>2, <2>3, <2>4, <2>5
<1>3. ASSUME StartTurn \/ OtherTurn PROVE Settling'
  <2>1. PICK mode \in scope.modes : events' = Append(events, [type |-> "mode", mode |-> mode])
    BY <1>3 DEF StartTurn, OtherTurn
  <2>2. [type |-> "mode", mode |-> mode] \in Event
    BY BoundsAssumption, EventTypes DEF Modes, Shape
  <2>3. PICK e \in Event : e = [type |-> "mode", mode |-> mode] BY <2>2
  <2>4. e.type = "mode" BY <2>3
  <2>5. /\ UNCHANGED << said, pipe, session, thread >> /\ UNCHANGED ingestionVars
    BY <1>3 DEF StartTurn, OtherTurn, managerVars, codexVars
  <2>6. SaidSound' /\ MoreSaid
    <3>1. CASE StartTurn
      <4>1. count'.turns = count.turns + 1 BY <1>1, <3>1, BumpParts DEF StartTurn
      <4>2. codex'.turn = count.turns + 1 /\ codex'.message = codex.message BY <1>1, <3>1 DEF StartTurn, Codexes
      <4>3. codex.message = None BY <1>1, <1>2, <3>1 DEF StartTurn, SaidSound, None
      <4> QED BY <1>1, <2>5, <4>1, <4>2, <4>3, SameSaid DEF Processes
    <3>2. CASE OtherTurn
      <4>1. count'.turns = count.turns BY <1>1, <3>2, BumpParts DEF OtherTurn
      <4>2. codex' = codex BY <3>2 DEF OtherTurn, codexVars
      <4> QED BY <1>1, <2>5, <4>1, <4>2, SameSaid DEF Processes
    <3> QED BY <1>3, <3>1, <3>2
  <2>7. events' = Append(events, e) BY <2>1, <2>3
  <2>8. Processes' = Processes /\ \A p \in Processes \ {} : pipe'[p] = pipe[p] BY <2>5 DEF Processes
  <2> QED BY <2>4, <2>5, <2>6, <2>7, <2>8, EmitSettles
<1>4. ASSUME Begin PROVE Settling'
  <2>1. PICK plan \in scope.plans :
          /\ said' = Append(said, [turn |-> codex.turn, process |-> codex.process,
                                   plan |-> plan, chunks |-> 1])
          /\ Write([type |-> "delta", plan |-> plan, turn |-> codex.turn,
                    message |-> Len(said) + 1, chunk |-> 1])
    BY <1>4 DEF Begin
  <2>2. plan \in BOOLEAN BY BoundsAssumption DEF Shape
  <2>3. PICK line \in Line : line = [type |-> "delta", plan |-> plan, turn |-> codex.turn,
                                     message |-> Len(said) + 1, chunk |-> 1]
    BY <1>1, <1>2, <2>2, LineTypes
  <2>4. /\ codex'.turn = codex.turn /\ codex'.process = codex.process
        /\ codex'.message = Len(said) + 1 /\ count' = count /\ codex.turn # None
    BY <1>1, <1>4 DEF Begin, Free, Running, Codexes
  <2>5. PICK row \in MessageLog : /\ row = [turn |-> codex.turn, process |-> codex.process,
                                           plan |-> plan, chunks |-> 1]
                                  /\ row.turn = codex.turn /\ row.process = codex.process
    <3>1. [turn |-> codex.turn, process |-> codex.process, plan |-> plan, chunks |-> 1] \in MessageLog
      BY <1>1, <1>2, <2>2 DEF MessageLog
    <3> QED BY <3>1
  <2>6. said' = Append(said, row) BY <2>1, <2>5
  <2>7. /\ Len(said') = Len(said) + 1 /\ said'[Len(said) + 1] = row
        /\ \A m \in Messages : m \in Messages' /\ said'[m] = said[m]
        /\ \A m \in Messages' : m \in Messages \/ m = Len(said) + 1
        /\ Len(said) + 1 \in Messages'
    BY <1>1, <2>6, AppendParts DEF Messages
  <2>8. Processes' = Processes BY <2>1, <2>3, WriteMoves, <1>4 DEF Begin
  <2>9. codex.turn \in 1 .. count.turns BY <1>1, <2>4 DEF None
  <2>10. MoreSaid BY <2>4, <2>7 DEF MoreSaid
  <2>11. SaidSound'
    <3>1. ASSUME NEW m \in Messages'
          PROVE  /\ said'[m].turn \in 1 .. count'.turns /\ said'[m].process \in Processes'
                 /\ said'[m].turn = codex'.turn => said'[m].process = codex'.process
      <4>1. CASE m \in Messages BY <1>1, <2>4, <2>7, <2>8, <4>1 DEF SaidSound
      <4>2. CASE m = Len(said) + 1 BY <1>2, <2>4, <2>5, <2>7, <2>8, <2>9, <4>2
      <4> QED BY <2>7, <4>1, <4>2
    <3>2. said'[codex'.message].turn = codex'.turn BY <2>4, <2>5, <2>7
    <3> QED BY <3>1, <3>2 DEF SaidSound
  <2>12. /\ Speaks(line) /\ line.type # "turn" /\ line.message = Len(said) + 1 /\ line.turn = codex.turn
    BY <2>3 DEF Speaks
  <2>13. /\ events' = events /\ session' = session /\ UNCHANGED ingestionVars /\ UNCHANGED thread
    BY <1>4 DEF Begin, managerVars
  <2> QED BY <2>1, <2>3, <2>5, <2>7, <2>10, <2>11, <2>12, <2>13, WriteSettles
<1>5. ASSUME Say PROVE Settling'
  <2>1. PICK m \in Messages : m = codex.message BY <1>2, <1>5 DEF Say
  <2>2. /\ said' = [said EXCEPT ![m] = [said[m] EXCEPT !.chunks = said[m].chunks + 1]]
        /\ Write([type |-> "delta", plan |-> said[m].plan, turn |-> codex.turn,
                  message |-> m, chunk |-> said[m].chunks + 1])
    BY <1>5, <2>1 DEF Say
  <2>3. PICK line \in Line : line = [type |-> "delta", plan |-> said[m].plan, turn |-> codex.turn,
                                     message |-> m, chunk |-> said[m].chunks + 1]
    BY <1>1, <1>2, LineTypes
  <2>4. PICK row \in MessageLog : /\ row = [said[m] EXCEPT !.chunks = said[m].chunks + 1]
                                  /\ row.turn = said[m].turn /\ row.process = said[m].process
    <3>1. said[m] \in MessageLog /\ said[m].chunks + 1 \in Nat BY <1>2
    <3>2. /\ [said[m] EXCEPT !.chunks = said[m].chunks + 1] \in MessageLog
          /\ [said[m] EXCEPT !.chunks = said[m].chunks + 1].turn = said[m].turn
          /\ [said[m] EXCEPT !.chunks = said[m].chunks + 1].process = said[m].process
      BY <3>1 DEF MessageLog
    <3> QED BY <3>2
  <2>5. /\ Messages' = Messages /\ said'[m] = row
        /\ \A k \in Messages : k # m => said'[k] = said[k]
    BY <1>1, <2>2, <2>4, ReplaceParts DEF Messages
  <2>6. \A k \in Messages : said'[k].turn = said[k].turn /\ said'[k].process = said[k].process
    BY <2>4, <2>5
  <2>7. codex' = codex /\ count' = count /\ session' = session /\ events' = events
        /\ UNCHANGED ingestionVars /\ UNCHANGED thread
    BY <1>5 DEF Say, managerVars
  <2>8. Processes' = Processes BY <2>2, <2>3, <2>7, WriteMoves
  <2>9. MoreSaid BY <2>5, <2>6, <2>7 DEF MoreSaid
  <2>10. SaidSound'
    <3>1. codex.message # None => codex.message \in Messages BY <1>2
    <3> QED BY <1>1, <2>5, <2>6, <2>7, <2>8, <3>1 DEF SaidSound
  <2>11. /\ Speaks(line) /\ line.type # "turn" /\ line.message = m /\ line.turn = codex.turn
    BY <2>3 DEF Speaks
  <2>12. /\ said[m].turn = codex.turn /\ said[m].process = codex.process
    BY <1>1, <1>5, <2>1 DEF SaidSound, Say
  <2> QED BY <2>2, <2>3, <2>5, <2>6, <2>7, <2>9, <2>10, <2>11, <2>12, WriteSettles
<1>6. ASSUME EndMessage PROVE Settling'
  <2>1. PICK m \in Messages : m = codex.message BY <1>2, <1>6 DEF EndMessage
  <2>2. Write([type |-> "item", plan |-> said[m].plan, turn |-> codex.turn, message |-> m,
               chunks |-> said[m].chunks])
    BY <1>6, <2>1 DEF EndMessage
  <2>3. PICK line \in Line : line = [type |-> "item", plan |-> said[m].plan, turn |-> codex.turn,
                                     message |-> m, chunks |-> said[m].chunks]
    BY <1>1, <1>2, LineTypes
  <2>4. /\ codex'.turn = codex.turn /\ codex'.process = codex.process /\ codex'.message = None
        /\ said' = said /\ count' = count /\ session' = session /\ events' = events
        /\ UNCHANGED ingestionVars /\ UNCHANGED thread
    BY <1>1, <1>6 DEF EndMessage, managerVars, Codexes
  <2>5. Processes' = Processes BY <2>2, <2>3, <2>4, WriteMoves
  <2>6. SaidSound' /\ MoreSaid BY <1>1, <2>4, <2>5, SameSaid
  <2>7. /\ Speaks(line) /\ line.type # "turn" /\ line.message = m /\ line.turn = codex.turn
    BY <2>3 DEF Speaks
  <2>8. /\ said[m].turn = codex.turn /\ said[m].process = codex.process
    BY <1>1, <1>6, <2>1 DEF SaidSound, EndMessage
  <2>9. m \in Messages' BY <2>4 DEF Messages
  <2> QED BY <2>2, <2>3, <2>4, <2>6, <2>7, <2>8, <2>9, WriteSettles
<1>7. ASSUME EndTurn PROVE Settling'
  <2>1. Write([type |-> "turn", turn |-> codex.turn]) BY <1>7 DEF EndTurn
  <2>2. PICK line \in Line : line = [type |-> "turn", turn |-> codex.turn]
    BY <1>1, <1>2, LineTypes
  <2>3. /\ codex'.turn = None /\ codex'.message = None /\ codex.turn # None
        /\ said' = said /\ count' = count /\ session' = session /\ events' = events
        /\ UNCHANGED ingestionVars /\ UNCHANGED thread
    BY <1>1, <1>7 DEF EndTurn, Free, Running, managerVars, Codexes
  <2>4. Processes' = Processes BY <2>1, <2>2, <2>3, WriteMoves
  <2>5. SaidSound' /\ MoreSaid BY <1>1, <2>3, <2>4, SameSaid
  <2>6. /\ ~Speaks(line) /\ line.turn = codex.turn
    BY <2>2 DEF Speaks
  <2> QED BY <2>1, <2>2, <2>3, <2>5, <2>6, WriteSettles
<1>8. ASSUME Ask PROVE Settling'
  <2>1. Write([type |-> "request", request |-> count.asks + 1]) BY <1>8 DEF Ask
  <2>2. PICK line \in Line : line = [type |-> "request", request |-> count.asks + 1]
    BY <1>1, <1>2, LineTypes
  <2>3. /\ codex'.turn = codex.turn /\ codex'.process = codex.process
        /\ codex'.message = codex.message /\ count'.turns = count.turns
    BY <1>1, <1>8, BumpParts DEF Ask, Codexes
  <2>4. /\ said' = said /\ session' = session /\ events' = events
        /\ UNCHANGED ingestionVars /\ UNCHANGED thread
    BY <1>8 DEF Ask, managerVars
  <2>5. Processes' = Processes BY <2>1, <2>2, <2>4, WriteMoves
  <2>6. SaidSound' /\ MoreSaid BY <1>1, <2>3, <2>4, <2>5, SameSaid
  <2>7. ~Speaks(line) /\ line.type # "turn" BY <2>2 DEF Speaks
  <2> QED BY <2>1, <2>2, <2>4, <2>6, <2>7, WriteSettles
<1>9. ASSUME Die PROVE Settling'
  <2>1. /\ codex'.turn = codex.turn /\ codex'.process = codex.process
        /\ codex'.message = codex.message /\ count'.turns = count.turns
    BY <1>1, <1>9, BumpParts DEF Die, Codexes
  <2>2. /\ said' = said /\ session' = session /\ events' = events /\ pipe' = pipe
        /\ UNCHANGED ingestionVars /\ UNCHANGED thread
    BY <1>9 DEF Die, managerVars
  <2>3. SaidSound' /\ MoreSaid BY <1>1, <2>1, <2>2, SameSaid DEF Processes
  <2> QED BY <2>2, <2>3, RestSettles
<1> QED BY <1>3, <1>4, <1>5, <1>6, <1>7, <1>8, <1>9

(* The manager reads a line or sees the process exit. *)
LEMMA ManagerSettles ==
  ASSUME Shape, Shape', Settling, ReadLine \/ Exit
  PROVE  Settling'
<1>1. SaidSound /\ count.turns \in Nat BY DEF Settling, Shape, Counts
<1>2. ASSUME ReadLine PROVE Settling'
  <2>1. PICK p \in Processes :
          /\ pipe[p] # << >> /\ pipe' = [pipe EXCEPT ![p] = Tail(@)]
          /\ events' = Append(events, Head(pipe[p])) \/ events' = events
          /\ UNCHANGED << scope, codex, said, asked, session, ingestionVars, thread, intents, count >>
    BY <1>2 DEF ReadLine, Emit
  <2>2. PICK here : here = << 0, 0 >> OBVIOUS
  <2>0. Head(pipe[p]) \in Line
    <3>1. pipe[p] \in Seq(Line) BY DEF Shape, Processes
    <3> QED BY <2>1, <3>1
  <2>3. (\E gone : Moved(here, 0, gone)) /\ here \notin Waiting' /\ Processes' = Processes
    BY <2>1, <2>2, ReadMoves, DropMoves
  <2>4. SaidSound' /\ MoreSaid BY <1>1, <2>1, <2>3, SameSaid
  <2>5. Exits' => Exits
    <3>1. PICK e \in Line : e = Head(pipe[p]) BY <2>0
    <3>2. e.type # "exited" BY DEF Line
    <3>3. events \in Seq(Event) /\ (events' = Append(events, e) \/ events' = events)
      BY <2>1, <3>1 DEF Shape
    <3>4. \A i \in DOMAIN events' : events'[i] = e \/ (i \in DOMAIN events /\ events'[i] = events[i])
      BY <3>3
    <3>5. todo' = todo BY <2>1 DEF ingestionVars
    <3> QED BY <3>2, <3>4, <3>5 DEF Exits
  <2>6. /\ todo' = todo /\ caches' = caches /\ finished' = finished /\ session' = session
        /\ thread' = thread
    BY <2>1 DEF ingestionVars
  <2> QED BY <2>3, <2>4, <2>5, <2>6, OutsideKeeps
<1>3. ASSUME Exit PROVE Settling'
  <2>1. PICK e \in Event : e = [type |-> "exited"] /\ e.type = "exited" BY EventTypes
  <2>2. /\ events' = Append(events, e) /\ session' = None /\ UNCHANGED codexVars
        /\ UNCHANGED ingestionVars /\ thread' = thread /\ count' = count
    BY <1>3, <2>1 DEF Exit, Emit
  <2>3. /\ said' = said /\ codex' = codex /\ pipe' = pipe /\ Processes' = Processes
    BY <2>2 DEF codexVars, Processes
  <2>4. SaidSound' /\ MoreSaid BY <1>1, <2>2, <2>3, SameSaid
  <2>5. \A p \in Processes \ {} : pipe'[p] = pipe[p] BY <2>3
  <2> QED BY <2>1, <2>2, <2>3, <2>4, <2>5, EmitSettles
<1> QED BY <1>2, <1>3

LEMMA UserSettles ==
  ASSUME Shape, Shape', Settling, Respond \/ RequestStop
  PROVE  Settling'
<1>1. SaidSound /\ count \in Counts /\ count.turns \in Nat BY DEF Settling, Shape, Counts
<1>2. /\ UNCHANGED codexVars /\ session' = session /\ events' = events
      /\ UNCHANGED ingestionVars /\ thread' = thread
  BY DEF Respond, RequestStop, managerVars
<1>3. count'.turns = count.turns BY <1>1, BumpParts DEF Respond, RequestStop
<1>4. said' = said /\ codex' = codex /\ pipe' = pipe /\ Processes' = Processes
  BY <1>2 DEF codexVars, Processes
<1>5. SaidSound' /\ MoreSaid BY <1>1, <1>3, <1>4, SameSaid
<1> QED BY <1>2, <1>4, <1>5, RestSettles

(* The reactor answers a request, ... *)
LEMMA AnswerSettles ==
  ASSUME Shape, Shape', Settling, TakeAnswer
  PROVE  Settling'
<1>a. /\ intents \in Seq(Intent) /\ thread \in Threads /\ events \in Seq(Event)
      /\ codex \in Codexes /\ pipe \in Seq(Seq(Line)) /\ intents # << >>
      /\ SaidSound /\ count.turns \in Nat /\ Len(pipe) \in Nat
  BY DEF Shape, TakeAnswer, Settling, Counts
<1>1. Head(intents) \in Intent /\ Head(intents).do = "answer"
  BY <1>a, TailParts DEF TakeAnswer
<1> DEFINE r == Head(intents).request
           d == Head(intents).decision
<1>2. r \in Nat /\ d \in Decisions BY <1>1 DEF Intent
<1> HIDE DEF r, d
<1>3. /\ UNCHANGED ingestionVars /\ count' = count
      /\ \/ NoSession(r) \/ Recovered(r) \/ Refused(r) \/ CannotWrite(r)
         \/ RespondToRequest(r, d)
  BY DEF TakeAnswer, r, d
<1>4. CASE NoSession(r) \/ Refused(r) \/ CannotWrite(r)
           \/ (Failed(r, "cannot recover") /\ UNCHANGED << codexVars, managerVars, events >>)
  <2>1. thread'.messages = thread.messages
    BY <1>2, <1>4, <1>a, FailedType DEF NoSession, Refused, CannotWrite
  <2>2. UNCHANGED << codexVars, session, events >>
    BY <1>4 DEF NoSession, Refused, CannotWrite, managerVars
  <2>3. said' = said /\ codex' = codex /\ pipe' = pipe /\ Processes' = Processes
    BY <2>2 DEF codexVars, Processes
  <2>4. SaidSound' /\ MoreSaid BY <1>a, <1>3, <2>3, SameSaid
  <2> QED BY <1>3, <2>1, <2>2, <2>3, <2>4, RestSettles
<1>5. CASE Resume /\ Failed(r, "unknown approval request")
  <2>1. thread'.messages = thread.messages BY <1>2, <1>5, <1>a, FailedType
  <2>2. PICK e \in Event : e = [type |-> "started"] /\ e.type = "started" BY EventTypes
  <2>3. /\ events' = Append(events, e) /\ said' = said /\ pipe' = Append(pipe, << >>)
        /\ session' = Len(pipe) + 1 /\ codex'.turn = None /\ codex'.message = None
    BY <1>5, <2>2 DEF Resume, NewProcess, Emit
  <2>4. /\ Processes \subseteq Processes' /\ session' \notin Processes
        /\ \A p \in Processes \ {} : pipe'[p] = pipe[p]
        /\ \A p \in Processes' : p \in Processes \ {} \/ DOMAIN pipe'[p] = {}
    BY <1>a, <2>3, AppendParts DEF Processes
  <2>5. SaidSound' /\ MoreSaid BY <1>a, <1>3, <2>3, <2>4, SameSaid
  <2> QED BY <1>3, <2>1, <2>2, <2>3, <2>4, <2>5, EmitSettles
<1>6. CASE RespondToRequest(r, d)
  <2>1. PICK e \in Event : /\ e = [type |-> "resolved", request |-> r, decision |-> d]
                           /\ e.type = "resolved"
    BY <1>2, EventTypes
  <2>2. /\ events' = Append(events, e) /\ said' = said /\ pipe' = pipe /\ session' = session
        /\ thread' = thread /\ Processes' = Processes
    BY <1>6, <2>1 DEF RespondToRequest, Emit, Processes
  <2>3. /\ codex'.process = codex.process /\ codex'.message = codex.message
        /\ codex'.turn = codex.turn
    BY <1>6, <1>a DEF RespondToRequest, Codexes
  <2>4. SaidSound' /\ MoreSaid BY <1>a, <1>3, <2>2, <2>3, SameSaid
  <2>5. \A p \in Processes \ {} : pipe'[p] = pipe[p] BY <2>2
  <2> QED BY <1>3, <2>1, <2>2, <2>4, <2>5, EmitSettles
<1> QED BY <1>3, <1>4, <1>5, <1>6 DEF Recovered

(* ... or stops the session. *)
LEMMA StopSettles ==
  ASSUME Shape, Shape', Settling, TakeStop
  PROVE  Settling'
<1>a. /\ thread \in Threads /\ events \in Seq(Event) /\ codex \in Codexes
      /\ pipe \in Seq(Seq(Line)) /\ SaidSound /\ count.turns \in Nat
  BY DEF Shape, Settling, Counts
<1>1. /\ thread'.messages = thread.messages /\ UNCHANGED ingestionVars /\ count' = count
  BY <1>a DEF TakeStop, Threads
<1>2. CASE session # None /\ StopSession
  <2>1. PICK e \in Event : e = [type |-> "exited"] /\ e.type = "exited" BY EventTypes
  <2>2. /\ events' = Append(events, e) /\ said' = said /\ session' = None
        /\ codex'.process = codex.process /\ codex'.message = codex.message
        /\ codex'.turn = codex.turn
    BY <1>a, <1>2, <2>1 DEF StopSession, Emit, Codexes
  <2>3. PICK s \in Processes : s = session BY <1>2 DEF Shape, None, Codexes, Processes
  <2>4. /\ Processes' = Processes /\ DOMAIN pipe'[s] = {}
        /\ \A p \in Processes \ {s} : pipe'[p] = pipe[p]
    BY <1>a, <1>2, <2>3, ReplaceParts DEF StopSession, Processes
  <2>5. SaidSound' /\ MoreSaid BY <1>a, <1>1, <2>2, <2>4, SameSaid
  <2>6. /\ {s} \subseteq Processes /\ Processes \subseteq Processes'
        /\ \A p \in Processes' : p \in Processes \ {s} \/ DOMAIN pipe'[p] = {}
    BY <2>4
  <2> QED BY <1>1, <2>1, <2>2, <2>4, <2>5, <2>6, EmitSettles
<1>3. CASE UNCHANGED << codexVars, managerVars, events >>
  <2>1. /\ said' = said /\ codex' = codex /\ pipe' = pipe /\ Processes' = Processes
        /\ session' = session /\ events' = events
    BY <1>3 DEF codexVars, managerVars, Processes
  <2>2. SaidSound' /\ MoreSaid BY <1>a, <1>1, <2>1, SameSaid
  <2> QED BY <1>1, <2>1, <2>2, RestSettles
<1> QED BY <1>2, <1>3 DEF TakeStop

(* What the handler of an event clears, and what it leaves to do. *)
LEMMA HandlerClears ==
  ASSUME caches \in Caches, NEW e \in Event, e.type # "exited", NEW i \in DOMAIN Handler(e)
  PROVE  Handler(e)[i].do # "clear"
<1>1. CASE e.type = "turn" BY <1>1, HandlerIs, TurnHandlerDoes DEF Event, Line
<1>2. CASE e.type \in {"mode", "delta", "item", "started", "request", "resolved"}
  BY <1>2, HandlerIs
<1>3. e.type \in {"mode", "delta", "item", "turn", "started", "exited", "request", "resolved"}
  BY DEF Event, Line
<1> QED BY <1>1, <1>2, <1>3

(* The end of a turn leaves its handler to do. *)
LEMMA TurnTaken ==
  ASSUME Shape, NEW t \in Nat, todo' = TurnHandler(t), caches' = caches,
         thread'.messages = thread.messages, Over(t)'
  PROVE  TurnForm'
<1> DEFINE h == TurnHandler(t)
           n == Len(h)
<1>1. caches \in Caches BY DEF Shape
<1>2. InTurn(t)' = InTurn(t) /\ \A m : Message(m)' = Message(m) BY DEF InTurn, Message
<1>3. /\ h \in Seq(Operation) /\ n \in Nat /\ n >= 3
      /\ h[1] = [do |-> "session", status |-> "ready"]
      /\ h[n - 1] = FinishOf(t) /\ h[n] = UpsertOf(t)
      /\ \A m \in InTurn(t) : \E k \in 2 .. n - 3 : h[k] = FlushOf(m) /\ h[k + 1] = CompleteOf(m)
      /\ \A k \in 2 .. n - 2 : \E m \in InTurn(t) :
           (h[k] = FlushOf(m) /\ h[k + 1] = CompleteOf(m)) \/ h[k] = CompleteOf(m)
  BY <1>1, TurnHandlerParts DEF Sweeping
<1> HIDE DEF h
<1>4. todo' = h BY DEF h
<1>5. todo' # << >> /\ Len(todo') = n BY <1>3, <1>4
<1>6. Sweeps(t)'
  <2>1. \A i \in 1 .. n - 2 : i = 1 \/ i \in 2 .. n - 2 BY <1>3
  <2>2. \A i \in 1 .. n - 2 :
          \/ h[i].do = "session"
          \/ \E m \in InTurn(t) :
               h[i] = CompleteOf(m) \/ (h[i] = FlushOf(m) /\ h[i + 1] = CompleteOf(m))
    <3>1. h[1].do = "session" BY <1>3
    <3>2. \A k \in 2 .. n - 2 : \E m \in InTurn(t) :
            h[k] = CompleteOf(m) \/ (h[k] = FlushOf(m) /\ h[k + 1] = CompleteOf(m))
      BY <1>3
    <3> HIDE DEF n
    <3> QED BY <2>1, <3>1, <3>2, Zenon
  <2>3. PICK S : S = InTurn(t) OBVIOUS
  <2>4. \A i \in 1 .. Len(todo') - 2 :
          \/ todo'[i].do = "session"
          \/ \E m \in S :
               todo'[i] = CompleteOf(m) \/ (todo'[i] = FlushOf(m) /\ todo'[i + 1] = CompleteOf(m))
    BY <1>4, <2>2, <2>3
  <2>5. InTurn(t)' = S BY <1>2, <2>3
  <2>6. \A m : FlushOf(m)' = FlushOf(m) /\ CompleteOf(m)' = CompleteOf(m)
    BY DEF CompleteOf, FlushOf
  <2> QED BY <2>4, <2>5, <2>6 DEF Sweeps
<1>7. Swept(t)'
  <2>1. \A m \in InTurn(t) : /\ \E i \in 1 .. n - 2 : h[i] = FlushOf(m)
                             /\ \E i \in 1 .. n - 2 : h[i] = CompleteOf(m)
    <3>1. \A k \in 2 .. n - 3 : k \in 1 .. n - 2 /\ k + 1 \in 1 .. n - 2 BY <1>3
    <3> QED BY <1>3, <3>1
  <2> QED BY <1>2, <1>4, <2>1 DEF Swept, CompleteOf, FlushOf
<1> QED BY <1>3, <1>4, <1>5, <1>6, <1>7 DEF TurnForm, FinishOf, UpsertOf

(* A handler of one operation. *)
LEMMA OneToDo ==
  ASSUME Shape', NEW op, todo' = << op >>
  PROVE  op \in Operation
<1>1. todo' \in Seq(Operation) BY DEF Shape
<1> QED BY <1>1

LEMMA TakeSettles ==
  ASSUME Shape, Shape', Settling, Take
  PROVE  Settling'
<1>1. /\ todo = << >> /\ events # << >> /\ todo' = Handler(Head(events)) /\ events' = Tail(events)
      /\ UNCHANGED << scope, said, codex, pipe, session, caches, finished, thread, count >>
  BY DEF Take, codexVars, managerVars
<1>2. /\ SaidSound /\ WaitingSound /\ InOrder /\ ExitsFirst /\ ExitsAlone /\ KeysSaid
      /\ IdsSaid /\ OpenRemembered /\ FinishedOver
  BY DEF Settling
<1>3. caches \in Caches /\ events \in Seq(Event) BY DEF Shape
<1>4. PICK here, first, e : here = << 0, 0 >> /\ first = << 0, 1 >> /\ e = Head(events) OBVIOUS
<1>5. /\ Moved(here, 0, {first}) /\ here \notin Waiting'
      /\ first \in Waiting /\ At(first) = e /\ e \in Event
      /\ \A b \in Waiting : ~Ahead(b, first)
  BY <1>1, <1>4, TakeMoves
<1>6. SaidSound' /\ MoreSaid BY <1>1, <1>2, SameSaid DEF Processes, Shape, Counts
<1>7. WaitingSound' /\ InOrder' /\ ExitsFirst' /\ \A t : Over(t) => Over(t)'
  BY <1>1, <1>2, <1>5, <1>6, QueuesKept
<1>8. /\ \A m : Message(m)' = Message(m) /\ (Open(m)' <=> Open(m)) /\ (Mine(m)' <=> Mine(m))
      /\ \A t : InTurn(t)' = InTurn(t)
      /\ Messages' = Messages
      /\ \A m, t : MessageOf(m, t)' <=> MessageOf(m, t)
  BY <1>1 DEF Message, Open, Mine, InTurn, Messages, MessageOf
<1>9. KeysSaid' /\ IdsSaid' /\ OpenRemembered'
  BY <1>1, <1>2, <1>8 DEF KeysSaid, IdsSaid, OpenRemembered
<1>10. FinishedOver'
  BY <1>1, <1>2, <1>7 DEF FinishedOver
<1>11. /\ \A i \in DOMAIN events' : i + 1 \in DOMAIN events /\ events'[i] = events[i + 1] /\ i \in Nat
       /\ 1 \in DOMAIN events /\ e = events[1]
  BY <1>1, <1>3, <1>4
<1>12. e.type # "exited" => \A i \in DOMAIN todo' : todo'[i].do # "clear"
  BY <1>1, <1>3, <1>4, <1>5, HandlerClears
<1>13. Exits' => Exits BY <1>11, <1>12 DEF Exits
<1>14. ExitsAlone' BY <1>2, <1>8, <1>13 DEF ExitsAlone
<1>15. ASSUME Speaks(e) PROVE MessageOf(e.message, e.turn)' /\ Unhurried(e.message)'
  <2>1. PICK m, t : m = e.message /\ t = e.turn OBVIOUS
  <2>2. m \in Messages /\ said[m].turn = t BY <1>2, <1>5, <1>15, <2>1 DEF WaitingSound, LineSound
  <2>3. t \notin finished BY <1>2, <1>5, <1>15, <2>1 DEF FinishedOver, Over
  <2>4. MessageOf(m, t)' BY <1>8, <2>2, <2>3 DEF MessageOf
  <2>5. ASSUME Mine(m), Exits' PROVE FALSE
    <3>1. e.type # "exited" BY <1>15 DEF Speaks
    <3>2. PICK i \in DOMAIN events' : events'[i].type = "exited" BY <1>12, <2>5, <3>1 DEF Exits
    <3>3. i + 1 \in DOMAIN events /\ events[i + 1].type = "exited" BY <1>11, <3>2
    <3>4. Ahead(<< 0, i + 1 >>, first) BY <1>2, <1>5, <1>15, <2>1, <2>5, <3>3 DEF ExitsFirst
    <3>5. << 0, i + 1 >> \in Waiting BY <3>3, WaitingTypes
    <3> QED BY <1>5, <3>4, <3>5
  <2>6. Unhurried(m)' BY <1>8, <2>5 DEF Unhurried
  <2> QED BY <1>1, <2>1, <2>4, <2>6 DEF MessageOf, Unhurried
<1>16. TodoForm'
  <2>1. ASSUME NEW op, todo' = << op >>,
               \/ op.do \in {"mode", "session", "activity", "clear", "upsert"}
               \/ op.do = "plan" /\ op.turn \notin finished
               \/ op.do = "delta" /\ MessageOf(op.message, op.turn)' /\ Unhurried(op.message)'
        PROVE  TodoForm'
    BY <1>1, <2>1, OneToDo DEF SingleForm, TodoForm
  <2>2. todo' = Handler(e) BY <1>1, <1>4
  <2>3. CASE e.type \in {"mode", "started", "request", "resolved"}
    BY <1>5, <2>1, <2>2, <2>3, HandlerIs
  <2>4. CASE e.type = "delta"
    <3> DEFINE op == [do |-> IF e.plan THEN "plan" ELSE "delta", turn |-> e.turn,
                      message |-> e.message, chunk |-> e.chunk]
    <3>1. todo' = << op >> BY <1>5, <2>2, <2>4, HandlerIs
    <3>2. Speaks(e) BY <2>4 DEF Speaks
    <3>3. op.message = e.message /\ op.turn = e.turn /\ op.do \in {"plan", "delta"} OBVIOUS
    <3> HIDE DEF op
    <3>4. PICK o : o = op OBVIOUS
    <3>5. e.turn \notin finished BY <1>8, <1>15, <3>2 DEF MessageOf
    <3>6. MessageOf(o.message, o.turn)' /\ Unhurried(o.message)' BY <1>15, <3>2, <3>3, <3>4
    <3> QED BY <2>1, <3>1, <3>3, <3>4, <3>5, <3>6
  <2>5. CASE e.type = "item" /\ e.plan
    BY <1>5, <2>1, <2>2, <2>5, HandlerIs
  <2>6. CASE e.type = "item" /\ ~e.plan
    <3>1. PICK m, t, text : m = e.message /\ t = e.turn /\ text = Whole(e.chunks) OBVIOUS
    <3>2. todo' = << [do |-> "remember", turn |-> t, message |-> m],
                     [do |-> "flush", message |-> m, fallback |-> text],
                     [do |-> "complete", message |-> m],
                     [do |-> "forget", turn |-> t, message |-> m] >>
      BY <1>5, <2>2, <2>6, <3>1, HandlerIs
    <3>3. m \in Nat /\ t \in Nat /\ text \in Text BY <1>5, <2>6, <3>1 DEF Event, Line, Whole, Text
    <3>4. MessageOf(m, t)' /\ Unhurried(m)' BY <1>15, <2>6, <3>1 DEF Speaks
    <3>5. ItemForm' BY <3>2, <3>3, <3>4 DEF ItemForm
    <3> QED BY <3>5 DEF TodoForm
  <2>7. CASE e.type = "turn"
    <3>1. PICK t \in Nat : t = e.turn BY <1>5, <2>7 DEF Event, Line
    <3>2. t \in 1 .. count.turns /\ t # codex.turn
      BY <1>2, <1>5, <2>7, <3>1 DEF WaitingSound, LineSound
    <3>3. PICK old \in [Waiting' \ {here} -> Waiting] :
            \A a \in Waiting' \ {here} : At(a)' = At(old[a])
      BY <1>5 DEF Moved
    <3>4. ASSUME NEW a \in Waiting', Speaks(At(a)') PROVE At(a)'.turn # t
      <4>1. old[a] \in Waiting /\ At(a)' = At(old[a]) BY <1>5, <3>3, <3>4
      <4>2. ~Ahead(old[a], first) BY <1>5, <4>1
      <4> QED BY <1>2, <1>5, <2>7, <3>1, <3>4, <4>1, <4>2 DEF InOrder
    <3>5. Over(t)' BY <1>1, <3>2, <3>4 DEF Over, Speaks
    <3>6. todo' = TurnHandler(t) BY <1>5, <2>2, <2>7, <3>1, HandlerIs
    <3>7. TurnForm' BY <1>1, <3>5, <3>6, TurnTaken
    <3> QED BY <3>7 DEF TodoForm
  <2>8. CASE e.type = "exited"
    <3>1. PICK s : s = [do |-> "session", status |-> "stopped"] OBVIOUS
    <3>2. todo' = << s, [do |-> "clear"] >> BY <1>5, <2>2, <2>8, <3>1, HandlerIs
    <3>3. s \in Operation BY <3>2 DEF Shape
    <3>4. ExitForm' BY <3>1, <3>2, <3>3 DEF ExitForm
    <3> QED BY <3>4 DEF TodoForm
  <2>9. e.type \in {"mode", "delta", "item", "turn", "started", "exited", "request", "resolved"}
    BY <1>5 DEF Event, Line
  <2> QED BY <2>3, <2>4, <2>5, <2>6, <2>7, <2>8, <2>9
<1> QED BY <1>6, <1>7, <1>9, <1>10, <1>14, <1>16 DEF Settling

-----------------------------------------------------------------------------
(* What an operation does to what is remembered, kept and shown. *)
LEMMA MemoryIs ==
  ASSUME caches \in Caches, NEW op \in Operation, caches' = Memory(op)
  PROVE  /\ op.do \in {"delta", "remember"} =>
              /\ InTurn(op.turn)' = InTurn(op.turn) \cup {op.message}
              /\ \A t : t # op.turn => InTurn(t)' = InTurn(t)
              /\ DOMAIN caches'.ids = DOMAIN caches.ids \cup {op.turn}
         /\ op.do = "forget" =>
              /\ InTurn(op.turn)' = InTurn(op.turn) \ {op.message}
              /\ \A t : t # op.turn => InTurn(t)' = InTurn(t)
              /\ DOMAIN caches'.ids \subseteq DOMAIN caches.ids
         /\ op.do = "finish" =>
              /\ \A t : t # op.turn => InTurn(t)' = InTurn(t)
              /\ DOMAIN caches'.ids = DOMAIN caches.ids \ {op.turn}
         /\ op.do = "clear" => DOMAIN caches'.ids = {}
         /\ op.do \notin {"delta", "remember", "forget", "finish", "clear"} => caches'.ids = caches.ids
         /\ op.do = "delta" => DOMAIN caches'.buffer \subseteq DOMAIN caches.buffer \cup {op.message}
         /\ op.do = "flush" => DOMAIN caches'.buffer = DOMAIN caches.buffer \ {op.message}
         /\ op.do = "clear" => DOMAIN caches'.buffer \subseteq DOMAIN caches.buffer
         /\ op.do \notin {"delta", "flush", "clear"} => caches'.buffer = caches.buffer
         /\ op.do = "plan" => DOMAIN caches'.plans = DOMAIN caches.plans \cup {op.turn}
         /\ op.do = "upsert" => DOMAIN caches'.plans = DOMAIN caches.plans \ {op.turn}
         /\ op.do = "clear" => DOMAIN caches'.plans = {}
         /\ op.do \notin {"plan", "upsert", "clear"} => caches'.plans = caches.plans
<1>1. ASSUME NEW X
      PROVE  /\ LET c == [caches EXCEPT !.ids = X]
                IN c.ids = X /\ c.buffer = caches.buffer /\ c.plans = caches.plans
             /\ LET c == [caches EXCEPT !.buffer = X]
                IN c.ids = caches.ids /\ c.buffer = X /\ c.plans = caches.plans
             /\ LET c == [caches EXCEPT !.plans = X]
                IN c.ids = caches.ids /\ c.buffer = caches.buffer /\ c.plans = X
             /\ LET c == [caches EXCEPT !.mode = X]
                IN c.ids = caches.ids /\ c.buffer = caches.buffer /\ c.plans = caches.plans
  BY DEF Caches
<1>2. CASE op.do = "remember"
  <2>1. caches' = Remember(caches, op.turn, op.message) BY <1>2 DEF Memory
  <2> QED BY <1>1, <1>2, <2>1 DEF Remember, InTurn
<1>3. CASE op.do = "delta"
  <2> DEFINE known == Remember(caches, op.turn, op.message)
  <2>1. known.buffer = caches.buffer /\ known.plans = caches.plans BY <1>1 DEF Remember
  <2>2. known \in Caches BY <1>3, RememberType DEF Operation
  <2>3. /\ InTurn(op.turn) \cup {op.message} =
             IF op.turn \in DOMAIN known.ids THEN known.ids[op.turn] ELSE {}
        /\ \A t : t # op.turn =>
             InTurn(t) = IF t \in DOMAIN known.ids THEN known.ids[t] ELSE {}
        /\ DOMAIN known.ids = DOMAIN caches.ids \cup {op.turn}
    BY <1>1 DEF Remember, InTurn
  <2>4. \/ caches' = known
        \/ \E text : caches' = SetBuffer(known, op.message, text)
        \/ caches' = ClearBuffer(known, op.message)
    <3> DEFINE text == Append(Buffered(caches, op.message), op.chunk)
    <3>1. caches' = AfterDelta(op).caches BY <1>3 DEF Memory
    <3> QED BY <3>1 DEF AfterDelta
  <2> HIDE DEF known
  <2>5. ASSUME NEW X
        PROVE  LET c == [known EXCEPT !.buffer = X]
               IN c.ids = known.ids /\ c.buffer = X /\ c.plans = known.plans
    BY <2>2 DEF Caches
  <2>6. /\ caches'.ids = known.ids /\ caches'.plans = known.plans
        /\ DOMAIN caches'.buffer \subseteq DOMAIN known.buffer \cup {op.message}
    <3>1. ASSUME NEW X, caches' = [known EXCEPT !.buffer = X],
                 DOMAIN X \subseteq DOMAIN known.buffer \cup {op.message}
          PROVE  <2>6!:
      BY <2>5, <3>1
    <3>2. ASSUME NEW text, caches' = SetBuffer(known, op.message, text) PROVE <2>6!:
      <4> DEFINE X == [x \in DOMAIN known.buffer \cup {op.message} |->
                         IF x = op.message THEN text ELSE known.buffer[x]]
      <4>1. caches' = [known EXCEPT !.buffer = X] BY <3>2 DEF SetBuffer
      <4>2. DOMAIN X \subseteq DOMAIN known.buffer \cup {op.message} OBVIOUS
      <4> HIDE DEF X
      <4> QED BY <3>1, <4>1, <4>2
    <3>3. ASSUME caches' = ClearBuffer(known, op.message) PROVE <2>6!:
      <4> DEFINE X == Without(known.buffer, {op.message})
      <4>1. caches' = [known EXCEPT !.buffer = X] BY <3>3 DEF ClearBuffer
      <4>2. DOMAIN X \subseteq DOMAIN known.buffer \cup {op.message} BY DEF Without
      <4> HIDE DEF X
      <4> QED BY <3>1, <4>1, <4>2
    <3> QED BY <2>4, <3>2, <3>3
  <2> QED BY <1>3, <2>1, <2>3, <2>6 DEF InTurn
<1>4. CASE op.do = "forget"
  <2>1. caches' = ForgetMessage(caches, op.turn, op.message) BY <1>4 DEF Memory
  <2>2. CASE op.turn \notin DOMAIN caches.ids
    BY <1>4, <2>1, <2>2 DEF ForgetMessage, InTurn
  <2>3. CASE op.turn \in DOMAIN caches.ids
    <3> DEFINE left == caches.ids[op.turn] \ {op.message}
    <3>1. CASE left = {}
      <4>1. caches' = [caches EXCEPT !.ids = Without(caches.ids, {op.turn})]
        BY <2>1, <2>3, <3>1 DEF ForgetMessage
      <4> QED BY <1>1, <1>4, <2>3, <3>1, <4>1 DEF Without, InTurn
    <3>2. CASE left # {}
      <4>1. caches' = [caches EXCEPT !.ids[op.turn] = left]
        BY <2>1, <2>3, <3>2 DEF ForgetMessage
      <4>2. caches' = [caches EXCEPT !.ids = [caches.ids EXCEPT ![op.turn] = left]] BY <4>1
      <4> QED BY <1>1, <1>4, <2>3, <4>2 DEF InTurn
    <3> QED BY <3>1, <3>2
  <2> QED BY <2>2, <2>3
<1>5. CASE op.do = "finish"
  <2>1. caches' = [caches EXCEPT !.ids = Without(caches.ids, {op.turn})] BY <1>5 DEF Memory
  <2> QED BY <1>1, <1>5, <2>1 DEF Without, InTurn
<1>6. CASE op.do = "clear"
  <2> DEFINE B == Without(caches.buffer, UNION {caches.ids[t] : t \in DOMAIN caches.ids})
  <2>1. caches' = [caches EXCEPT !.buffer = B, !.ids = << >>, !.plans = << >>]
    BY <1>6 DEF Memory, Cleared
  <2>2. DOMAIN B \subseteq DOMAIN caches.buffer BY DEF Without
  <2> HIDE DEF B
  <2>3. caches'.buffer = B /\ caches'.ids = << >> /\ caches'.plans = << >> BY <2>1 DEF Caches
  <2> QED BY <1>6, <2>2, <2>3
<1>7. CASE op.do = "flush"
  <2>1. caches' = [caches EXCEPT !.buffer = Without(caches.buffer, {op.message})]
    BY <1>7 DEF Memory, ClearBuffer
  <2> QED BY <1>1, <1>7, <2>1 DEF Without
<1>8. CASE op.do = "plan"
  <2> DEFINE X == [t \in DOMAIN caches.plans \cup {op.turn} |->
                     IF t = op.turn THEN Append(Pieces(t), << op.message, op.chunk >>)
                                    ELSE caches.plans[t]]
  <2>1. caches' = [caches EXCEPT !.plans = X] BY <1>8 DEF Memory, PlanDelta
  <2>2. DOMAIN X = DOMAIN caches.plans \cup {op.turn} OBVIOUS
  <2> HIDE DEF X
  <2> QED BY <1>1, <1>8, <2>1, <2>2
<1>9. CASE op.do = "upsert"
  <2>1. caches' = [caches EXCEPT !.plans = Without(caches.plans, {op.turn})] BY <1>9 DEF Memory
  <2> QED BY <1>1, <1>9, <2>1 DEF Without
<1>10. CASE op.do = "mode" BY <1>1, <1>10 DEF Memory
<1>11. CASE op.do \notin {"remember", "delta", "forget", "finish", "clear", "flush", "plan",
                          "upsert", "mode"}
  BY <1>11 DEF Memory
<1> QED BY <1>2, <1>3, <1>4, <1>5, <1>6, <1>7, <1>8, <1>9, <1>10, <1>11

LEMMA DispatchedIs ==
  ASSUME thread \in Threads, caches \in Caches, NEW op \in Operation, thread' = Dispatched(op)
  PROVE  /\ \A m : (op.do \notin {"delta", "flush", "complete"} \/ m # op.message)
                     => Message(m)' = Message(m)
         /\ op.do \in {"delta", "flush", "complete"} =>
              DOMAIN thread'.messages \subseteq DOMAIN thread.messages \cup {op.message}
         /\ op.do \notin {"delta", "flush", "complete"} => thread'.messages = thread.messages
         /\ op.do = "complete" => Message(op.message)'.state = "done"
         /\ op.do = "flush" /\ op.fallback = << >> /\ op.message \notin DOMAIN caches.buffer
              => Message(op.message)' = Message(op.message)
<1>1. ASSUME NEW m, NEW message
      PROVE  (SetMessage(m, message)).messages =
               [x \in DOMAIN thread.messages \cup {m} |->
                  IF x = m THEN message ELSE thread.messages[x]]
  BY DEF SetMessage, Threads
<1>2. ASSUME NEW m, NEW message, thread' = SetMessage(m, message)
      PROVE  /\ \A x : x # m => Message(x)' = Message(x)
             /\ Message(m)' = message
             /\ DOMAIN thread'.messages = DOMAIN thread.messages \cup {m}
  <2> DEFINE T == [x \in DOMAIN thread.messages \cup {m} |->
                     IF x = m THEN message ELSE thread.messages[x]]
  <2>1. thread'.messages = T BY <1>1, <1>2
  <2>2. /\ DOMAIN T = DOMAIN thread.messages \cup {m} /\ T[m] = message
        /\ \A x \in DOMAIN thread.messages : x # m => T[x] = thread.messages[x]
    OBVIOUS
  <2> HIDE DEF T
  <2>3. \A x : Message(x)' = IF x \in DOMAIN T THEN T[x] ELSE Unknown
    BY <2>1 DEF Message, Unknown
  <2> QED BY <2>1, <2>2, <2>3 DEF Message
<1>3. ASSUME thread'.messages = thread.messages PROVE \A x : Message(x)' = Message(x)
  BY <1>3 DEF Message
<1>4. CASE op.do = "complete" BY <1>2, <1>4 DEF Dispatched, Completed
<1>5. CASE op.do \in {"delta", "flush"}
  <2>1. thread' = thread \/ \E text : thread' = Delta(op.message, text) BY <1>5 DEF Dispatched
  <2>2. op.do = "flush" /\ op.fallback = << >> /\ op.message \notin DOMAIN caches.buffer
          => thread' = thread
    BY DEF Dispatched, FinalText, Buffered
  <2>3. CASE thread' = thread BY <1>3, <1>5, <2>3
  <2>4. ASSUME NEW text, thread' = Delta(op.message, text)
        PROVE  /\ \A x : x # op.message => Message(x)' = Message(x)
               /\ DOMAIN thread'.messages = DOMAIN thread.messages \cup {op.message}
    BY <1>2, <2>4 DEF Delta
  <2> QED BY <1>3, <1>5, <2>1, <2>2, <2>3, <2>4
<1>6. CASE op.do \notin {"delta", "flush", "complete"}
  <2>1. thread'.messages = thread.messages
    <3>1. CASE op.do = "upsert" BY <3>1 DEF Dispatched, Threads, Upsert
    <3>2. CASE op.do = "session" BY <3>2 DEF Dispatched, Threads
    <3>3. CASE op.do = "activity" BY <3>3 DEF Dispatched, Threads, Activity
    <3>4. CASE op.do \notin {"upsert", "session", "activity"} BY <1>6, <3>4 DEF Dispatched
    <3> QED BY <3>1, <3>2, <3>3, <3>4
  <2> QED BY <1>3, <1>6, <2>1
<1> QED BY <1>4, <1>5, <1>6

(* What is known of the operation that is next. *)
LEMMA SingleHead ==
  ASSUME NEW op, todo = << op >>
  PROVE  Head(todo) = op /\ Tail(todo) = << >>
OBVIOUS

LEMMA ShortSequences ==
  ASSUME NEW T, NEW s \in Seq(T)
  PROVE  (Len(s) = 0 => s = << >>) /\ (Len(s) = 1 => s = << s[1] >>)
<1>1. CASE Len(s) = 1
  <2>1. s \in [1 .. 1 -> T] BY <1>1
  <2>2. PICK x : x = s[1] OBVIOUS
  <2>3. << x >> \in [1 .. 1 -> T] BY <2>1, <2>2
  <2>4. \A i \in 1 .. 1 : s[i] = << x >>[i] BY <2>2
  <2>5. s = << x >> BY <2>1, <2>3, <2>4
  <2> QED BY <1>1, <2>2, <2>5
<1> QED BY <1>1

LEMMA TurnHead ==
  ASSUME Shape, NEW t \in Nat, todo # << >>, todo[Len(todo)] = UpsertOf(t),
         Len(todo) > 1 => todo[Len(todo) - 1] = FinishOf(t) /\ Sweeps(t) /\ Swept(t)
  PROVE  /\ Head(todo) = todo[1] /\ Len(todo) \in Nat /\ Tail(todo) \in Seq(Operation)
         /\ Len(todo) = 1 => Head(todo) = UpsertOf(t) /\ Tail(todo) = << >>
         /\ Len(todo) = 2 => Head(todo) = FinishOf(t) /\ Tail(todo) = << UpsertOf(t) >>
         /\ Len(todo) > 2 =>
              /\ Len(Tail(todo)) = Len(todo) - 1
              /\ \A i \in 1 .. Len(todo) - 1 : Tail(todo)[i] = todo[i + 1]
              /\ \/ Head(todo).do = "session"
                 \/ \E m \in InTurn(t) :
                      \/ Head(todo) = CompleteOf(m)
                      \/ Head(todo) = FlushOf(m) /\ todo[2] = CompleteOf(m) /\ Len(todo) > 3
<1>1. todo \in Seq(Operation) BY DEF Shape
<1>2. Len(todo) \in Nat /\ Head(todo) = todo[1] /\ Tail(todo) \in Seq(Operation)
      /\ Len(Tail(todo)) = Len(todo) - 1 /\ Len(todo) >= 1
      /\ \A i \in 1 .. Len(todo) - 1 : Tail(todo)[i] = todo[i + 1]
  BY <1>1
<1>3. CASE Len(todo) = 1
  <2>1. Len(Tail(todo)) = 0 BY <1>2, <1>3
  <2>2. Tail(todo) = << >> BY <1>2, <2>1, ShortSequences
  <2> QED BY <1>2, <1>3, <2>2
<1>4. CASE Len(todo) = 2
  <2>1. Len(Tail(todo)) = 1 /\ Tail(todo)[1] = UpsertOf(t) BY <1>2, <1>4
  <2>2. Tail(todo) = << UpsertOf(t) >> BY <1>2, <2>1, ShortSequences
  <2> QED BY <1>2, <1>4, <2>2
<1>5. CASE Len(todo) > 2
  <2>1. 1 \in 1 .. Len(todo) - 2 BY <1>2, <1>5
  <2>2. \/ todo[1].do = "session"
        \/ \E m \in InTurn(t) :
             todo[1] = CompleteOf(m) \/ (todo[1] = FlushOf(m) /\ todo[1 + 1] = CompleteOf(m))
    BY <1>5, <2>1 DEF Sweeps
  <2>3. ASSUME NEW m, todo[2] = CompleteOf(m) PROVE Len(todo) > 3
    BY <1>2, <1>5, <2>3 DEF CompleteOf, FinishOf
  <2> QED BY <1>2, <1>5, <2>2, <2>3
<1>6. Len(todo) = 1 \/ Len(todo) = 2 \/ Len(todo) > 2 BY <1>2
<1> QED BY <1>2, <1>3, <1>4, <1>5, <1>6

LEMMA ItemHead ==
  ASSUME NEW a, NEW b, NEW c, NEW d
  PROVE  LET left == << a, b, c, d >>
         IN /\ Tail(left) = << b, c, d >> /\ Tail(Tail(left)) = << c, d >>
            /\ Tail(Tail(Tail(left))) = << d >>
            /\ Head(left) = a /\ Head(Tail(left)) = b /\ Head(Tail(Tail(left))) = c
            /\ Head(Tail(Tail(Tail(left)))) = d /\ Tail(Tail(Tail(Tail(left)))) = << >>
OBVIOUS

LEMMA HeadReady ==
  ASSUME Shape, Settling, todo # << >>, NEW op, op = Head(todo)
  PROVE  /\ op \in Operation
         /\ op.do \in {"delta", "remember"} => MessageOf(op.message, op.turn) /\ Unhurried(op.message)
         /\ op.do = "flush" =>
              /\ op.message \in Messages /\ op.message \in InTurn(said[op.message].turn)
              /\ op.fallback = << >> \/ Unhurried(op.message)
         /\ op.do = "complete" => op.message \in Messages
         /\ op.do = "forget" => ~Open(op.message)
         /\ op.do = "finish" =>
              /\ Over(op.turn) /\ Tail(todo) = << UpsertOf(op.turn) >>
              /\ \A m \in InTurn(op.turn) : ~Open(m)
         /\ op.do = "plan" => op.turn \notin finished
         /\ op.do = "clear" => Exits
<1>1. TodoForm /\ IdsSaid BY DEF Settling
<1>2. todo \in Seq(Operation) BY DEF Shape
<1>3. op \in Operation /\ op = todo[1] /\ 1 \in DOMAIN todo BY <1>2
<1>4. op.do = "clear" => Exits BY <1>3 DEF Exits
<1>5. CASE SingleForm BY <1>3, <1>4, <1>5, SingleHead DEF SingleForm
<1>6. CASE ExitForm BY <1>3, <1>6 DEF ExitForm
<1>7. CASE ItemForm
  <2>1. PICK m \in Nat, t \in Nat, fallback \in Text :
          LET left == << [do |-> "remember", turn |-> t, message |-> m],
                         [do |-> "flush", message |-> m, fallback |-> fallback],
                         [do |-> "complete", message |-> m],
                         [do |-> "forget", turn |-> t, message |-> m] >>
          IN /\ MessageOf(m, t) /\ Unhurried(m)
             /\ \/ todo = left
                \/ todo = Tail(left) /\ m \in InTurn(t)
                \/ todo = Tail(Tail(left)) /\ m \in InTurn(t) /\ m \notin DOMAIN caches.buffer
                \/ todo = Tail(Tail(Tail(left))) /\ ~Open(m)
    BY <1>7 DEF ItemForm
  <2>2. MessageOf(m, t) /\ Unhurried(m) BY <2>1
  <2> DEFINE a == [do |-> "remember", turn |-> t, message |-> m]
             b == [do |-> "flush", message |-> m, fallback |-> fallback]
             c == [do |-> "complete", message |-> m]
             d == [do |-> "forget", turn |-> t, message |-> m]
  <2>3. \/ op = a
        \/ op = b /\ m \in InTurn(t)
        \/ op = c
        \/ op = d /\ ~Open(m)
    BY <2>1, ItemHead
  <2>4. m \in Messages /\ said[m].turn = t BY <2>2 DEF MessageOf
  <2> QED BY <1>3, <2>2, <2>3, <2>4
<1>8. CASE TurnForm
  <2>1. PICK t \in Nat :
          /\ Over(t) /\ todo # << >> /\ todo[Len(todo)] = UpsertOf(t)
          /\ Len(todo) > 1 => todo[Len(todo) - 1] = FinishOf(t) /\ Sweeps(t) /\ Swept(t)
    BY <1>8 DEF TurnForm
  <2>2. \A m \in InTurn(t) : m \in Messages /\ said[m].turn = t BY <1>1 DEF IdsSaid, InTurn
  <2>3. CASE Len(todo) = 1 BY <1>3, <2>1, <2>3, TurnHead DEF UpsertOf
  <2>4. CASE Len(todo) = 2
    <3>1. op = FinishOf(t) /\ Tail(todo) = << UpsertOf(t) >> BY <2>1, <2>4, TurnHead
    <3>2. op.do = "finish" /\ op.turn = t BY <3>1 DEF FinishOf
    <3>3. \A m \in InTurn(t) : ~Open(m) BY <2>1, <2>4 DEF Swept, Open
    <3> QED BY <1>3, <2>1, <3>1, <3>2, <3>3
  <2>5. CASE Len(todo) > 2
    <3>1. \/ op.do = "session"
          \/ \E m \in InTurn(t) : op = CompleteOf(m) \/ op = FlushOf(m)
      BY <2>1, <2>5, TurnHead
    <3>2. CASE op.do = "session" BY <1>3, <3>2
    <3>3. ASSUME NEW m \in InTurn(t), op = CompleteOf(m) PROVE op.do = "complete" /\ op.message \in Messages
      BY <2>2, <3>3 DEF CompleteOf
    <3>4. ASSUME NEW m \in InTurn(t), op = FlushOf(m)
          PROVE  /\ op.do = "flush" /\ op.fallback = << >> /\ op.message \in Messages
                 /\ op.message \in InTurn(said[op.message].turn)
      BY <2>2, <3>4 DEF FlushOf
    <3> QED BY <1>3, <3>1, <3>2, <3>3, <3>4
  <2>6. Len(todo) \in Nat /\ Len(todo) # 0 BY <1>2, <2>1, ShortSequences
  <2>7. \A n \in Nat : n # 0 => n = 1 \/ n = 2 \/ n > 2 OBVIOUS
  <2> QED BY <2>3, <2>4, <2>5, <2>6, <2>7
<1> QED BY <1>1, <1>5, <1>6, <1>7, <1>8 DEF TodoForm

(* An operation leaves what waits, and what was said, as it is. *)
LEMMA OperationMoves ==
  ASSUME Shape, Shape', Settling, todo # << >>, todo' = Tail(todo) \/ todo' = << >>,
         UNCHANGED << said, codex, pipe, session, events >>, count'.turns = count.turns
  PROVE  /\ SaidSound' /\ WaitingSound' /\ InOrder' /\ ExitsFirst'
         /\ \A t : Over(t) => Over(t)'
         /\ Exits' => Exits
         /\ Messages' = Messages /\ \A m : Mine(m)' <=> Mine(m)
         /\ \A m, t : MessageOf(m, t) /\ t \notin finished' => MessageOf(m, t)'
         /\ \A m : Unhurried(m) => Unhurried(m)'
<1>1. SaidSound /\ WaitingSound /\ InOrder /\ ExitsFirst BY DEF Settling
<1>2. SaidSound' /\ MoreSaid
  <2>1. Processes' = Processes BY DEF Processes
  <2>2. count.turns \in Nat BY DEF Shape, Counts
  <2> QED BY <1>1, <2>1, <2>2, SameSaid
<1>3. WaitingSound' /\ InOrder' /\ ExitsFirst' /\ \A t : Over(t) => Over(t)'
  BY <1>1, <1>2, RestMoves, QueuesKept
<1>4. Exits' => Exits
  <2>1. \A i \in DOMAIN todo' : i + 1 \in DOMAIN todo /\ todo'[i] = todo[i + 1]
    <3>1. todo \in Seq(Operation) BY DEF Shape
    <3>2. CASE todo' = << >> BY <3>2
    <3>3. CASE todo' = Tail(todo) BY <3>1, <3>3
    <3> QED BY <3>2, <3>3
  <2> QED BY <2>1 DEF Exits
<1>5. Messages' = Messages /\ \A m : Mine(m)' <=> Mine(m) BY DEF Messages, Mine
<1>6. \A m, t : MessageOf(m, t) /\ t \notin finished' => MessageOf(m, t)'
  BY <1>5 DEF MessageOf
<1>7. \A m : Unhurried(m) => Unhurried(m)' BY <1>4, <1>5 DEF Unhurried
<1> QED BY <1>2, <1>3, <1>4, <1>5, <1>6, <1>7

(* What an operation opens. *)
LEMMA OperationOpens ==
  ASSUME Shape, NEW op \in Operation, caches' = Memory(op),
         thread' = Dispatched(op) \/ thread' = thread
  PROVE  /\ \A m : Open(m)' =>
              \/ Open(m)
              \/ op.do = "delta" /\ m = op.message
              \/ op.do = "flush" /\ m = op.message /\ op.fallback # << >>
         /\ DOMAIN thread'.messages \cup DOMAIN caches'.buffer \subseteq
              DOMAIN thread.messages \cup DOMAIN caches.buffer
                \cup IF op.do \in {"delta", "flush", "complete"} THEN {op.message} ELSE {}
<1>1. thread \in Threads /\ caches \in Caches BY DEF Shape
<1>2. /\ op.do = "delta" => DOMAIN caches'.buffer \subseteq DOMAIN caches.buffer \cup {op.message}
      /\ op.do # "delta" => DOMAIN caches'.buffer \subseteq DOMAIN caches.buffer
  BY <1>1, MemoryIs
<1>3. CASE thread' = thread BY <1>2, <1>3 DEF Message, Open
<1>4. CASE thread' = Dispatched(op)
  <2>1. /\ \A m : (op.do \notin {"delta", "flush", "complete"} \/ m # op.message)
                     => Message(m)' = Message(m)
        /\ op.do \in {"delta", "flush", "complete"} =>
             DOMAIN thread'.messages \subseteq DOMAIN thread.messages \cup {op.message}
        /\ op.do \notin {"delta", "flush", "complete"} => thread'.messages = thread.messages
        /\ op.do = "complete" => Message(op.message)'.state = "done"
        /\ op.do = "flush" /\ op.fallback = << >> /\ op.message \notin DOMAIN caches.buffer
             => Message(op.message)' = Message(op.message)
    BY <1>1, <1>4, DispatchedIs
  <2>2. ASSUME NEW m, Open(m)', ~Open(m)
        PROVE  \/ op.do = "delta" /\ m = op.message
               \/ op.do = "flush" /\ m = op.message /\ op.fallback # << >>
    <3>1. CASE op.do = "delta" /\ m = op.message BY <3>1
    <3>2. m \in DOMAIN caches'.buffer /\ ~(op.do = "delta" /\ m = op.message)
            => m \in DOMAIN caches.buffer
      BY <1>2
    <3>3. CASE ~(op.do = "delta" /\ m = op.message)
      <4>1. Message(m)'.state = "streaming" /\ Message(m).state # "streaming"
            /\ m \notin DOMAIN caches.buffer
        BY <2>2, <3>2, <3>3 DEF Open
      <4>2. op.do \in {"delta", "flush", "complete"} /\ m = op.message BY <2>1, <4>1
      <4>3. op.do # "complete" BY <2>1, <4>1, <4>2
      <4>4. op.do = "flush" BY <3>3, <4>2, <4>3
      <4>5. op.fallback # << >> BY <2>1, <4>1, <4>2, <4>4
      <4> QED BY <4>2, <4>4, <4>5
    <3> QED BY <3>1, <3>3
  <2> QED BY <1>2, <2>1, <2>2
<1> QED BY <1>3, <1>4

(* An operation, whether its dispatch fails or not, keeps what settles a   *)
(* turn when it leaves one of the forms to do.                             *)
LEMMA OperationSettles ==
  ASSUME Shape, Shape', Settling, todo # << >>, NEW op, op = Head(todo),
         UNCHANGED << said, codex, pipe, session, events >>, count'.turns = count.turns,
         caches' = Memory(op), thread' = Dispatched(op) \/ thread' = thread,
         finished' = finished \cup IF op.do = "finish" THEN {op.turn} ELSE {},
         todo' = Tail(todo) \/ (todo' = << >> /\ op.do # "finish"), TodoForm'
  PROVE  Settling'
<1>1. ExitsAlone /\ KeysSaid /\ IdsSaid /\ OpenRemembered /\ FinishedOver BY DEF Settling
<1>2. /\ op \in Operation
      /\ op.do \in {"delta", "remember"} => MessageOf(op.message, op.turn) /\ Unhurried(op.message)
      /\ op.do = "flush" =>
           /\ op.message \in Messages /\ op.message \in InTurn(said[op.message].turn)
           /\ op.fallback = << >> \/ Unhurried(op.message)
      /\ op.do = "complete" => op.message \in Messages
      /\ op.do = "forget" => ~Open(op.message)
      /\ op.do = "finish" =>
           /\ Over(op.turn) /\ Tail(todo) = << UpsertOf(op.turn) >>
           /\ \A m \in InTurn(op.turn) : ~Open(m)
      /\ op.do = "plan" => op.turn \notin finished
      /\ op.do = "clear" => Exits
  BY HeadReady
<1>3. /\ SaidSound' /\ WaitingSound' /\ InOrder' /\ ExitsFirst'
      /\ \A t : Over(t) => Over(t)'
      /\ Exits' => Exits
      /\ Messages' = Messages /\ \A m : Mine(m)' <=> Mine(m)
  BY OperationMoves
<1>4. /\ \A m : Open(m)' =>
           \/ Open(m)
           \/ op.do = "delta" /\ m = op.message
           \/ op.do = "flush" /\ m = op.message /\ op.fallback # << >>
      /\ DOMAIN thread'.messages \cup DOMAIN caches'.buffer \subseteq
           DOMAIN thread.messages \cup DOMAIN caches.buffer
             \cup IF op.do \in {"delta", "flush", "complete"} THEN {op.message} ELSE {}
  BY <1>2, OperationOpens
<1>5. caches \in Caches BY DEF Shape
<1>6. /\ op.do \in {"delta", "remember"} =>
           /\ InTurn(op.turn)' = InTurn(op.turn) \cup {op.message}
           /\ \A t : t # op.turn => InTurn(t)' = InTurn(t)
           /\ DOMAIN caches'.ids = DOMAIN caches.ids \cup {op.turn}
      /\ op.do = "forget" =>
           /\ InTurn(op.turn)' = InTurn(op.turn) \ {op.message}
           /\ \A t : t # op.turn => InTurn(t)' = InTurn(t)
           /\ DOMAIN caches'.ids \subseteq DOMAIN caches.ids
      /\ op.do = "finish" =>
           /\ \A t : t # op.turn => InTurn(t)' = InTurn(t)
           /\ DOMAIN caches'.ids = DOMAIN caches.ids \ {op.turn}
      /\ op.do = "clear" => DOMAIN caches'.ids = {}
      /\ op.do \notin {"delta", "remember", "forget", "finish", "clear"} => caches'.ids = caches.ids
  BY <1>2, <1>5, MemoryIs
<1>7. /\ op.do = "plan" => DOMAIN caches'.plans = DOMAIN caches.plans \cup {op.turn}
      /\ op.do = "upsert" => DOMAIN caches'.plans = DOMAIN caches.plans \ {op.turn}
      /\ op.do = "clear" => DOMAIN caches'.plans = {}
      /\ op.do \notin {"plan", "upsert", "clear"} => caches'.plans = caches.plans
  BY <1>2, <1>5, MemoryIs
<1>8. op.do \notin {"delta", "remember", "forget", "finish", "clear"}
        => \A t : InTurn(t)' = InTurn(t)
  BY <1>6 DEF InTurn
<1>9. KeysSaid' BY <1>1, <1>2, <1>3, <1>4 DEF MessageOf, KeysSaid
<1>10. IdsSaid'
  <2>1. \A t : \A m \in InTurn(t) : m \in Messages /\ said[m].turn = t
    BY <1>1 DEF IdsSaid, InTurn
  <2>2. PICK tt, mm : tt = op.turn /\ mm = op.message OBVIOUS
  <2>3. op.do \in {"delta", "remember"} => mm \in Messages /\ said[mm].turn = tt
    BY <1>2, <2>2 DEF MessageOf
  <2>4. ASSUME NEW t, t \in DOMAIN caches'.ids, NEW m \in InTurn(t)'
        PROVE  m \in InTurn(t) \/ (op.do \in {"delta", "remember"} /\ t = tt /\ m = mm)
    BY <1>6, <1>8, <2>2, <2>4
  <2>5. \A t \in DOMAIN caches'.ids : \A m \in InTurn(t)' : m \in Messages /\ said[m].turn = t
    BY <2>1, <2>3, <2>4
  <2>6. \A t \in DOMAIN caches'.ids : InTurn(t)' = caches'.ids[t] BY DEF InTurn
  <2> QED BY <1>3, <2>5, <2>6 DEF IdsSaid
<1>11. OpenRemembered'
  <2> SUFFICES ASSUME NEW m \in Messages, Mine(m), Open(m)'
               PROVE  m \in InTurn(said[m].turn)'
    BY <1>3 DEF OpenRemembered
  <2>1. PICK t : t = said[m].turn OBVIOUS
  <2>2. PICK tt, mm : tt = op.turn /\ mm = op.message OBVIOUS
  <2>3. CASE op.do \in {"delta", "remember"} /\ m = mm
    <3>1. t = tt BY <1>2, <2>1, <2>2, <2>3 DEF MessageOf
    <3>2. m \in InTurn(t)' BY <1>6, <2>2, <2>3, <3>1
    <3> QED BY <2>1, <3>2
  <2>4. CASE ~(op.do \in {"delta", "remember"} /\ m = mm)
    <3>1. m \in InTurn(t)
      <4>1. CASE Open(m) BY <1>1, <2>1, <4>1 DEF OpenRemembered
      <4>2. CASE ~Open(m)
        <5>1. op.do = "flush" /\ m = op.message BY <1>4, <2>2, <2>4, <4>2
        <5> QED BY <1>2, <2>1, <5>1
      <4> QED BY <4>1, <4>2
    <3>2. op.do # "clear" BY <1>1, <1>2, <1>4 DEF ExitsAlone
    <3>3. op.do = "finish" => t # tt BY <1>2, <1>4, <2>2, <3>1
    <3>4. op.do = "forget" => m # mm BY <1>2, <1>4, <2>2
    <3>5. m \in InTurn(t)'
      <4>1. CASE op.do \in {"delta", "remember"} BY <1>6, <2>2, <3>1, <4>1
      <4>2. CASE op.do = "forget" BY <1>6, <2>2, <3>1, <3>4, <4>2
      <4>3. CASE op.do = "finish" BY <1>6, <2>2, <3>1, <3>3, <4>3
      <4> QED BY <1>8, <3>1, <3>2, <4>1, <4>2, <4>3
    <3> QED BY <2>1, <3>5
  <2> QED BY <2>3, <2>4
<1>12. ExitsAlone' BY <1>1, <1>2, <1>3, <1>4 DEF ExitsAlone, Unhurried
<1>13. FinishedOver'
  <2>1. PICK tt : tt = op.turn OBVIOUS
  <2> SUFFICES ASSUME NEW t \in finished'
               PROVE  /\ Over(t)' /\ t \notin DOMAIN caches'.ids
                      /\ t \in DOMAIN caches'.plans => todo' = << UpsertOf(t) >>
    BY DEF FinishedOver, UpsertOf
  <2>2. CASE t \in finished
    <3>1. Over(t)' /\ t \notin DOMAIN caches.ids BY <1>1, <1>3, <2>2 DEF FinishedOver
    <3>2. op.do \in {"delta", "remember"} => t # tt BY <1>2, <2>1, <2>2 DEF MessageOf
    <3>3. t \notin DOMAIN caches'.ids BY <1>6, <2>1, <3>1, <3>2
    <3>4. ASSUME t \in DOMAIN caches'.plans PROVE FALSE
      <4>1. t \in DOMAIN caches.plans
        <5>1. op.do = "plan" => t # tt BY <1>2, <2>1, <2>2
        <5> QED BY <1>7, <2>1, <3>4, <5>1
      <4>2. todo = << UpsertOf(t) >> BY <1>1, <2>2, <4>1 DEF FinishedOver
      <4>3. op = UpsertOf(t) BY <4>2
      <4>4. op.do = "upsert" /\ op.turn = t BY <4>3 DEF UpsertOf
      <4> QED BY <1>7, <3>4, <4>4
    <3> QED BY <3>1, <3>3, <3>4
  <2>3. CASE t \notin finished BY <1>2, <1>3, <1>6, <2>3
  <2> QED BY <2>2, <2>3
<1> QED BY <1>3, <1>9, <1>10, <1>11, <1>12, <1>13 DEF Settling

(* The handler of a completed message moves on. *)
LEMMA ItemMoves ==
  ASSUME Shape, Shape', Settling, ItemForm, NEW op, op = Head(todo),
         UNCHANGED << said, codex, pipe, session, events >>, count'.turns = count.turns,
         caches' = Memory(op), thread' = Dispatched(op),
         finished' = finished \cup IF op.do = "finish" THEN {op.turn} ELSE {},
         todo' = Tail(todo), todo # << >>
  PROVE  TodoForm'
<1>1. PICK m \in Nat, t \in Nat, fallback \in Text :
        LET left == << [do |-> "remember", turn |-> t, message |-> m],
                       [do |-> "flush", message |-> m, fallback |-> fallback],
                       [do |-> "complete", message |-> m],
                       [do |-> "forget", turn |-> t, message |-> m] >>
        IN /\ MessageOf(m, t) /\ Unhurried(m)
           /\ \/ todo = left
              \/ todo = Tail(left) /\ m \in InTurn(t)
              \/ todo = Tail(Tail(left)) /\ m \in InTurn(t) /\ m \notin DOMAIN caches.buffer
              \/ todo = Tail(Tail(Tail(left))) /\ ~Open(m)
  BY DEF ItemForm
<1>2. MessageOf(m, t) /\ Unhurried(m) BY <1>1
<1>3. caches \in Caches /\ thread \in Threads BY DEF Shape
<1>4. op \in Operation BY HeadReady
<1> DEFINE a == [do |-> "remember", turn |-> t, message |-> m]
           b == [do |-> "flush", message |-> m, fallback |-> fallback]
           c == [do |-> "complete", message |-> m]
           d == [do |-> "forget", turn |-> t, message |-> m]
           left == << a, b, c, d >>
<1>5. \/ op = a /\ todo' = Tail(left)
      \/ op = b /\ todo' = Tail(Tail(left)) /\ m \in InTurn(t)
      \/ op = c /\ todo' = Tail(Tail(Tail(left))) /\ m \notin DOMAIN caches.buffer
      \/ op = d /\ todo' = << >>
  <2>0. \/ todo = left
        \/ todo = Tail(left) /\ m \in InTurn(t)
        \/ todo = Tail(Tail(left)) /\ m \in InTurn(t) /\ m \notin DOMAIN caches.buffer
        \/ todo = Tail(Tail(Tail(left))) /\ ~Open(m)
    BY <1>1
  <2>1. /\ Head(left) = a /\ Head(Tail(left)) = b /\ Head(Tail(Tail(left))) = c
        /\ Head(Tail(Tail(Tail(left)))) = d /\ Tail(Tail(Tail(Tail(left)))) = << >>
    <3> HIDE DEF a, b, c, d
    <3> QED BY ItemHead
  <2> HIDE DEF a, b, c, d, left
  <2> QED BY <2>0, <2>1, Zenon
<1>6. op.do \in {"remember", "flush", "complete", "forget"} BY <1>5
<1>7. MessageOf(m, t)' /\ Unhurried(m)' BY <1>2, <1>6, OperationMoves DEF MessageOf
<1>8. ASSUME todo' # << >> PROVE ItemForm'
  <2>1. CASE op = a
    <3>1. op.do = "remember" /\ op.turn = t /\ op.message = m BY <2>1
    <3>2. m \in InTurn(t)' BY <1>3, <1>4, <3>1, MemoryIs
    <3>3. todo' = Tail(left) BY <1>5, <2>1
    <3> QED BY <1>7, <3>2, <3>3 DEF ItemForm
  <2>2. CASE op = b
    <3>1. op.do = "flush" /\ op.message = m BY <2>2
    <3>2. caches'.ids = caches.ids /\ m \notin DOMAIN caches'.buffer BY <1>3, <1>4, <3>1, MemoryIs
    <3>3. todo' = Tail(Tail(left)) /\ m \in InTurn(t) BY <1>5, <2>2
    <3>4. m \in InTurn(t)' BY <3>2, <3>3 DEF InTurn
    <3> QED BY <1>7, <3>2, <3>3, <3>4 DEF ItemForm
  <2>3. CASE op = c
    <3>1. op.do = "complete" /\ op.message = m BY <2>3
    <3>2. caches'.buffer = caches.buffer BY <1>3, <1>4, <3>1, MemoryIs
    <3>3. Message(m)'.state = "done" BY <1>3, <1>4, <3>1, DispatchedIs
    <3>4. todo' = Tail(Tail(Tail(left))) /\ m \notin DOMAIN caches.buffer BY <1>5, <2>3
    <3>5. ~Open(m)' BY <3>2, <3>3, <3>4 DEF Open
    <3> QED BY <1>7, <3>4, <3>5 DEF ItemForm
  <2> QED BY <1>5, <1>8, <2>1, <2>2, <2>3
<1> QED BY <1>8 DEF TodoForm

LEMMA TurnFormThen ==
  ASSUME NEW t \in Nat, Over(t)', todo' # << >>, todo'[Len(todo')] = UpsertOf(t),
         Len(todo') > 1 => todo'[Len(todo') - 1] = FinishOf(t) /\ Sweeps(t)' /\ Swept(t)'
  PROVE  TurnForm'
<1>1. UpsertOf(t)' = UpsertOf(t) /\ FinishOf(t)' = FinishOf(t) BY DEF UpsertOf, FinishOf
<1> QED BY <1>1, Zenon DEF TurnForm

(* The handler of a completed turn moves on. *)
LEMMA TurnMoves ==
  ASSUME Shape, Shape', Settling, TurnForm, NEW op, op = Head(todo),
         UNCHANGED << said, codex, pipe, session, events >>, count'.turns = count.turns,
         caches' = Memory(op), thread' = Dispatched(op),
         todo' = Tail(todo), todo # << >>
  PROVE  TodoForm'
<1>1. PICK t \in Nat :
        /\ Over(t) /\ todo # << >> /\ todo[Len(todo)] = UpsertOf(t)
        /\ Len(todo) > 1 => todo[Len(todo) - 1] = FinishOf(t) /\ Sweeps(t) /\ Swept(t)
  BY DEF TurnForm
<1>2. Over(t)' BY <1>1, OperationMoves
<1>3. caches \in Caches /\ thread \in Threads BY DEF Shape
<1>4. op \in Operation BY HeadReady
<1>5. PICK n \in Nat : n = Len(todo) BY <1>1, TurnHead
<1>6. CASE n = 1 BY <1>1, <1>5, <1>6, TurnHead DEF TodoForm
<1>7. CASE n = 2
  <2>1. todo' = << UpsertOf(t) >> BY <1>1, <1>5, <1>7, TurnHead
  <2>2. todo' # << >> /\ Len(todo') = 1 /\ todo'[1] = UpsertOf(t)
    <3>1. \A x : << x >> # << >> /\ Len(<< x >>) = 1 /\ << x >>[1] = x OBVIOUS
    <3> QED BY <2>1, <3>1
  <2>3. ~(Len(todo') > 1)
    <3>1. ~(1 > 1) OBVIOUS
    <3> QED BY <2>2, <3>1, Zenon
  <2>4. todo'[Len(todo')] = UpsertOf(t) BY <2>2
  <2>5. TurnForm' BY <1>2, <2>2, <2>3, <2>4, TurnFormThen, Zenon
  <2> QED BY <2>5 DEF TodoForm
<1>8. CASE n > 2
  <2>1. /\ todo' \in Seq(Operation) /\ Len(todo') = n - 1
        /\ \A i \in 1 .. n - 1 : todo'[i] = todo[i + 1]
        /\ \/ op.do = "session"
           \/ \E m \in InTurn(t) :
                \/ op = CompleteOf(m)
                \/ op = FlushOf(m) /\ todo[2] = CompleteOf(m) /\ n > 3
        /\ op = todo[1]
    BY <1>1, <1>5, <1>8, TurnHead
  <2>2. /\ todo[n] = UpsertOf(t) /\ todo[n - 1] = FinishOf(t) /\ Sweeps(t) /\ Swept(t)
    BY <1>1, <1>5, <1>8
  <2>3. n - 1 \in Nat /\ n - 1 >= 2 /\ (n - 1) - 1 = n - 2 /\ (n - 1) - 2 = n - 3
        /\ n - 1 \in 1 .. n - 1 /\ n - 2 \in 1 .. n - 1 /\ (n - 2) + 1 = n - 1
        /\ (n - 1) + 1 = n
    BY <1>8
  <2>4. todo'[n - 1] = UpsertOf(t) /\ todo'[n - 2] = FinishOf(t) BY <2>1, <2>2, <2>3
  <2>5. \/ op.do = "session"
        \/ \E m : op = CompleteOf(m) /\ op.do = "complete" /\ op.message = m
        \/ \E m : /\ op = FlushOf(m) /\ op.do = "flush" /\ op.message = m
                  /\ todo[2] = CompleteOf(m) /\ n > 3
    <3>1. /\ \A m : CompleteOf(m).do = "complete" /\ CompleteOf(m).message = m
          /\ \A m : FlushOf(m).do = "flush" /\ FlushOf(m).message = m
      BY DEF CompleteOf, FlushOf
    <3>2. \/ op.do = "session"
          \/ \E m : op = CompleteOf(m)
          \/ \E m : op = FlushOf(m) /\ todo[2] = CompleteOf(m) /\ n > 3
      BY <2>1, Zenon
    <3>3. ASSUME NEW m, op = CompleteOf(m) PROVE op.do = "complete" /\ op.message = m
      BY <3>1, <3>3
    <3>4. ASSUME NEW m, op = FlushOf(m) PROVE op.do = "flush" /\ op.message = m
      BY <3>1, <3>4
    <3> QED BY <3>2, <3>3, <3>4, Zenon
  <2>6. InTurn(t)' = InTurn(t) BY <1>3, <1>4, <2>5, MemoryIs DEF InTurn
  <2>7. PICK S : S = InTurn(t) OBVIOUS
  <2>8. \A i \in 1 .. n - 2 :
          \/ todo[i].do = "session"
          \/ \E m \in S :
               todo[i] = CompleteOf(m) \/ (todo[i] = FlushOf(m) /\ todo[i + 1] = CompleteOf(m))
    BY <1>5, <2>2, <2>7 DEF Sweeps
  <2>9. \A i \in 1 .. n - 3 : /\ i + 1 \in 1 .. n - 2 /\ i \in 1 .. n - 1 /\ i + 1 \in 1 .. n - 1
                              /\ todo'[i] = todo[i + 1] /\ todo'[i + 1] = todo[(i + 1) + 1]
    <3>1. \A i \in 1 .. n - 3 : i + 1 \in 1 .. n - 2 /\ i \in 1 .. n - 1 /\ i + 1 \in 1 .. n - 1
      BY <1>8
    <3> QED BY <2>1, <3>1
  <2>10. \A m : FlushOf(m)' = FlushOf(m) /\ CompleteOf(m)' = CompleteOf(m)
    BY DEF FlushOf, CompleteOf
  <2>11. Sweeps(t)'
    <3>1. \A i \in 1 .. n - 3 :
            \/ todo'[i].do = "session"
            \/ \E m \in S :
                 todo'[i] = CompleteOf(m) \/ (todo'[i] = FlushOf(m) /\ todo'[i + 1] = CompleteOf(m))
      BY <2>8, <2>9
    <3>2. Len(todo') - 2 = n - 3 /\ InTurn(t)' = S BY <2>1, <2>3, <2>6, <2>7
    <3> QED BY <2>10, <3>1, <3>2 DEF Sweeps
  <2>12. ASSUME NEW x, NEW i \in 1 .. n - 2, todo[i] = x, op # x
         PROVE  \E j \in 1 .. n - 3 : todo'[j] = x
    <3>1. i # 1 BY <2>1, <2>12
    <3>2. i - 1 \in 1 .. n - 3 /\ i - 1 \in 1 .. n - 1 /\ (i - 1) + 1 = i BY <1>8, <3>1
    <3> QED BY <2>1, <2>12, <3>2
  <2>13. ASSUME NEW m \in S, m \in DOMAIN caches'.buffer
         PROVE  \E i \in 1 .. n - 3 : todo'[i] = FlushOf(m)
    <3>1. /\ op.do = "flush" => DOMAIN caches'.buffer = DOMAIN caches.buffer \ {op.message}
          /\ op.do # "flush" => caches'.buffer = caches.buffer
      BY <1>3, <1>4, <2>5, MemoryIs
    <3>2. m \in DOMAIN caches.buffer /\ op # FlushOf(m) BY <2>13, <3>1 DEF FlushOf
    <3>3. \E i \in 1 .. n - 2 : todo[i] = FlushOf(m) BY <1>5, <2>2, <2>7, <3>2 DEF Swept
    <3> QED BY <2>12, <3>2, <3>3
  <2>14. ASSUME NEW m \in S, Message(m)'.state = "streaming"
         PROVE  \E i \in 1 .. n - 3 : todo'[i] = CompleteOf(m)
    <3>1. op # CompleteOf(m) BY <1>3, <1>4, <2>14, DispatchedIs DEF CompleteOf
    <3>2. CASE op = FlushOf(m)
      <4>0. op.do = "flush" /\ op.message = m BY <3>2 DEF FlushOf
      <4>1. todo[2] = CompleteOf(m) /\ n > 3 BY <2>5, <4>0
      <4>2. 2 \in 1 .. n - 2 BY <4>1
      <4> QED BY <2>12, <3>1, <4>1, <4>2
    <3>3. CASE op # FlushOf(m)
      <4>1. op.do \notin {"delta", "flush", "complete"} \/ m # op.message
        BY <2>5, <3>1, <3>3
      <4>2. Message(m)' = Message(m) BY <1>3, <1>4, <4>1, DispatchedIs
      <4>3. \E i \in 1 .. n - 2 : todo[i] = CompleteOf(m)
        BY <1>5, <2>2, <2>7, <2>14, <4>2 DEF Swept
      <4> QED BY <2>12, <3>1, <4>3
    <3> QED BY <3>2, <3>3
  <2>15. Swept(t)'
    <3>1. Len(todo') - 2 = n - 3 /\ InTurn(t)' = S BY <2>1, <2>3, <2>6, <2>7
    <3> QED BY <2>10, <2>13, <2>14, <3>1 DEF Swept
  <2>16. todo' # << >> /\ Len(todo') - 1 = n - 2
    <3>1. Len(<< >>) = 0 OBVIOUS
    <3>2. n - 1 # 0 BY <1>8
    <3> QED BY <2>1, <2>3, <3>1, <3>2
  <2>17. TurnForm' BY <1>2, <2>1, <2>4, <2>11, <2>15, <2>16, TurnFormThen
  <2> QED BY <2>17 DEF TodoForm
<1>9. n # 0 BY <1>5, ShortSequences DEF Shape
<1> QED BY <1>6, <1>7, <1>8, <1>9

LEMMA PerformSettles ==
  ASSUME Shape, Shape', Settling, Perform
  PROVE  Settling'
<1>1. PICK op : op = Head(todo) OBVIOUS
<1>2. /\ todo # << >> /\ todo' = Tail(todo)
      /\ UNCHANGED << said, codex, pipe, session, events >> /\ count' = count
      /\ caches' = Memory(op) /\ thread' = Dispatched(op)
      /\ finished' = finished \cup IF op.do = "finish" THEN {op.turn} ELSE {}
  BY <1>1 DEF Perform, codexVars, managerVars
<1>3. op \in Operation BY <1>1, <1>2, HeadReady
<1>4. TodoForm'
  <2>1. CASE SingleForm BY <1>2, <2>1, SingleHead DEF SingleForm, TodoForm
  <2>2. CASE ExitForm BY <1>2, <2>2, OneToDo DEF ExitForm, SingleForm, TodoForm
  <2>3. CASE ItemForm BY <1>1, <1>2, <2>3, ItemMoves
  <2>4. CASE TurnForm BY <1>1, <1>2, <2>4, TurnMoves
  <2> QED BY <1>2, <2>1, <2>2, <2>3, <2>4 DEF TodoForm, Settling
<1> QED BY <1>1, <1>2, <1>4, OperationSettles

LEMMA FailsSettles ==
  ASSUME Shape, Shape', Settling, DispatchFails
  PROVE  Settling'
<1>1. PICK op : op = Head(todo) OBVIOUS
<1>2. /\ todo # << >> /\ todo' = << >> /\ Dispatched(op) # thread /\ caches' = Memory(op)
      /\ UNCHANGED << said, codex, pipe, session, events, finished, thread >> /\ Bump("failures")
  BY <1>1 DEF DispatchFails, codexVars, managerVars
<1>3. count'.turns = count.turns BY <1>2 DEF Bump, Shape, Counts
<1>4. op.do # "finish" BY <1>2 DEF Dispatched
<1>5. TodoForm' BY <1>2 DEF TodoForm
<1>6. finished' = finished \cup IF op.do = "finish" THEN {op.turn} ELSE {} BY <1>2, <1>4
<1> QED BY <1>1, <1>2, <1>3, <1>4, <1>5, <1>6, OperationSettles

LEMMA SettlesInit == Init => Settling
<1> SUFFICES ASSUME Init PROVE Settling OBVIOUS
<1>1. /\ events = << >> /\ pipe = << << >> >> /\ said = << >> /\ todo = << >> /\ finished = {}
      /\ codex = [process |-> 1, alive |-> TRUE, turn |-> None, message |-> None, waiting |-> None]
      /\ caches = [mode |-> "buffered", buffer |-> << >>, ids |-> << >>, plans |-> << >>]
      /\ thread = [messages |-> << >>, plans |-> << >>, activities |-> << >>, status |-> "ready"]
  BY DEF Init, NewProcess
<1>2. Waiting = {} BY <1>1 DEF Processes, Waiting
<1>3. Messages = {} BY <1>1 DEF Messages
<1>4. codex.message = None /\ DOMAIN caches.ids = {} /\ DOMAIN caches.buffer = {}
      /\ DOMAIN thread.messages = {} /\ DOMAIN events = {} /\ DOMAIN todo = {}
  BY <1>1
<1>5. SaidSound BY <1>3, <1>4 DEF SaidSound
<1>6. WaitingSound /\ InOrder BY <1>2 DEF WaitingSound, InOrder
<1>7. ExitsFirst BY <1>4 DEF ExitsFirst
<1>8. ExitsAlone /\ KeysSaid /\ IdsSaid /\ OpenRemembered
  BY <1>3, <1>4 DEF ExitsAlone, KeysSaid, IdsSaid, OpenRemembered
<1>9. TodoForm /\ FinishedOver BY <1>1 DEF TodoForm, FinishedOver
<1> QED BY <1>5, <1>6, <1>7, <1>8, <1>9 DEF Settling

LEMMA SettlesStep ==
  ASSUME Shape, Shape', Settling, [Next]_vars
  PROVE  Settling'
<1>1. CASE StartTurn \/ OtherTurn \/ Begin \/ Say \/ EndMessage \/ EndTurn \/ Ask \/ Die
  BY <1>1, SaySettles
<1>2. CASE Manager BY <1>2, ManagerSettles DEF Manager
<1>3. CASE Take BY <1>3, TakeSettles
<1>4. CASE Perform BY <1>4, PerformSettles
<1>5. CASE DispatchFails BY <1>5, FailsSettles
<1>6. CASE User BY <1>6, UserSettles DEF User
<1>7. CASE TakeAnswer BY <1>7, AnswerSettles
<1>8. CASE TakeStop BY <1>8, StopSettles
<1>9. CASE UNCHANGED vars
  <2>1. /\ UNCHANGED << said, codex, pipe, session, events, todo, caches, finished, thread, count >>
    BY <1>9 DEF vars, codexVars, managerVars, ingestionVars
  <2>2. SaidSound /\ count.turns \in Nat BY DEF Settling, Shape, Counts
  <2>3. Processes' = Processes BY <2>1 DEF Processes
  <2>4. SaidSound' /\ MoreSaid BY <2>1, <2>2, <2>3, SameSaid
  <2> QED BY <2>1, <2>4, RestSettles DEF ingestionVars
<1> QED BY <1>1, <1>2, <1>3, <1>4, <1>5, <1>6, <1>7, <1>8, <1>9
        DEF Next, Codex, Manager, Ingestion, User, Reactor

(* Once the completion of a turn was handled to its end, none of its       *)
(* messages is streaming and the ingestion remembers nothing of it.        *)
THEOREM TurnsSettleHolds == Spec => []TurnsSettle
<1>1. Init => Shape /\ Settling BY ShapeInit, SettlesInit
<1>2. Shape /\ Settling /\ [Next]_vars => (Shape /\ Settling)' BY ShapeStep, SettlesStep
<1>3. Settling => TurnsSettle
  <2> SUFFICES ASSUME Settling, NEW m \in Messages, Lives(m), said[m].turn \in finished
               PROVE  /\ Message(m).state # "streaming"
                      /\ m \notin DOMAIN caches.buffer /\ said[m].turn \notin DOMAIN caches.ids
                      /\ todo = << >> => said[m].turn \notin DOMAIN caches.plans
    BY DEF TurnsSettle
  <2>1. PICK t : t = said[m].turn OBVIOUS
  <2>2. t \notin DOMAIN caches.ids /\ (t \in DOMAIN caches.plans => todo = << UpsertOf(t) >>)
    BY <2>1 DEF Settling, FinishedOver
  <2>3. InTurn(t) = {} BY <2>2 DEF InTurn
  <2>4. Mine(m) BY DEF Lives, Mine
  <2>5. ~Open(m) BY <2>1, <2>3, <2>4 DEF Settling, OpenRemembered
  <2>6. << UpsertOf(t) >> # << >> OBVIOUS
  <2> QED BY <2>1, <2>2, <2>5, <2>6 DEF Open
<1> QED BY <1>1, <1>2, <1>3, PTL DEF Spec

-----------------------------------------------------------------------------
(* The way of what codex says into the thread. *)
LEMMA SaidParts ==
  ASSUME Shape
  PROVE  /\ said \in Seq(MessageLog) /\ Len(said) \in Nat /\ Messages = 1 .. Len(said)
         /\ \A m \in Messages :
              /\ m \in Nat /\ m >= 1 /\ m <= Len(said) /\ said[m] \in MessageLog
              /\ said[m].turn \in Nat /\ said[m].process \in Nat /\ said[m].plan \in BOOLEAN
              /\ said[m].chunks \in Nat
<1>1. said \in Seq(MessageLog) /\ Messages = 1 .. Len(said) BY DEF Shape, Messages
<1>2. Len(said) \in Nat /\ \A m \in 1 .. Len(said) : said[m] \in MessageLog BY <1>1
<1> QED BY <1>1, <1>2 DEF MessageLog

(* What moves in the queues, as a set. *)
LEMMA LinesMove ==
  ASSUME NEW fresh, NEW e, NEW gone, Moved(fresh, e, gone)
  PROVE  /\ \A l \in Lines' : l \in Lines \/ (l = e /\ fresh \in Waiting')
         /\ gone = {} => Lines \subseteq Lines'
         /\ fresh \in Waiting' => e \in Lines'
<1>1. PICK old \in [Waiting' \ {fresh} -> Waiting] :
        /\ \A a \in Waiting' \ {fresh} : At(a)' = At(old[a])
        /\ \A c \in Waiting \ gone : \E a \in Waiting' \ {fresh} : old[a] = c
        /\ fresh \in Waiting' => At(fresh)' = e
  BY DEF Moved
<1>2. Lines' = {At(a)' : a \in Waiting'} BY DEF Lines
<1>3. \A a \in Waiting' \ {fresh} : old[a] \in Waiting BY <1>1
<1>4. ASSUME NEW l \in Lines' PROVE l \in Lines \/ (l = e /\ fresh \in Waiting')
  BY <1>1, <1>2, <1>3 DEF Lines
<1>5. ASSUME gone = {}, NEW l \in Lines PROVE l \in Lines' BY <1>1, <1>2, <1>5 DEF Lines
<1>6. fresh \in Waiting' => e \in Lines' BY <1>1, <1>2
<1> QED BY <1>4, <1>5, <1>6

(* What is left of a message when a line moves. *)
LEMMA LeftMoves ==
  ASSUME Shape, Shape', NEW e, \A l \in Lines' : l \in Lines \/ l = e, Lines \subseteq Lines'
  PROVE  /\ \A m : ~(e.type = "delta" /\ e.message = m) => Left(m)' = Left(m)
         /\ e \in Lines' /\ e.type = "delta" =>
              Left(e.message)' = Left(e.message) \cup {e.chunk}
         /\ ~Speaks(e) => \A m : Unspoken(m) => Unspoken(m)'
<1>1. \A m, c : c \in Left(m)
                  <=> \E l \in Lines : l.type = "delta" /\ l.message = m /\ l.chunk = c
  BY DEF Left
<1>2. \A m, c : c \in Left(m)'
                  <=> \E l \in Lines' : l.type = "delta" /\ l.message = m /\ l.chunk = c
  BY DEF Left
<1>3. \A m : ~(e.type = "delta" /\ e.message = m) => Left(m)' = Left(m) BY <1>1, <1>2 DEF Left
<1>4. e \in Lines' /\ e.type = "delta" => Left(e.message)' = Left(e.message) \cup {e.chunk}
  <2> SUFFICES ASSUME e \in Lines', e.type = "delta"
               PROVE  Left(e.message)' = Left(e.message) \cup {e.chunk}
    OBVIOUS
  <2>1. PICK m, c : m = e.message /\ c = e.chunk OBVIOUS
  <2>2. Left(m)' = Left(m) \cup {c} BY <1>1, <1>2, <2>1
  <2>3. Left(e.message)' = {l.chunk : l \in {n \in Lines' : n.type = "delta" /\ n.message = m}}
    BY <2>1 DEF Left
  <2> QED BY <2>1, <2>2
<1>5. ~Speaks(e) => \A m : Unspoken(m) => Unspoken(m)' BY DEF Unspoken, Speaks
<1> QED BY <1>3, <1>4, <1>5

(* Ranks are numbers, and what is before something is not behind it. *)
LEMMA BeforeOnce ==
  ASSUME NEW l \in Event, NEW n \in Event, Speaks(l), Speaks(n), Before(l, n)
  PROVE  ~Before(n, l) /\ ~(l.message = n.message /\ Rank(l) = Rank(n))
<1>1. \A x \in Event : Speaks(x) => x.message \in Nat /\ Rank(x) \in Nat
  BY DEF Event, Line, Speaks, Rank
<1>2. PICK i \in Nat, j \in Nat, r \in Nat, s \in Nat :
        i = l.message /\ j = n.message /\ r = Rank(l) /\ s = Rank(n)
  BY <1>1
<1>3. i < j \/ (i = j /\ r < s) BY <1>2 DEF Before
<1>4. ~(j < i \/ (j = i /\ s < r)) /\ ~(i = j /\ r = s) BY <1>3
<1> QED BY <1>2, <1>4 DEF Before

LEMMA BeforeSelf ==
  ASSUME NEW l \in Event, Speaks(l)
  PROVE  ~Before(l, l)
<1>1. l.message \in Nat /\ Rank(l) \in Nat BY DEF Event, Line, Speaks, Rank
<1>2. PICK i \in Nat, r \in Nat : i = l.message /\ r = Rank(l) BY <1>1
<1>3. ~(i < i) /\ ~(r < r) OBVIOUS
<1> QED BY <1>2, <1>3 DEF Before

(* Who waits after a line is added. *)
LEMMA WaitingThen ==
  ASSUME Shape'
  PROVE  \A a \in Waiting' : At(a)' \in Event
<1>1. events' \in Seq(Event) /\ pipe' \in Seq(Seq(Line)) BY DEF Shape
<1>2. \A i \in DOMAIN events' : events'[i] \in Event BY <1>1
<1>3. \A p \in Processes' : p \in Nat /\ p # 0 /\ pipe'[p] \in Seq(Line)
  BY <1>1 DEF Processes
<1>4. \A p \in Processes' : \A k \in DOMAIN pipe'[p] : pipe'[p][k] \in Line BY <1>3
<1>5. SUFFICES ASSUME NEW a \in Waiting' PROVE At(a)' \in Event OBVIOUS
<1>6. CASE a[1] = 0 /\ a[2] \in DOMAIN events' BY <1>2, <1>6 DEF At
<1>7. CASE a[1] \in Processes' /\ a[2] \in DOMAIN pipe'[a[1]]
  BY <1>3, <1>4, <1>7, EventTypes DEF At
<1> QED BY <1>6, <1>7 DEF Waiting

(* Lines stay in the order in which they were said when a new one is       *)
(* behind all of its process.                                              *)
LEMMA SequenceKept ==
  ASSUME Shape, Shape', WaitingSound, WaitingSound', InSequence, MoreSaid,
         NEW fresh, NEW e, NEW gone, Moved(fresh, e, gone),
         fresh \in Waiting' /\ Speaks(e) =>
           \A a \in Waiting' \ {fresh} :
             Speaks(At(a)') /\ said'[At(a)'.message].process = said'[e.message].process
               => Before(At(a)', e) /\ Ahead(a, fresh)
  PROVE  InSequence'
<1>1. PICK old \in [Waiting' \ {fresh} -> Waiting] :
        /\ \A a \in Waiting' \ {fresh} : At(a)' = At(old[a])
        /\ \A a, b \in Waiting' \ {fresh} : /\ old[a] = old[b] => a = b
                                            /\ Ahead(old[a], old[b]) => Ahead(a, b)
        /\ fresh \in Waiting' => At(fresh)' = e
  BY DEF Moved
<1>2. \A a \in Waiting' \ {fresh} : old[a] \in Waiting BY <1>1
<1>3. \A a \in Waiting' : At(a)' \in Event BY WaitingThen
<1>4. ASSUME NEW a \in Waiting, Speaks(At(a))
      PROVE  said'[At(a).message].process = said[At(a).message].process
  BY <1>4 DEF WaitingSound, LineSound, MoreSaid
<1>5. SUFFICES ASSUME NEW a \in Waiting', NEW b \in Waiting', NEW l, NEW n,
                      l = At(a)', n = At(b)', Speaks(l), Speaks(n),
                      said'[l.message].process = said'[n.message].process
               PROVE  /\ Before(l, n) => Ahead(a, b)
                      /\ l.message = n.message /\ Rank(l) = Rank(n) => a = b
  <2>1. \A l, n : Same(l, n)' => /\ Speaks(l) /\ Speaks(n)
                                 /\ said'[l.message].process = said'[n.message].process
    BY DEF Same, Speaks
  <2>2. ASSUME NEW a \in Waiting', NEW b \in Waiting', NEW l, NEW n, l = At(a)', n = At(b)',
               Same(l, n)'
        PROVE  /\ Before(l, n) => Ahead(a, b)
               /\ l.message = n.message /\ Rank(l) = Rank(n) => a = b
    BY <1>5, <2>1, <2>2
  <2>3. ASSUME NEW a \in Waiting', NEW b \in Waiting', Same(At(a), At(b))'
        PROVE  (/\ Before(At(a), At(b)) => Ahead(a, b)
                /\ At(a).message = At(b).message /\ Rank(At(a)) = Rank(At(b)) => a = b)'
    <3>1. PICK l, n : l = At(a)' /\ n = At(b)' OBVIOUS
    <3>2. Same(l, n)' BY <2>3, <3>1 DEF Same, Speaks
    <3>3. /\ Before(l, n) => Ahead(a, b)
          /\ l.message = n.message /\ Rank(l) = Rank(n) => a = b
      BY <2>2, <3>1, <3>2
    <3> QED BY <3>1, <3>3 DEF Before, Rank, Ahead
  <2> QED BY <2>3 DEF InSequence
<1>6. l \in Event /\ n \in Event BY <1>3, <1>5
<1>7. CASE a # fresh /\ b # fresh
  <2>1. /\ old[a] \in Waiting /\ old[b] \in Waiting
        /\ l = At(old[a]) /\ n = At(old[b])
    BY <1>1, <1>2, <1>5, <1>7
  <2>2. Same(At(old[a]), At(old[b])) BY <1>4, <1>5, <2>1 DEF Same
  <2>3. /\ Before(l, n) => Ahead(old[a], old[b])
        /\ l.message = n.message /\ Rank(l) = Rank(n) => old[a] = old[b]
    BY <2>1, <2>2 DEF InSequence
  <2> QED BY <1>1, <1>7, <2>3
<1>8. CASE a # fresh /\ b = fresh
  <2>1. n = e /\ Before(l, n) /\ Ahead(a, b) BY <1>1, <1>5, <1>8
  <2> QED BY <1>5, <1>6, <2>1, BeforeOnce
<1>9. CASE a = fresh /\ b # fresh
  <2>1. l = e /\ Before(n, l) BY <1>1, <1>5, <1>9
  <2> QED BY <1>5, <1>6, <2>1, BeforeOnce
<1>10. CASE a = fresh /\ b = fresh BY <1>5, <1>6, <1>10, BeforeSelf
<1> QED BY <1>7, <1>8, <1>9, <1>10

-----------------------------------------------------------------------------
(* What is to do of a proposed plan tells which. *)
LEMMA PlanOperation ==
  ASSUME Shape, SaidMore, TodoAgrees, NEW m \in Messages, NEW i \in DOMAIN todo, todo[i] = PlanOf(m)
  PROVE  Silent(m) /\ said[m].plan /\ Len(todo) = 1
<1>1. said[m].chunks \in Nat /\ said[m].chunks >= 1 BY SaidParts DEF SaidMore
<1>2. \A n, c : c \in Nat /\ c >= 1 => WholePlan(n, c)[1] = << n, 1 >> /\ WholePlan(n, c) # << >>
  BY DEF WholePlan
<1>3. PICK op : op = todo[i] OBVIOUS
<1>4. op.do = "upsert" /\ op.fallback = WholePlan(m, said[m].chunks) BY <1>3 DEF PlanOf
<1>5. op.fallback # << >> /\ op.fallback[1] = << m, 1 >> BY <1>1, <1>2, <1>4
<1>6. Len(todo) = 1 /\ \E n \in Messages : op = PlanOf(n) /\ said[n].plan /\ Silent(n)
  BY <1>3, <1>4, <1>5, Zenon DEF TodoAgrees, OperationAgrees
<1>7. PICK n \in Messages : op = PlanOf(n) /\ said[n].plan /\ Silent(n) BY <1>6
<1>8. said[n].chunks \in Nat /\ said[n].chunks >= 1 BY SaidParts DEF SaidMore
<1>9. op.fallback[1] = << n, 1 >> BY <1>2, <1>7, <1>8 DEF PlanOf
<1>10. n = m BY <1>5, <1>9
<1> QED BY <1>6, <1>7, <1>10

(* What the handler under way has left still agrees, ... *)
LEMMA HeardTodo ==
  ASSUME Shape, Shape', Settling, Flowing, Heard, todo' = todo, caches' = caches
  PROVE  TodoAgrees' /\ \A m \in Messages, i \in DOMAIN todo :
                          todo[i] = PlanOf(m) <=> todo[i] = PlanOf(m)'
<1>1. \A m \in Messages : /\ m \in Messages' /\ said'[m].turn = said[m].turn
                          /\ said'[m].plan = said[m].plan
                          /\ (Silent(m) => Silent(m)' /\ said'[m].chunks = said[m].chunks)
  BY DEF Heard, MoreSaid
<1>2. ASSUME NEW t, Over(t) PROVE Over(t)'
  <2>1. t \in 1 .. count'.turns /\ t # codex'.turn /\ t # codex.turn BY <1>2 DEF Over, Heard, MoreSaid
  <2>2. ASSUME NEW a \in Waiting', Speaks(At(a)') PROVE At(a)'.turn # t
    BY <1>2, <2>1, <2>2 DEF Lines, Heard, Over
  <2> QED BY <2>1, <2>2 DEF Over, Speaks
<1>3. /\ \A m \in Messages : said[m].chunks \in Nat /\ said[m].chunks >= 1
      /\ \A m \in Messages' : said'[m].chunks \in Nat
  <2>1. said' \in Seq(MessageLog) BY DEF Shape
  <2>2. \A m \in Messages' : said'[m] \in MessageLog BY <2>1 DEF Messages
  <2> QED BY <2>2, SaidParts DEF Flowing, SaidMore, MessageLog
<1>4. ASSUME NEW i \in DOMAIN todo PROVE OperationAgrees(i)'
  <2>1. PICK op : op = todo[i] OBVIOUS
  <2>2. OperationAgrees(i) BY DEF Flowing, TodoAgrees
  <2>3. op.do \in {"delta", "plan", "flush", "complete"} =>
          op.message \in Messages' /\ (said'[op.message].plan <=> op.do = "plan")
    BY <1>1, <2>1, <2>2 DEF OperationAgrees
  <2>4. op.do = "remember" => op.message \in Messages' /\ ~said'[op.message].plan
    BY <1>1, <2>1, <2>2 DEF OperationAgrees
  <2>5. Chunky(op) =>
          /\ Len(todo) = 1 /\ said'[op.message].turn = op.turn
          /\ op.chunk \in 1 .. said'[op.message].chunks
          /\ \A c \in Left(op.message)' : op.chunk < c
    <3> SUFFICES ASSUME Chunky(op)
                 PROVE  /\ Len(todo) = 1 /\ said'[op.message].turn = op.turn
                        /\ op.chunk \in 1 .. said'[op.message].chunks
                        /\ \A c \in Left(op.message)' : op.chunk < c
      OBVIOUS
    <3>1. PICK m, k : m = op.message /\ k = op.chunk OBVIOUS
    <3>2. /\ m \in Messages /\ Len(todo) = 1 /\ said[m].turn = op.turn
          /\ k \in 1 .. said[m].chunks /\ \A c \in Left(m) : k < c
      BY <2>1, <2>2, <3>1 DEF OperationAgrees, Chunky
    <3>3. /\ said'[m].chunks >= said[m].chunks
          /\ \A c \in Left(m)' : c \in Left(m) \/ c > said[m].chunks
      BY <3>2 DEF Heard
    <3>4. k \in 1 .. said'[m].chunks BY <1>1, <1>3, <3>2, <3>3
    <3>5. \A c \in Left(m)' : c \in Nat
      <4>1. \A l \in Lines' : l.type = "delta" => l.chunk \in Nat
        BY WaitingThen DEF Lines, Event, Line
      <4> QED BY <4>1 DEF Left
    <3>6. \A c \in Left(m)' : k < c BY <1>3, <3>2, <3>3, <3>5
    <3> QED BY <1>1, <3>1, <3>2, <3>4, <3>6
  <2>6. op.do \in {"flush", "complete"} => Silent(op.message)'
    BY <1>1, <2>1, <2>2 DEF OperationAgrees
  <2>7. op.do = "flush" => op.fallback \in {<< >>, Whole(said'[op.message].chunks)}
    BY <1>1, <2>1, <2>2 DEF OperationAgrees
  <2>8. op.do = "complete" => IF i = 1 THEN op.message \notin DOMAIN caches.buffer
                              ELSE todo[i-1].do = "flush" /\ todo[i-1].message = op.message
    BY <2>1, <2>2 DEF OperationAgrees
  <2>9. op.do = "upsert" =>
          \/ op.fallback = << >> /\ Over(op.turn)'
          \/ Len(todo) = 1 /\ \E m \in Messages' : op = PlanOf(m)' /\ said'[m].plan /\ Silent(m)'
    <3> SUFFICES ASSUME op.do = "upsert"
                 PROVE  \/ op.fallback = << >> /\ Over(op.turn)'
                        \/ /\ Len(todo) = 1
                           /\ \E m \in Messages' : op = PlanOf(m)' /\ said'[m].plan /\ Silent(m)'
      OBVIOUS
    <3>1. CASE op.fallback = << >> /\ Over(op.turn) BY <1>2, <3>1
    <3>2. CASE Len(todo) = 1 /\ \E m \in Messages : op = PlanOf(m) /\ said[m].plan /\ Silent(m)
      BY <1>1, <3>2 DEF PlanOf
    <3> QED BY <2>1, <2>2, <3>1, <3>2 DEF OperationAgrees
  <2> QED BY <2>1, <2>3, <2>4, <2>5, <2>6, <2>7, <2>8, <2>9 DEF OperationAgrees, Chunky
<1>5. TodoAgrees' BY <1>4 DEF TodoAgrees
<1>6. ASSUME NEW m \in Messages, NEW i \in DOMAIN todo
      PROVE  todo[i] = PlanOf(m) <=> todo[i] = PlanOf(m)'
  <2>1. todo[i] = PlanOf(m) => Silent(m) BY PlanOperation DEF Flowing
  <2>2. todo[i] = PlanOf(m)' => said'[m].chunks = said[m].chunks
    <3> SUFFICES ASSUME todo[i] = PlanOf(m)' PROVE said'[m].chunks = said[m].chunks OBVIOUS
    <3>1. PICK op : op = todo[i] OBVIOUS
    <3>2. PICK k \in Nat : k = said'[m].chunks /\ k >= 1 BY <1>1, <1>3 DEF Heard, SaidMore
    <3>3. \A n, c : c \in Nat /\ c >= 1 => WholePlan(n, c)[1] = << n, 1 >> /\ WholePlan(n, c) # << >>
      BY DEF WholePlan
    <3>4. op.do = "upsert" /\ op.fallback = WholePlan(m, k) BY <3>1, <3>2 DEF PlanOf
    <3>5. op.fallback # << >> /\ op.fallback[1] = << m, 1 >> BY <3>2, <3>3, <3>4
    <3>6. PICK n \in Messages : op = PlanOf(n) /\ Silent(n)
      BY <3>1, <3>4, <3>5, Zenon DEF Flowing, TodoAgrees, OperationAgrees
    <3>7. op.fallback[1] = << n, 1 >> BY <1>3, <3>3, <3>6 DEF PlanOf
    <3>8. n = m BY <3>5, <3>7
    <3> QED BY <1>1, <3>6, <3>8
  <2> QED BY <1>1, <2>1, <2>2 DEF PlanOf
<1> QED BY <1>5, <1>6

(* ... what comes of a message is still an end of it, ... *)
LEMMA HeardComing ==
  ASSUME Shape, Shape', Settling, Flowing, Heard, todo' = todo
  PROVE  /\ \A m \in Messages : Mine(m)' =>
              /\ said[m].chunks \in Nat /\ said[m].chunks >= 1
              /\ \/ said'[m].chunks = said[m].chunks /\ Coming(m)' = Coming(m)
                 \/ /\ said'[m].chunks = said[m].chunks + 1
                    /\ Coming(m)' = Coming(m) \cup {said'[m].chunks} /\ ~Silent(m)
         /\ \A m \in Messages' \ Messages :
              Mine(m)' => said'[m].chunks = 1 /\ Coming(m)' = {1} /\ Ending(m)'
<1>1. \A m : InHand(m)' = InHand(m) BY DEF InHand
<1>2. \A m : Coming(m)' = Left(m)' \cup InHand(m) BY <1>1 DEF Coming
<1>3. ASSUME NEW m \in Messages, Mine(m)'
      PROVE  /\ said[m].chunks \in Nat /\ said[m].chunks >= 1
             /\ \/ said'[m].chunks = said[m].chunks /\ Coming(m)' = Coming(m)
                \/ /\ said'[m].chunks = said[m].chunks + 1
                   /\ Coming(m)' = Coming(m) \cup {said'[m].chunks} /\ ~Silent(m)
  <2>1. said[m].chunks \in Nat /\ said[m].chunks >= 1 BY SaidParts DEF Flowing, SaidMore
  <2>2. CASE said'[m].chunks = said[m].chunks /\ Left(m)' = Left(m)
    BY <1>2, <2>1, <2>2 DEF Coming
  <2>3. CASE said'[m].chunks = said[m].chunks + 1 /\ Left(m)' = Left(m) \cup {said'[m].chunks}
    BY <1>2, <2>1, <2>3 DEF Coming, Heard
  <2> QED BY <1>3, <2>2, <2>3 DEF Heard
<1>4. ASSUME NEW m \in Messages' \ Messages, Mine(m)'
      PROVE  said'[m].chunks = 1 /\ Coming(m)' = {1} /\ Ending(m)'
  <2>1. \A i \in DOMAIN todo : Chunky(todo[i]) => todo[i].message \in Messages
    BY DEF Flowing, TodoAgrees, OperationAgrees, Chunky
  <2>2. InHand(m) = {} BY <2>1 DEF InHand
  <2> QED BY <1>2, <1>4, <2>2 DEF Heard
<1> QED BY <1>3, <1>4

(* Text that is known is of messages that were said. *)
LEMMA NewMessage ==
  ASSUME Settling, NEW m, m \notin Messages
  PROVE  Message(m) = Unknown /\ m \notin DOMAIN caches.buffer /\ Buffered(caches, m) = << >>
         /\ m \notin DOMAIN thread.messages
BY DEF Settling, KeysSaid, Message, Buffered

LEMMA HeardText ==
  ASSUME Shape, Shape', Settling, Flowing, Heard, count.failures = 0,
         todo' = todo, caches' = caches, thread'.messages = thread.messages, scope' = scope
  PROVE  TextKept'
<1>1. SUFFICES ASSUME NEW m \in Messages', Mine(m)', ~said'[m].plan
               PROVE  /\ Kept(m)'
                      /\ scope'.modes = {"buffered"} /\ said'[m].chunks <= MaxBuffered
                           => Fresh(m)' \/ Settled(m)'
  BY DEF TextKept
<1>2. Message(m)' = Message(m) /\ Buffered(caches', m) = Buffered(caches, m)
  BY DEF Message, Buffered
<1>3. CASE m \in Messages
  <2>1. Mine(m) /\ ~said[m].plan BY <1>1, <1>3 DEF Heard
  <2>2. /\ Kept(m)
        /\ scope.modes = {"buffered"} /\ said[m].chunks <= MaxBuffered => Fresh(m) \/ Settled(m)
    BY <1>3, <2>1 DEF Flowing, TextKept
  <2>3. /\ said[m].chunks \in Nat /\ said[m].chunks >= 1
        /\ \/ said'[m].chunks = said[m].chunks /\ Coming(m)' = Coming(m)
           \/ /\ said'[m].chunks = said[m].chunks + 1
              /\ Coming(m)' = Coming(m) \cup {said'[m].chunks} /\ ~Silent(m)
    BY <1>1, <1>3, HeardComing
  <2>4. Silent(m) => Silent(m)' BY <1>3 DEF Heard
  <2>5. PICK n \in Nat : n = said[m].chunks BY <2>3
  <2>6. CASE said'[m].chunks = n /\ Coming(m)' = Coming(m)
    <3>1. Kept(m)' BY <1>2, <2>2, <2>4, <2>5, <2>6 DEF Kept
    <3>2. Fresh(m) => Fresh(m)' BY <1>2, <2>5, <2>6 DEF Fresh
    <3>3. Settled(m) => Settled(m)' BY <1>2, <2>4, <2>5, <2>6 DEF Settled
    <3> QED BY <2>2, <2>5, <2>6, <3>1, <3>2, <3>3
  <2>7. CASE said'[m].chunks = n + 1 /\ Coming(m)' = Coming(m) \cup {n + 1} /\ ~Silent(m)
    <3>1. 1 .. n + 1 = (1 .. n) \cup {n + 1} OBVIOUS
    <3>2. Kept(m)' BY <1>2, <2>2, <2>5, <2>7, <3>1 DEF Kept
    <3>3. ~Settled(m) BY <2>7 DEF Settled
    <3>4. Fresh(m) => Fresh(m)'
      <4>1. ASSUME NEW k \in 0 .. n, Coming(m) = k + 1 .. n
            PROVE  k \in 0 .. n + 1 /\ Coming(m)' = k + 1 .. n + 1
        BY <2>7, <4>1
      <4> QED BY <1>2, <2>5, <2>7, <4>1 DEF Fresh
    <3>5. said'[m].chunks <= MaxBuffered => said[m].chunks <= MaxBuffered
      BY <2>5, <2>7, BoundsAssumption
    <3> QED BY <2>2, <3>2, <3>3, <3>4, <3>5
  <2> QED BY <2>3, <2>5, <2>6, <2>7
<1>4. CASE m \notin Messages
  <2>1. said'[m].chunks = 1 /\ Coming(m)' = {1} BY <1>1, <1>4, HeardComing
  <2>2. /\ Message(m) = Unknown /\ m \notin DOMAIN caches.buffer /\ Buffered(caches, m) = << >>
        /\ m \notin DOMAIN thread.messages
    BY <1>4, NewMessage
  <2>3. Range(<< >>) = {} BY DEF Range
  <2>4. 1 .. 1 = {1} /\ 0 \in 0 .. 1 /\ 0 + 1 = 1 OBVIOUS
  <2>5. Whole(0) = << >> BY DEF Whole
  <2>6. Kept(m)' BY <1>2, <2>1, <2>2, <2>3, <2>4 DEF Kept, Unknown
  <2>7. Fresh(m)' BY <1>2, <2>1, <2>2, <2>4, <2>5 DEF Fresh
  <2> QED BY <2>6, <2>7
<1> QED BY <1>3, <1>4

(* ... and so are the plans. *)
LEMMA HeardPlans ==
  ASSUME Shape, Shape', Settling, Flowing, Heard, count.failures = 0,
         todo' = todo, caches' = caches, thread'.plans = thread.plans
  PROVE  PlansKept'
<1>1. /\ \A m \in Messages : /\ m \in Messages' /\ said'[m].turn = said[m].turn
                             /\ said'[m].plan = said[m].plan
                             /\ (Mine(m)' => Mine(m))
                             /\ (Silent(m) => Silent(m)' /\ said'[m].chunks = said[m].chunks)
                             /\ (Mine(m)' /\ Ending(m) => Ending(m)')
      /\ \A t : Pieces(t)' = Pieces(t)
  BY DEF Heard, MoreSaid, Pieces
<1>2. \A m \in Messages, i \in DOMAIN todo : todo[i] = PlanOf(m) <=> todo[i] = PlanOf(m)'
  BY HeardTodo
<1>3. ASSUME NEW m \in Messages, Mine(m)', Closing(m) PROVE Closing(m)'
  <2>1. CASE Ending(m) BY <1>1, <1>3, <2>1 DEF Closing
  <2>2. CASE \E i \in DOMAIN todo : todo[i] = PlanOf(m) BY <1>2, <2>2 DEF Closing
  <2> QED BY <1>3, <2>1, <2>2 DEF Closing
<1>4. ASSUME NEW m \in Messages, Mine(m)', Flows(m) PROVE Flows(m)'
  <2>1. PICK k \in 1 .. said[m].chunks :
          Coming(m) = k + 1 .. said[m].chunks /\ Pieces(said[m].turn) = WholePlan(m, k)
    BY <1>4 DEF Flows
  <2>2. Closing(m)' BY <1>3, <1>4 DEF Flows
  <2>3. /\ said[m].chunks \in Nat /\ said[m].chunks >= 1
        /\ \/ said'[m].chunks = said[m].chunks /\ Coming(m)' = Coming(m)
           \/ /\ said'[m].chunks = said[m].chunks + 1
              /\ Coming(m)' = Coming(m) \cup {said'[m].chunks} /\ ~Silent(m)
    BY <1>4, HeardComing
  <2>4. PICK n, t : n = said[m].chunks /\ t = said[m].turn /\ n \in Nat BY <2>3
  <2>5. Pieces(t)' = WholePlan(m, k) /\ said'[m].turn = t BY <1>1, <2>1, <2>4
  <2>6. k \in 1 .. said'[m].chunks /\ Coming(m)' = k + 1 .. said'[m].chunks
    <3>1. CASE said'[m].chunks = n /\ Coming(m)' = Coming(m) BY <2>1, <2>4, <3>1
    <3>2. CASE said'[m].chunks = n + 1 /\ Coming(m)' = Coming(m) \cup {n + 1} BY <2>1, <2>4, <3>2
    <3> QED BY <2>3, <2>4, <3>1, <3>2
  <2>7. Pieces(said[m].turn)' = Pieces(t)' BY <2>4, <2>5 DEF Pieces
  <2> QED BY <2>2, <2>5, <2>6, <2>7 DEF Flows
<1>5. ASSUME NEW m \in Messages, Proposed(m) PROVE Proposed(m)'
  <2>1. Silent(m) /\ Silent(m)' /\ said'[m].chunks = said[m].chunks /\ Coming(m) = {}
    BY <1>1, <1>5 DEF Proposed
  <2>2. Coming(m)' = {}
    <3>1. InHand(m)' = InHand(m) /\ InHand(m) = {} BY <2>1 DEF InHand, Coming
    <3>2. Left(m)' = {} BY <2>1 DEF Silent, Unspoken, Left, Speaks
    <3> QED BY <3>1, <3>2 DEF Coming
  <2>3. \A i \in DOMAIN todo : todo[i] # PlanOf(m)' BY <1>2, <1>5 DEF Proposed
  <2>4. LastPlan(m)' => LastPlan(m)
    <3> SUFFICES ASSUME LastPlan(m)' PROVE LastPlan(m) OBVIOUS
    <3>1. said'[m].plan /\ \A k \in m + 1 .. Len(said') : said'[k].plan => said'[k].turn # said'[m].turn
      BY DEF LastPlan
    <3>2. \A k \in m + 1 .. Len(said) : k \in Messages BY SaidParts
    <3>3. Len(said') \in Nat /\ Len(said) \in Nat /\ m \in Nat BY SaidParts DEF Shape
    <3>4. \A k \in m + 1 .. Len(said) : k \in m + 1 .. Len(said')
      <4>1. Len(said) <= Len(said') BY <1>1, <3>3 DEF Messages
      <4> QED BY <3>3, <4>1
    <3> QED BY <1>1, <3>1, <3>2, <3>4 DEF LastPlan
  <2>5. PICK t, n : t = said[m].turn /\ n = said[m].chunks OBVIOUS
  <2>6. LastPlan(m)' => Pieces(t)' = << >> /\ t \in DOMAIN thread'.plans
                        /\ thread'.plans[t] = WholePlan(m, n)
    BY <1>1, <1>5, <2>4, <2>5 DEF Proposed
  <2>7. said'[m].turn = t /\ said'[m].chunks = n /\ Pieces(said[m].turn)' = Pieces(t)'
    BY <1>1, <2>1, <2>5 DEF Pieces
  <2> QED BY <2>1, <2>2, <2>3, <2>6, <2>7 DEF Proposed
<1>6. ASSUME NEW m \in Messages', Mine(m)', said'[m].plan
      PROVE  \/ Coming(m)' = 1 .. said'[m].chunks /\ Closing(m)'
             \/ Flows(m)' \/ Proposed(m)'
  <2>1. CASE m \in Messages
    <3>1. \/ Coming(m) = 1 .. said[m].chunks /\ Closing(m)
          \/ Flows(m) \/ Proposed(m)
      BY <1>1, <1>6, <2>1 DEF Flowing, PlansKept
    <3>2. CASE Coming(m) = 1 .. said[m].chunks /\ Closing(m)
      <4>1. /\ said[m].chunks \in Nat /\ said[m].chunks >= 1
            /\ \/ said'[m].chunks = said[m].chunks /\ Coming(m)' = Coming(m)
               \/ /\ said'[m].chunks = said[m].chunks + 1
                  /\ Coming(m)' = Coming(m) \cup {said'[m].chunks} /\ ~Silent(m)
        BY <1>6, <2>1, HeardComing
      <4>2. PICK n \in Nat : n = said[m].chunks BY <4>1
      <4>3. (1 .. n) \cup {n + 1} = 1 .. n + 1 OBVIOUS
      <4>4. Coming(m)' = 1 .. said'[m].chunks BY <3>2, <4>1, <4>2, <4>3
      <4> QED BY <1>3, <1>6, <2>1, <3>2, <4>4
    <3> QED BY <1>4, <1>5, <1>6, <2>1, <3>1, <3>2
  <2>2. CASE m \notin Messages
    <3>1. said'[m].chunks = 1 /\ Coming(m)' = {1} /\ Ending(m)' BY <1>6, <2>2, HeardComing
    <3>2. 1 .. 1 = {1} OBVIOUS
    <3> QED BY <3>1, <3>2 DEF Closing
  <2> QED BY <2>1, <2>2
<1>7. ASSUME NEW t \in DOMAIN caches'.plans, Pieces(t)' # << >>
      PROVE  \E m \in Messages' : said'[m].turn = t /\ said'[m].plan /\ (Mine(m)' => Flows(m)')
  BY <1>1, <1>4, <1>7 DEF Flowing, PlansKept
<1> QED BY <1>6, <1>7 DEF PlansKept

(* A step outside the ingestion keeps what flows. *)
LEMMA HeardKeeps ==
  ASSUME Shape, Shape', Settling, Flowing, Heard, scope' = scope, count'.failures = count.failures,
         todo' = todo, caches' = caches, thread'.messages = thread.messages,
         thread'.plans = thread.plans
  PROVE  Flowing'
<1>1. \A m \in Messages : /\ m \in Messages' /\ said'[m].plan = said[m].plan
                          /\ (Mine(m)' => Mine(m))
  BY DEF Heard, MoreSaid
<1>2. TodoAgrees' BY HeardTodo
<1>3. ModesSound' BY DEF Flowing, ModesSound, Heard
<1>4. Written' BY <1>1 DEF Flowing, Written
<1>5. Remaining'
  <2> SUFFICES ASSUME NEW m \in Messages', Mine(m)'
               PROVE  \E k \in 0 .. said'[m].chunks : Coming(m)' = k + 1 .. said'[m].chunks
    BY DEF Remaining
  <2>1. CASE m \in Messages
    <3>1. PICK k \in 0 .. said[m].chunks : Coming(m) = k + 1 .. said[m].chunks
      BY <1>1, <2>1 DEF Flowing, Remaining
    <3>2. /\ said[m].chunks \in Nat /\ said[m].chunks >= 1
          /\ \/ said'[m].chunks = said[m].chunks /\ Coming(m)' = Coming(m)
             \/ /\ said'[m].chunks = said[m].chunks + 1
                /\ Coming(m)' = Coming(m) \cup {said'[m].chunks} /\ ~Silent(m)
      BY <2>1, HeardComing
    <3>3. PICK n \in Nat : n = said[m].chunks BY <3>2
    <3>4. (k + 1 .. n) \cup {n + 1} = k + 1 .. n + 1 /\ k \in 0 .. n + 1 BY <3>1, <3>3
    <3> QED BY <3>1, <3>2, <3>3, <3>4
  <2>2. CASE m \notin Messages
    <3>1. said'[m].chunks = 1 /\ Coming(m)' = {1} BY <2>2, HeardComing
    <3>2. 0 + 1 .. 1 = {1} /\ 0 \in 0 .. 1 OBVIOUS
    <3> QED BY <3>1, <3>2
  <2> QED BY <2>1, <2>2
<1>6. ASSUME NEW m \in Messages', Mine(m)', Begun(m)' PROVE m \in Messages /\ Mine(m) /\ Begun(m)
  BY <1>1, <1>6 DEF Heard, Begun
<1>7. Successive'
  <2> SUFFICES ASSUME NEW m \in Messages', NEW n \in Messages', Mine(m)', Mine(n)', m < n, Begun(n)'
               PROVE  Unspoken(m)' /\ \A i \in DOMAIN todo : Chunky(todo[i]) => todo[i].message # m
    BY DEF Successive, Chunky
  <2>1. n \in Messages /\ Mine(n) /\ Begun(n) BY <1>6
  <2>2. m \in Messages
    <3>1. Len(said') \in Nat /\ m \in Nat /\ m >= 1 BY DEF Shape, Messages
    <3> QED BY <2>1, <3>1, SaidParts DEF Messages
  <2>3. Unspoken(m) /\ \A i \in DOMAIN todo : Chunky(todo[i]) => todo[i].message # m
    BY <1>1, <2>1, <2>2 DEF Flowing, Successive
  <2> QED BY <2>2, <2>3 DEF Heard
<1>8. ExitsBefore' BY <1>6 DEF ExitsBefore, Heard, Mine, Flowing
<1>9. count'.failures = 0 => TextKept' BY HeardText
<1>10. count'.failures = 0 => PlansKept' BY HeardPlans
<1> QED BY <1>2, <1>3, <1>4, <1>5, <1>7, <1>8, <1>9, <1>10 DEF Flowing, Heard

-----------------------------------------------------------------------------
(* The steps outside the ingestion: what they add to the queues. *)
LEMMA LinesSound ==
  ASSUME Settling, NEW l \in Lines
  PROVE  LineSound(l)
BY DEF Settling, WaitingSound, Lines

(* No line of a message is dropped. *)
SpokenStay == \A l \in Lines : Speaks(l) => l \in Lines'

LEMMA AllStay ==
  ASSUME NEW fresh, NEW e, NEW gone, Moved(fresh, e, gone), \A a \in gone : ~Speaks(At(a))
  PROVE  SpokenStay
<1> SUFFICES ASSUME NEW c \in Waiting, Speaks(At(c)) PROVE At(c) \in Lines'
  BY DEF SpokenStay, Lines
<1>1. PICK a \in Waiting' : At(a)' = At(c) BY DEF Moved
<1>2. Lines' = {At(x)' : x \in Waiting'} BY DEF Lines
<1> QED BY <1>1, <1>2

(* The lines and what is left of a message, if nothing is said of it. *)
LEMMA LeftSame ==
  ASSUME \A l \in Lines' : Speaks(l) => l \in Lines
  PROVE  /\ \A m : Unspoken(m) => Unspoken(m)'
         /\ \A m : Left(m)' \subseteq Left(m)
         /\ SpokenStay => \A m : Left(m)' = Left(m)
<1>1. \A m, c : c \in Left(m)
                  <=> \E l \in Lines : l.type = "delta" /\ l.message = m /\ l.chunk = c
  BY DEF Left
<1>2. \A m, c : c \in Left(m)'
                  <=> \E l \in Lines' : l.type = "delta" /\ l.message = m /\ l.chunk = c
  BY DEF Left
<1>3. \A m : Left(m)' \subseteq Left(m) BY <1>1, <1>2 DEF Speaks
<1>4. ASSUME SpokenStay, NEW m PROVE Left(m)' = Left(m)
  BY <1>1, <1>2, <1>4 DEF Speaks, SpokenStay, Left
<1>5. \A m : Unspoken(m) => Unspoken(m)' BY DEF Unspoken, Speaks
<1> QED BY <1>3, <1>4, <1>5

(* Nothing new is said. *)
LEMMA RestHeard ==
  ASSUME Shape, Shape', Settling, Settling', Flowing, MoreSaid, said' = said,
         NEW fresh, NEW e, NEW gone, Moved(fresh, e, gone),
         fresh \in Waiting' => ~Speaks(e) /\ (e.type = "mode" => e.mode \in scope.modes),
         \/ codex'.message = codex.message /\ codex'.turn = codex.turn
         \/ codex'.message = None /\ codex'.turn # codex.turn,
         \/ session' = session /\ SpokenStay /\ (Exits' => Exits)
         \/ \A m \in Messages : said[m].process # session'
  PROVE  Heard
<1>1. \A l \in Lines' : l \in Lines \/ (l = e /\ fresh \in Waiting')
  BY LinesMove
<1>2. \A l \in Lines' : Speaks(l) => l \in Lines BY <1>1
<1>3. /\ \A m : Unspoken(m) => Unspoken(m)'
      /\ \A m : Left(m)' \subseteq Left(m)
      /\ SpokenStay => \A m : Left(m)' = Left(m)
  BY <1>1, <1>2, LeftSame
<1>4. Messages' = Messages /\ \A m \in Messages : m \in Nat /\ m # None /\ said[m].chunks \in Nat
  BY SaidParts DEF Messages, None
<1>5. SaidMore' BY <1>4 DEF Flowing, SaidMore
<1>6. \A l \in Lines : Speaks(l) => l.message \in Messages BY LinesSound DEF LineSound
<1>7. LinesAgree'
  <2> SUFFICES ASSUME NEW l \in Lines'
               PROVE  LineAgrees(l)'
    BY DEF LinesAgree
  <2>1. CASE l \in Lines BY <1>4, <1>6, <2>1 DEF Flowing, LinesAgree, LineAgrees, Speaks
  <2>2. CASE ~Speaks(l) BY <2>2 DEF LineAgrees, Speaks
  <2> QED BY <1>2, <2>1, <2>2
<1>8. InSequence' BY SequenceKept DEF Settling, Flowing
<1>9. \A m \in Messages : Silent(m) => Silent(m)' BY <1>3, <1>4 DEF Silent
<1>10. ASSUME NEW m \in Messages, Mine(m)', Ending(m)
       PROVE  Mine(m) /\ session' = session /\ SpokenStay /\ Ending(m)'
  <2>1. session' = session /\ SpokenStay /\ Mine(m) BY <1>10 DEF Mine
  <2>2. CASE \E l \in Lines : l.type = "item" /\ l.message = m
    BY <1>1, <2>1, <2>2 DEF Ending, SpokenStay, Speaks
  <2>3. CASE codex.message = m
    <3>1. CASE codex'.message = codex.message BY <2>1, <2>3, <3>1 DEF Ending
    <3>2. CASE codex'.turn # codex.turn
      <4>1. said[m].turn = codex.turn BY <1>4, <2>3 DEF Settling, SaidSound
      <4>2. m = Len(said) BY <1>4, <2>3 DEF Flowing, SaidMore
      <4>3. \A n \in m + 1 .. Len(said) : FALSE BY <1>4, <4>2
      <4> QED BY <2>1, <3>2, <4>1, <4>3 DEF Ending
    <3> QED BY <3>1, <3>2
  <2>4. CASE codex.turn # said[m].turn /\ \A n \in m + 1 .. Len(said) : said[n].turn # said[m].turn
    BY <2>1, <2>4 DEF Settling, SaidSound, MoreSaid, Ending
  <2> QED BY <1>10, <2>1, <2>2, <2>3, <2>4 DEF Ending
<1>11. \A m \in Messages : Mine(m)' => Mine(m) /\ Left(m)' = Left(m) BY <1>3 DEF Mine
<1>12. \A l \in Lines' : /\ Speaks(l) => l \in Lines \/ l.turn = codex.turn
                         /\ l.type = "mode" => l \in Lines \/ l.mode \in scope.modes
  BY <1>1, <1>2
<1>13. \A m \in Messages : said[m].chunks >= said[m].chunks BY <1>4
<1> QED BY <1>3, <1>4, <1>5, <1>7, <1>8, <1>9, <1>10, <1>11, <1>12, <1>13 DEF Heard

(* Codex says a line of the message it is at. *)
LEMMA LineHeard ==
  ASSUME Shape, Shape', Settling, Settling', Flowing, MoreSaid, SaidMore',
         NEW line \in Line, Speaks(line), Write(line), events' = events, session' = session,
         todo' = todo, NEW m, m = line.message, m = Len(said'), line.turn = codex.turn,
         codex'.turn = codex.turn, codex.message \in {None, m}, codex'.message \in {None, m},
         \A x \in Messages : x # m => said'[x] = said[x],
         m \notin Messages =>
           /\ line.type = "delta" /\ line.chunk = 1 /\ said'[m].chunks = 1
           /\ said'[m].turn = codex.turn /\ codex'.message = m /\ Messages' = Messages \cup {m},
         m \in Messages =>
           /\ codex.message = m /\ said'[m].plan = said[m].plan /\ Messages' = Messages
           /\ \/ /\ line.type = "delta" /\ said'[m].chunks = said[m].chunks + 1
                 /\ line.chunk = said'[m].chunks /\ codex'.message = m
              \/ line.type = "item" /\ said'[m].chunks = said[m].chunks,
         said'[m].process = codex.process, LineAgrees(line)',
         \A l \in Lines : Speaks(l) => Before(l, line)
  PROVE  Heard
<1>1. PICK here : here = << codex.process, Len(pipe[codex.process]) + 1 >> OBVIOUS
<1>2. /\ Moved(here, line, {}) /\ here \in Waiting'
      /\ \A b \in Waiting : b[1] \in {0, codex.process} => Ahead(b, here)
      /\ \A b \in Waiting' : b = here \/ (b \in Waiting /\ At(b)' = At(b))
  BY <1>1, WriteMoves
<1>3. /\ \A l \in Lines' : l \in Lines \/ l = line
      /\ Lines \subseteq Lines' /\ line \in Lines'
  BY <1>2, LinesMove
<1>4. /\ \A x : ~(line.type = "delta" /\ line.message = x) => Left(x)' = Left(x)
      /\ line.type = "delta" => Left(m)' = Left(m) \cup {line.chunk}
  BY <1>3, LeftMoves
<1>5. /\ \A x \in Messages : /\ x \in Nat /\ x # None /\ said[x].chunks \in Nat
                             /\ x \in Messages' /\ said'[x].turn = said[x].turn
                             /\ said'[x].process = said[x].process
      /\ m \in Nat /\ m \in Messages' /\ m # None
  <2>1. said' \in Seq(MessageLog) BY DEF Shape
  <2>2. Len(said') \in Nat BY <2>1
  <2>3. m \in Messages' BY SaidParts
  <2> QED BY <2>2, <2>3, SaidParts DEF Messages, None, MoreSaid
<1>6. \A l \in Lines : Speaks(l) => l.message \in Messages BY LinesSound DEF LineSound
<1>7. LinesAgree'
  <2> SUFFICES ASSUME NEW l \in Lines, l # line
               PROVE  LineAgrees(l)'
    BY <1>3 DEF LinesAgree
  <2>1. LineAgrees(l) BY DEF Flowing, LinesAgree
  <2>2. CASE ~Speaks(l) BY <2>2 DEF LineAgrees, Speaks
  <2>3. CASE l.type = "item" BY <1>5, <1>6, <2>1, <2>3 DEF LineAgrees, Speaks
  <2>4. CASE l.type = "delta" BY <1>5, <1>6, <2>1, <2>4 DEF LineAgrees, Speaks
  <2> QED BY <2>2, <2>3, <2>4 DEF Speaks
<1>8. InSequence'
  <2>1. WaitingSound /\ WaitingSound' /\ InSequence BY DEF Settling, Flowing
  <2>2. ASSUME NEW a \in Waiting' \ {here}, Speaks(At(a)'),
               said'[At(a)'.message].process = said'[line.message].process
        PROVE  Before(At(a)', line) /\ Ahead(a, here)
    <3>1. PICK l : l = At(a) OBVIOUS
    <3>2. a \in Waiting /\ At(a)' = l /\ l \in Lines /\ Speaks(l) BY <1>2, <2>2, <3>1 DEF Lines
    <3>3. said[l.message].process = codex.process BY <1>5, <1>6, <2>2, <3>2
    <3>4. a[1] \in {0, codex.process} BY <2>1, <3>1, <3>2, <3>3 DEF WaitingSound
    <3> QED BY <1>2, <3>2, <3>4
  <2> QED BY <1>2, <2>1, <2>2, SequenceKept
<1>9. ASSUME NEW x \in Messages, x # m
      PROVE  /\ said'[x] = said[x] /\ Left(x)' = Left(x) /\ (Silent(x) => Silent(x)')
             /\ (Unspoken(x) => Unspoken(x)')
             /\ (Ending(x) => Ending(x)')
  <2>1. Left(x)' = Left(x) BY <1>4, <1>9
  <2>2. Unspoken(x) => Unspoken(x)' BY <1>3, <1>9 DEF Unspoken, Speaks
  <2>3. Silent(x) => Silent(x)' BY <1>5, <1>9, <2>2 DEF Silent
  <2>4. ASSUME Ending(x) PROVE Ending(x)'
    <3>1. CASE \E l \in Lines : l.type = "item" /\ l.message = x BY <1>3, <3>1 DEF Ending
    <3>2. CASE codex.turn # said[x].turn /\ \A n \in x + 1 .. Len(said) : said[n].turn # said[x].turn
      <4>1. \A n \in x + 1 .. Len(said) : n \in Messages BY SaidParts
      <4>2. ASSUME NEW n \in x + 1 .. Len(said') PROVE said'[n].turn # said[x].turn
        <5>1. n = m \/ n \in x + 1 .. Len(said)
          <6>1. n \in Messages' /\ n >= x + 1 BY <1>5 DEF Messages
          <6>2. n = m \/ n \in Messages BY <6>1
          <6> QED BY <1>5, <6>1, <6>2, SaidParts
        <5>2. m \notin Messages => said'[m].turn # said[x].turn BY <3>2
        <5> QED BY <1>5, <3>2, <4>1, <5>1, <5>2, SaidParts
      <4> QED BY <1>5, <3>2, <4>2 DEF Ending
    <3> QED BY <1>5, <1>9, <2>4, <3>1, <3>2 DEF Ending
  <2> QED BY <1>9, <2>1, <2>2, <2>3, <2>4
<1>10. ASSUME m \in Messages
       PROVE  /\ said'[m].plan = said[m].plan /\ ~Silent(m) /\ Ending(m)'
              /\ said'[m].chunks >= said[m].chunks
              /\ \/ said'[m].chunks = said[m].chunks /\ Left(m)' = Left(m)
                 \/ /\ said'[m].chunks = said[m].chunks + 1
                    /\ Left(m)' = Left(m) \cup {said'[m].chunks}
  <2>1. codex.message = m /\ said'[m].plan = said[m].plan /\ said[m].chunks \in Nat
    BY <1>5, <1>10
  <2>2. ~Silent(m) BY <2>1 DEF Silent
  <2>3. CASE /\ line.type = "delta" /\ said'[m].chunks = said[m].chunks + 1
             /\ line.chunk = said'[m].chunks /\ codex'.message = m
    BY <1>4, <2>1, <2>2, <2>3 DEF Ending
  <2>4. CASE line.type = "item" /\ said'[m].chunks = said[m].chunks
    <3>1. Ending(m)' BY <1>3, <2>4 DEF Ending
    <3>2. said'[m].chunks >= said[m].chunks BY <2>1, <2>4
    <3>3. Left(m)' = Left(m) BY <1>4, <2>4
    <3> QED BY <2>1, <2>2, <2>4, <3>1, <3>2, <3>3
  <2> QED BY <1>10, <2>3, <2>4
<1>11. ASSUME m \notin Messages
       PROVE  said'[m].chunks = 1 /\ Left(m)' = {1} /\ Ending(m)'
  <2>1. Left(m) = {} BY <1>6, <1>11 DEF Left, Speaks
  <2> QED BY <1>4, <1>11, <2>1 DEF Ending
<1>12. ASSUME NEW x \in Messages, NEW n \in Messages', x < n
       PROVE  x # m
  BY <1>5, <1>12 DEF Messages
<1>13. \A x \in Messages : Mine(x)' => Mine(x) BY <1>5 DEF Mine
<1>14. Exits' => Exits BY DEF Exits
<1>15. \A l \in Lines' : /\ Speaks(l) => l \in Lines \/ l.turn = codex.turn
                         /\ l.type = "mode" => l \in Lines \/ l.mode \in scope.modes
  BY <1>3 DEF Speaks
<1>16. ASSUME NEW x \in Messages
       PROVE  /\ said'[x].plan = said[x].plan
              /\ said'[x].chunks >= said[x].chunks
              /\ \A c \in Left(x)' : c \in Left(x) \/ c > said[x].chunks
              /\ Silent(x) => Silent(x)' /\ said'[x].chunks = said[x].chunks
              /\ Ending(x) => Ending(x)'
              /\ \/ said'[x].chunks = said[x].chunks /\ Left(x)' = Left(x)
                 \/ /\ said'[x].chunks = said[x].chunks + 1
                    /\ Left(x)' = Left(x) \cup {said'[x].chunks}
  BY <1>5, <1>9, <1>10
<1>17. \A x \in Messages' \ Messages : x = m BY DEF Messages
<1>18. \A x \in Messages, n \in Messages' : x < n /\ Unspoken(x) => Unspoken(x)' BY <1>9, <1>12
<1> QED BY <1>7, <1>8, <1>11, <1>13, <1>14, <1>15, <1>16, <1>17, <1>18 DEF Heard

(* The failures are counted by nothing else. *)
LEMMA BumpFailures ==
  ASSUME count \in Counts,
         NEW k \in {"turns", "others", "asks", "answers", "stops", "deaths"}, Bump(k)
  PROVE  count'.failures = count.failures
<1>1. DOMAIN count = {"turns", "others", "asks", "answers", "stops", "deaths", "failures"}
  BY DEF Counts
<1>2. count' = [count EXCEPT ![k] = count[k] + 1] BY DEF Bump
<1> QED BY <1>1, <1>2

(* No exit comes of any other event. *)
LEMMA ExitsSame ==
  ASSUME Shape, todo' = todo, NEW e \in Event, e.type # "exited", events' = Append(events, e)
  PROVE  Exits' => Exits
<1>1. events \in Seq(Event) BY DEF Shape
<1>2. \A i \in DOMAIN events' : events'[i] = e \/ (i \in DOMAIN events /\ events'[i] = events[i])
  BY <1>1
<1> QED BY <1>2 DEF Exits

(* What leaves the ingestion alone and is heard keeps what flows. *)
LEMMA AsideKeeps ==
  ASSUME Shape, Shape', Settling, Flowing, Heard, Aside
  PROVE  Flowing'
BY HeardKeeps DEF Aside

(* Nothing is added to the queues, ... *)
LEMMA RestFlows ==
  ASSUME Shape, Shape', Settling, Settling', Flowing, MoreSaid, said' = said, Aside,
         events' = events, pipe' = pipe, session' = session, codex'.message = codex.message,
         codex'.turn = codex.turn
  PROVE  Flowing'
<1>1. PICK here : here = << 0, 0 >> OBVIOUS
<1>2. Moved(here, 0, {}) /\ here \notin Waiting' BY <1>1, RestMoves
<1>3. Exits' => Exits BY DEF Exits, Aside
<1>4. Heard BY <1>2, <1>3, AllStay, RestHeard
<1> QED BY <1>4, AsideKeeps

(* ... or a line that is of no message, ... *)
LEMMA WriteFlows ==
  ASSUME Shape, Shape', Settling, Settling', Flowing, MoreSaid, said' = said, Aside,
         NEW line \in Line, ~Speaks(line), Write(line), events' = events, session' = session,
         \/ codex'.message = codex.message /\ codex'.turn = codex.turn
         \/ codex'.message = None /\ codex'.turn # codex.turn
  PROVE  Flowing'
<1>1. PICK here : here = << codex.process, Len(pipe[codex.process]) + 1 >> OBVIOUS
<1>2. Moved(here, line, {}) BY <1>1, WriteMoves
<1>3. Exits' => Exits BY DEF Exits, Aside
<1>4. line.type # "mode" BY DEF Line
<1>5. Heard BY <1>2, <1>3, <1>4, AllStay, RestHeard
<1> QED BY <1>5, AsideKeeps

(* ... or an event that is of no message. *)
LEMMA EmitFlows ==
  ASSUME Shape, Shape', Settling, Settling', Flowing, MoreSaid, said' = said, Aside,
         NEW e \in Event, events' = Append(events, e), ~Speaks(e),
         e.type = "mode" => e.mode \in scope.modes,
         NEW S, S \subseteq Processes, Processes \subseteq Processes',
         \A p \in Processes \ S : pipe'[p] = pipe[p],
         \A p \in Processes' : p \in Processes \ S \/ DOMAIN pipe'[p] = {},
         \/ codex'.message = codex.message /\ codex'.turn = codex.turn
         \/ codex'.message = None /\ codex'.turn # codex.turn,
         \/ session' = session /\ e.type # "exited" /\ S = {}
         \/ session' = None
         \/ session' \notin Processes
  PROVE  Flowing'
<1>0. 0 \notin Processes' BY DEF Processes
<1>1. PICK here : here = << 0, Len(events) + 1 >> OBVIOUS
<1>2. PICK gone : gone = {a \in Waiting : a[1] \in S} OBVIOUS
<1>3. Moved(here, e, gone) BY <1>0, <1>1, <1>2, EmitMoves
<1>4. \/ session' = session /\ SpokenStay /\ (Exits' => Exits)
      \/ \A m \in Messages : said[m].process # session'
  <2>1. CASE session' = session /\ e.type # "exited" /\ S = {}
    <3>1. gone = {} BY <1>2, <2>1
    <3> QED BY <1>3, <2>1, <3>1, AllStay, ExitsSame DEF Aside
  <2>2. CASE session' = None \/ session' \notin Processes
    BY <2>2 DEF Processes, None, Settling, SaidSound
  <2> QED BY <2>1, <2>2
<1>5. Heard BY <1>3, <1>4, RestHeard
<1> QED BY <1>5, AsideKeeps

(* What waits was said before what codex says next. *)
LEMMA AllBefore ==
  ASSUME Shape, Settling, Flowing, NEW line \in Line, Speaks(line), NEW m, m = line.message,
         \/ m = Len(said) + 1
         \/ /\ m = codex.message /\ m # None
            /\ \/ line.type = "delta" /\ line.chunk = said[m].chunks + 1
               \/ line.type = "item" /\ line.chunks = said[m].chunks
  PROVE  \A l \in Lines : Speaks(l) => Before(l, line)
<1> SUFFICES ASSUME NEW l \in Lines, Speaks(l) PROVE Before(l, line) OBVIOUS
<1>1. l.message \in Messages /\ LineAgrees(l)
  BY LinesSound DEF LineSound, Flowing, LinesAgree
<1>2. PICK x, n : x = l.message /\ n = Len(said) OBVIOUS
<1>3. x \in Nat /\ n \in Nat /\ x <= n /\ said[x].chunks \in Nat BY <1>1, <1>2, SaidParts
<1>4. CASE m = n + 1 BY <1>2, <1>3, <1>4 DEF Before
<1>5. CASE /\ m = codex.message /\ m # None
           /\ \/ line.type = "delta" /\ line.chunk = said[m].chunks + 1
              \/ line.type = "item" /\ line.chunks = said[m].chunks
  <2>1. m = n BY <1>2, <1>5 DEF Flowing, SaidMore
  <2>2. CASE x < m BY <1>2, <2>2 DEF Before
  <2>3. CASE x = m
    <3>1. l.type = "delta" /\ l.chunk \in 1 .. said[m].chunks
      BY <1>1, <1>2, <1>5, <2>3 DEF LineAgrees, Speaks
    <3>2. PICK c, k : c = l.chunk /\ k = said[m].chunks OBVIOUS
    <3>3. c \in 1 .. k /\ k \in Nat BY <1>3, <2>3, <3>1, <3>2
    <3>4. c < k + 1 BY <3>3
    <3>5. Rank(l) = c /\ Rank(line) = k + 1 BY <1>5, <3>1, <3>2 DEF Rank
    <3> QED BY <1>2, <2>3, <3>4, <3>5 DEF Before
  <2>4. x < m \/ x = m BY <1>3, <2>1
  <2> QED BY <2>2, <2>3, <2>4
<1> QED BY <1>2, <1>4, <1>5

(* A new message, ... *)
LEMMA BeginFlows ==
  ASSUME Shape, Shape', Settling, Settling', Flowing, Begin
  PROVE  Flowing'
<1>1. /\ codex \in Codexes /\ said \in Seq(MessageLog) /\ SaidSound /\ codex.process \in Nat
      /\ codex.turn \in Nat /\ Len(said) \in Nat /\ Len(said) + 1 \in Nat /\ 1 \in Nat
      /\ codex.turn \in 0 .. count.turns /\ count.turns \in Nat
  <2>1. codex \in Codexes /\ said \in Seq(MessageLog) /\ codex.turn \in 0 .. count.turns
    BY DEF Shape
  <2>2. SaidSound /\ count.turns \in Nat BY DEF Settling, Shape, Counts
  <2> QED BY <2>1, <2>2 DEF Codexes
<1>2. PICK plan \in scope.plans :
        /\ said' = Append(said, [turn |-> codex.turn, process |-> codex.process,
                                 plan |-> plan, chunks |-> 1])
        /\ Write([type |-> "delta", plan |-> plan, turn |-> codex.turn,
                  message |-> Len(said) + 1, chunk |-> 1])
  BY DEF Begin
<1>3. plan \in BOOLEAN BY BoundsAssumption DEF Shape
<1>4. PICK line \in Line : line = [type |-> "delta", plan |-> plan, turn |-> codex.turn,
                                   message |-> Len(said) + 1, chunk |-> 1]
  BY <1>1, <1>3, LineTypes
<1>5. /\ codex'.turn = codex.turn /\ codex.message = None /\ codex.turn # None
      /\ codex'.message = Len(said) + 1 /\ count' = count
  BY <1>1 DEF Begin, Free, Running, Codexes
<1>6. PICK row \in MessageLog : /\ row = [turn |-> codex.turn, process |-> codex.process,
                                         plan |-> plan, chunks |-> 1]
                                /\ row.turn = codex.turn /\ row.process = codex.process
                                /\ row.plan = plan /\ row.chunks = 1
  <2>1. [turn |-> codex.turn, process |-> codex.process, plan |-> plan, chunks |-> 1] \in MessageLog
    BY <1>1, <1>3 DEF MessageLog
  <2> QED BY <2>1
<1>7. said' = Append(said, row) BY <1>2, <1>6
<1>8. PICK m : m = Len(said) + 1 OBVIOUS
<1>9. /\ Len(said') = m /\ said'[m] = row
      /\ \A x \in Messages : x \in Messages' /\ said'[x] = said[x]
      /\ Messages' = Messages \cup {m} /\ m \notin Messages
  BY <1>1, <1>7, <1>8, AppendParts DEF Messages
<1>10. MoreSaid BY <1>5, <1>9 DEF MoreSaid
<1>11. SaidMore'
  <2>1. \A x \in Messages' : said'[x].chunks >= 1 BY <1>6, <1>9 DEF Flowing, SaidMore
  <2>2. \A x \in Messages' : said'[x].turn = codex.turn => said'[x].process = codex.process
    BY <1>1, <1>6, <1>9 DEF SaidSound
  <2>3. \A x, n \in Messages' : said'[x].turn = said'[n].turn => said'[x].process = said'[n].process
    BY <1>6, <1>9, <2>2 DEF Flowing, SaidMore
  <2>4. codex'.message = Len(said') BY <1>5, <1>8, <1>9
  <2> QED BY <2>1, <2>3, <2>4 DEF SaidMore
<1>12. /\ line.message = m /\ line.turn = codex.turn /\ line.type = "delta" /\ line.chunk = 1
       /\ line.plan = plan /\ Speaks(line) /\ Write(line)
  BY <1>2, <1>4, <1>8 DEF Speaks
<1>13. LineAgrees(line)' BY <1>6, <1>9, <1>12 DEF LineAgrees
<1>14. \A l \in Lines : Speaks(l) => Before(l, line) BY <1>8, <1>12, AllBefore
<1>15. events' = events /\ session' = session /\ Aside
  BY <1>5 DEF Begin, managerVars, ingestionVars, Aside
<1>16. m \notin Messages =>
         /\ line.type = "delta" /\ line.chunk = 1 /\ said'[m].chunks = 1
         /\ said'[m].turn = codex.turn /\ codex'.message = m /\ Messages' = Messages \cup {m}
  BY <1>5, <1>6, <1>8, <1>9, <1>12
<1>17. \A x \in Messages : x # m => said'[x] = said[x] BY <1>9
<1>18. Heard
  <2>1. codex.message \in {None, m} /\ codex'.message \in {None, m} /\ m = Len(said')
        /\ said'[m].process = codex.process /\ todo' = todo
    BY <1>5, <1>6, <1>8, <1>9, <1>15 DEF Aside
  <2> QED BY <1>5, <1>9, <1>10, <1>11, <1>12, <1>13, <1>14, <1>15, <1>16, <1>17, <2>1, LineHeard
<1> QED BY <1>15, <1>18, AsideKeeps

(* ... a chunk of it, or its end, ... *)
LEMMA SpokenFlows ==
  ASSUME Shape, Shape', Settling, Settling', Flowing, Say \/ EndMessage
  PROVE  Flowing'
<1>1. /\ codex \in Codexes /\ said \in Seq(MessageLog) /\ SaidSound /\ codex.process \in Nat
      /\ codex.turn \in Nat /\ codex.message \in 0 .. Len(said) /\ codex.message # None
      /\ count.turns \in Nat
  BY DEF Shape, Settling, Codexes, Counts, Say, EndMessage
<1>2. PICK m \in Messages : m = codex.message BY <1>1, SaidParts DEF Messages, None
<1>3. /\ m \in Nat /\ said[m] \in MessageLog /\ said[m].plan \in BOOLEAN
      /\ said[m].chunks \in Nat /\ said[m].chunks + 1 \in Nat /\ said[m].chunks >= 1
      /\ said[m].turn = codex.turn /\ said[m].process = codex.process /\ m = Len(said) /\ m # None
  BY <1>1, <1>2, SaidParts DEF SaidSound, Flowing, SaidMore
<1>4. ASSUME Say PROVE Flowing'
  <2>1. /\ said' = [said EXCEPT ![m] = [said[m] EXCEPT !.chunks = said[m].chunks + 1]]
        /\ Write([type |-> "delta", plan |-> said[m].plan, turn |-> codex.turn,
                  message |-> m, chunk |-> said[m].chunks + 1])
    BY <1>2, <1>4 DEF Say
  <2>2. PICK line \in Line : line = [type |-> "delta", plan |-> said[m].plan, turn |-> codex.turn,
                                     message |-> m, chunk |-> said[m].chunks + 1]
    BY <1>1, <1>3, LineTypes
  <2>3. PICK row \in MessageLog : /\ row = [said[m] EXCEPT !.chunks = said[m].chunks + 1]
                                  /\ row.turn = said[m].turn /\ row.process = said[m].process
                                  /\ row.plan = said[m].plan /\ row.chunks = said[m].chunks + 1
    <3>1. \A old \in MessageLog, n \in Nat :
            \E r \in MessageLog : /\ r = [old EXCEPT !.chunks = n] /\ r.turn = old.turn
                                  /\ r.process = old.process /\ r.plan = old.plan
                                  /\ r.chunks = n
      <4> SUFFICES ASSUME NEW old \in MessageLog, NEW n \in Nat
                   PROVE  /\ [old EXCEPT !.chunks = n] \in MessageLog
                          /\ [old EXCEPT !.chunks = n].turn = old.turn
                          /\ [old EXCEPT !.chunks = n].process = old.process
                          /\ [old EXCEPT !.chunks = n].plan = old.plan
                          /\ [old EXCEPT !.chunks = n].chunks = n
        OBVIOUS
      <4> QED BY DEF MessageLog
    <3> QED BY <1>3, <3>1
  <2>4. /\ Messages' = Messages /\ said'[m] = row /\ Len(said') = Len(said)
        /\ \A k \in Messages : k # m => said'[k] = said[k]
    BY <1>1, <2>1, <2>3, ReplaceParts DEF Messages
  <2>5. codex' = codex /\ count' = count /\ session' = session /\ events' = events /\ Aside
    BY <1>4 DEF Say, managerVars, ingestionVars, Aside
  <2>6. \A k \in Messages : said'[k].turn = said[k].turn /\ said'[k].process = said[k].process
    BY <2>3, <2>4
  <2>7. MoreSaid BY <2>4, <2>5, <2>6 DEF MoreSaid
  <2>8. SaidMore'
    <3>1. row.chunks >= 1 BY <1>3, <2>3
    <3>2. \A k \in Messages : said'[k].chunks >= 1 BY <2>4, <3>1 DEF Flowing, SaidMore
    <3> QED BY <1>3, <2>4, <2>5, <2>6, <3>2 DEF Flowing, SaidMore
  <2>9. /\ line.message = m /\ line.turn = codex.turn /\ line.type = "delta"
        /\ line.chunk = said[m].chunks + 1 /\ line.plan = said[m].plan
        /\ Speaks(line) /\ Write(line)
    BY <2>1, <2>2 DEF Speaks
  <2>10. LineAgrees(line)'
    <3>1. \A n \in Nat : n + 1 \in 1 .. n + 1 OBVIOUS
    <3> QED BY <1>3, <2>3, <2>4, <2>9, <3>1 DEF LineAgrees
  <2>11. \A l \in Lines : Speaks(l) => Before(l, line) BY <1>2, <1>3, <2>9, AllBefore
  <2>12. Heard
    <3>1. /\ codex.message \in {None, m} /\ codex'.message \in {None, m} /\ m = Len(said')
          /\ codex'.turn = codex.turn /\ said'[m].process = codex.process /\ todo' = todo
      BY <1>2, <1>3, <2>3, <2>4, <2>5 DEF Aside
    <3>2. /\ codex.message = m /\ said'[m].plan = said[m].plan /\ Messages' = Messages
          /\ line.type = "delta" /\ said'[m].chunks = said[m].chunks + 1
          /\ line.chunk = said'[m].chunks /\ codex'.message = m
      BY <1>2, <2>3, <2>4, <2>5, <2>9
    <3> QED BY <2>4, <2>5, <2>7, <2>8, <2>9, <2>10, <2>11, <3>1, <3>2, LineHeard
  <2> QED BY <2>5, <2>12, AsideKeeps
<1>5. ASSUME EndMessage PROVE Flowing'
  <2>1. Write([type |-> "item", plan |-> said[m].plan, turn |-> codex.turn, message |-> m,
               chunks |-> said[m].chunks])
    BY <1>2, <1>5 DEF EndMessage
  <2>2. PICK line \in Line : line = [type |-> "item", plan |-> said[m].plan, turn |-> codex.turn,
                                     message |-> m, chunks |-> said[m].chunks]
    BY <1>1, <1>3, LineTypes
  <2>3. /\ codex'.turn = codex.turn /\ codex'.message = None /\ count' = count
        /\ said' = said /\ session' = session /\ events' = events /\ Aside
    BY <1>1, <1>5 DEF EndMessage, managerVars, ingestionVars, Codexes, Aside
  <2>4. Messages' = Messages BY <2>3 DEF Messages
  <2>5. MoreSaid BY <2>3, <2>4 DEF MoreSaid
  <2>6. SaidMore' BY <2>3, <2>4 DEF Flowing, SaidMore
  <2>7. /\ line.message = m /\ line.turn = codex.turn /\ line.type = "item"
        /\ line.chunks = said[m].chunks /\ line.plan = said[m].plan
        /\ Speaks(line) /\ Write(line)
    BY <2>1, <2>2 DEF Speaks
  <2>8. LineAgrees(line)' BY <1>3, <2>3, <2>7 DEF LineAgrees
  <2>9. \A l \in Lines : Speaks(l) => Before(l, line) BY <1>2, <1>3, <2>7, AllBefore
  <2>10. Heard
    <3>1. /\ codex.message \in {None, m} /\ codex'.message \in {None, m} /\ m = Len(said')
          /\ said'[m].process = codex.process /\ todo' = todo
      BY <1>2, <1>3, <2>3 DEF Aside
    <3>2. /\ codex.message = m /\ said'[m].plan = said[m].plan /\ Messages' = Messages
          /\ line.type = "item" /\ said'[m].chunks = said[m].chunks
      BY <1>2, <2>3, <2>4, <2>7
    <3> QED BY <2>3, <2>5, <2>6, <2>7, <2>8, <2>9, <3>1, <3>2, LineHeard
  <2> QED BY <2>3, <2>10, AsideKeeps
<1> QED BY <1>4, <1>5

(* ... and so all that codex does, ... *)
LEMMA SayFlows ==
  ASSUME Shape, Shape', Settling, Settling', Flowing,
         StartTurn \/ OtherTurn \/ Begin \/ Say \/ EndMessage \/ EndTurn \/ Ask \/ Die
  PROVE  Flowing'
<1>1. /\ codex \in Codexes /\ count \in Counts /\ count' \in Counts /\ SaidSound
      /\ codex.turn \in Nat /\ codex.turn \in 0 .. count.turns /\ count.turns \in Nat
  BY DEF Shape, Settling, Counts, Codexes
<1>2. ASSUME StartTurn \/ OtherTurn PROVE Flowing'
  <2>1. PICK mode \in scope.modes : events' = Append(events, [type |-> "mode", mode |-> mode])
    BY <1>2 DEF StartTurn, OtherTurn
  <2>2. [type |-> "mode", mode |-> mode] \in Event
    BY BoundsAssumption, EventTypes DEF Modes, Shape
  <2>3. PICK e \in Event : e = [type |-> "mode", mode |-> mode] BY <2>2
  <2>4. e.type = "mode" /\ e.mode = mode /\ ~Speaks(e) /\ e.type # "exited" BY <2>3 DEF Speaks
  <2>5. UNCHANGED << said, pipe, session, scope >> /\ Aside
    <3>1. count'.failures = count.failures
      BY <1>1, <1>2, BumpFailures DEF StartTurn, OtherTurn
    <3> QED BY <1>2, <3>1 DEF StartTurn, OtherTurn, managerVars, codexVars, ingestionVars, Aside
  <2>6. /\ MoreSaid
        /\ \/ codex'.message = codex.message /\ codex'.turn = codex.turn
           \/ codex'.message = None /\ codex'.turn # codex.turn
    <3>1. CASE StartTurn
      <4>1. count'.turns = count.turns + 1 BY <1>1, <3>1, BumpParts DEF StartTurn
      <4>2. codex'.turn = count.turns + 1 /\ codex'.message = codex.message /\ codex.turn = None
        BY <1>1, <3>1 DEF StartTurn, Codexes
      <4>3. codex.message = None
        <5>1. codex.message \in Messages => said[codex.message].turn \in 1 .. count.turns
          BY <1>1 DEF SaidSound
        <5>2. codex.message \in {None} \cup Messages
          <6>1. codex.message \in 0 .. Len(said) BY DEF Shape
          <6>2. Len(said) \in Nat BY SaidParts
          <6> QED BY <6>1, <6>2 DEF Messages, None
        <5> QED BY <1>1, <4>2, <5>1, <5>2 DEF SaidSound, None
      <4>4. MoreSaid BY <1>1, <2>5, <4>1, <4>2, <4>3, SameSaid DEF Processes
      <4>5. codex'.turn # codex.turn BY <1>1, <4>2 DEF None
      <4> QED BY <4>2, <4>3, <4>4, <4>5
    <3>2. CASE OtherTurn
      <4>1. count'.turns = count.turns BY <1>1, <3>2, BumpParts DEF OtherTurn
      <4>2. codex' = codex BY <3>2 DEF OtherTurn, codexVars
      <4> QED BY <1>1, <2>5, <4>1, <4>2, SameSaid DEF Processes
    <3> QED BY <1>2, <3>1, <3>2
  <2>7. events' = Append(events, e) BY <2>1, <2>3
  <2>8. Processes' = Processes /\ \A p \in Processes \ {} : pipe'[p] = pipe[p] BY <2>5 DEF Processes
  <2> QED BY <2>4, <2>5, <2>6, <2>7, <2>8, EmitFlows
<1>3. ASSUME EndTurn PROVE Flowing'
  <2>1. Write([type |-> "turn", turn |-> codex.turn]) BY <1>3 DEF EndTurn
  <2>2. PICK line \in Line : line = [type |-> "turn", turn |-> codex.turn] BY <1>1, LineTypes
  <2>3. /\ codex'.turn = None /\ codex'.message = None /\ codex.turn # None
        /\ said' = said /\ count' = count /\ session' = session /\ events' = events /\ Aside
    BY <1>1, <1>3 DEF EndTurn, Free, Running, managerVars, ingestionVars, Codexes, Aside
  <2>4. Processes' = Processes BY <2>1, <2>2, <2>3, WriteMoves
  <2>5. MoreSaid BY <1>1, <2>3, <2>4, SameSaid
  <2>6. ~Speaks(line) BY <2>2 DEF Speaks
  <2> QED BY <2>1, <2>2, <2>3, <2>5, <2>6, WriteFlows
<1>4. ASSUME Ask PROVE Flowing'
  <2>1. Write([type |-> "request", request |-> count.asks + 1]) BY <1>4 DEF Ask
  <2>2. PICK line \in Line : line = [type |-> "request", request |-> count.asks + 1]
    <3>1. count.asks + 1 \in Nat BY <1>1 DEF Counts
    <3> QED BY <3>1, LineTypes
  <2>3. /\ codex'.turn = codex.turn /\ codex'.process = codex.process
        /\ codex'.message = codex.message /\ count'.turns = count.turns
    BY <1>1, <1>4, BumpParts DEF Ask, Codexes
  <2>4. said' = said /\ session' = session /\ events' = events /\ Aside
    BY <1>1, <1>4, BumpFailures DEF Ask, managerVars, ingestionVars, Aside
  <2>5. Processes' = Processes BY <2>1, <2>2, <2>4, WriteMoves
  <2>6. MoreSaid BY <1>1, <2>3, <2>4, <2>5, SameSaid
  <2>7. ~Speaks(line) BY <2>2 DEF Speaks
  <2> QED BY <2>1, <2>2, <2>3, <2>4, <2>6, <2>7, WriteFlows
<1>5. ASSUME Die PROVE Flowing'
  <2>1. /\ codex'.turn = codex.turn /\ codex'.process = codex.process
        /\ codex'.message = codex.message /\ count'.turns = count.turns
    BY <1>1, <1>5, BumpParts DEF Die, Codexes
  <2>2. said' = said /\ session' = session /\ events' = events /\ pipe' = pipe /\ Aside
    BY <1>1, <1>5, BumpFailures DEF Die, managerVars, ingestionVars, Aside
  <2>3. MoreSaid BY <1>1, <2>1, <2>2, SameSaid DEF Processes
  <2> QED BY <2>1, <2>2, <2>3, RestFlows
<1> QED BY <1>2, <1>3, <1>4, <1>5, BeginFlows, SpokenFlows

(* ... the manager reads, or sees the exit of the process, ... *)
LEMMA ManagerFlows ==
  ASSUME Shape, Shape', Settling, Settling', Flowing, ReadLine \/ Exit
  PROVE  Flowing'
<1>1. SaidSound /\ count.turns \in Nat BY DEF Settling, Shape, Counts
<1>2. ASSUME ReadLine PROVE Flowing'
  <2>1. PICK p \in Processes :
          /\ pipe[p] # << >> /\ pipe' = [pipe EXCEPT ![p] = Tail(@)]
          /\ \/ events' = Append(events, Head(pipe[p]))
             \/ events' = events /\ ~Speaks(Head(pipe[p]))
          /\ UNCHANGED << scope, codex, said, asked, session, ingestionVars, thread, intents, count >>
    BY <1>2 DEF ReadLine, Emit, Mapped, Speaks
  <2>2. PICK here : here = << 0, 0 >> OBVIOUS
  <2>0. Head(pipe[p]) \in Line
    <3>1. pipe[p] \in Seq(Line) BY DEF Shape, Processes
    <3> QED BY <2>1, <3>1
  <2>3. PICK gone : /\ Moved(here, 0, gone) /\ here \notin Waiting' /\ Processes' = Processes
                    /\ \A a \in gone : ~Speaks(At(a))
    <3>1. CASE events' = Append(events, Head(pipe[p]))
      <4>1. Moved(here, 0, {}) /\ here \notin Waiting' /\ Processes' = Processes
        BY <2>1, <2>2, <3>1, ReadMoves
      <4> QED BY <4>1
    <3>2. CASE events' = events /\ ~Speaks(Head(pipe[p]))
      <4>1. /\ Moved(here, 0, {<< p, 1 >>}) /\ here \notin Waiting' /\ Processes' = Processes
            /\ At(<< p, 1 >>) = Head(pipe[p])
        BY <2>1, <2>2, <3>2, DropMoves
      <4> QED BY <3>2, <4>1
    <3> QED BY <2>1, <3>1, <3>2
  <2>4. MoreSaid BY <1>1, <2>1, <2>3, SameSaid
  <2>5. Aside BY <2>1 DEF ingestionVars, Aside
  <2>6. Exits' => Exits
    <3>1. PICK e \in Line : e = Head(pipe[p]) BY <2>0
    <3>2. e.type # "exited" /\ e \in Event BY EventTypes DEF Line
    <3>3. CASE events' = events BY <2>5, <3>3 DEF Aside, Exits
    <3> QED BY <2>1, <2>5, <3>1, <3>2, <3>3, ExitsSame DEF Aside
  <2>7. SpokenStay BY <2>3, AllStay
  <2>8. Heard BY <2>1, <2>3, <2>4, <2>6, <2>7, RestHeard
  <2> QED BY <2>5, <2>8, AsideKeeps
<1>3. ASSUME Exit PROVE Flowing'
  <2>1. PICK e \in Event : e = [type |-> "exited"] /\ e.type = "exited" BY EventTypes
  <2>2. events' = Append(events, e) /\ session' = None /\ UNCHANGED codexVars
        /\ count' = count /\ Aside
    BY <1>3, <2>1 DEF Exit, Emit, ingestionVars, Aside
  <2>3. /\ said' = said /\ codex' = codex /\ pipe' = pipe /\ Processes' = Processes
    BY <2>2 DEF codexVars, Processes
  <2>4. MoreSaid BY <1>1, <2>2, <2>3, SameSaid
  <2>5. (\A p \in Processes \ {} : pipe'[p] = pipe[p]) /\ ~Speaks(e) BY <2>1, <2>3 DEF Speaks
  <2> QED BY <2>1, <2>2, <2>3, <2>4, <2>5, EmitFlows
<1> QED BY <1>2, <1>3

(* ... the user answers or asks for a stop, ... *)
LEMMA UserFlows ==
  ASSUME Shape, Shape', Settling, Settling', Flowing, Respond \/ RequestStop
  PROVE  Flowing'
<1>1. SaidSound /\ count \in Counts /\ count.turns \in Nat BY DEF Settling, Shape, Counts
<1>2. UNCHANGED codexVars /\ session' = session /\ events' = events /\ Aside
  <2>1. count'.failures = count.failures BY <1>1, BumpFailures DEF Respond, RequestStop
  <2> QED BY <2>1 DEF Respond, RequestStop, managerVars, ingestionVars, Aside
<1>3. count'.turns = count.turns BY <1>1, BumpParts DEF Respond, RequestStop
<1>4. said' = said /\ codex' = codex /\ pipe' = pipe /\ Processes' = Processes
  BY <1>2 DEF codexVars, Processes
<1>5. MoreSaid BY <1>1, <1>3, <1>4, SameSaid
<1> QED BY <1>2, <1>4, <1>5, RestFlows

(* ... the reactor answers codex, which may start a new process, ... *)
LEMMA AnswerFlows ==
  ASSUME Shape, Shape', Settling, Settling', Flowing, TakeAnswer
  PROVE  Flowing'
<1>a. /\ intents \in Seq(Intent) /\ thread \in Threads /\ events \in Seq(Event)
      /\ codex \in Codexes /\ pipe \in Seq(Seq(Line)) /\ intents # << >>
      /\ SaidSound /\ count.turns \in Nat /\ Len(pipe) \in Nat
  BY DEF Shape, TakeAnswer, Settling, Counts
<1>1. Head(intents) \in Intent /\ Head(intents).do = "answer"
  BY <1>a, TailParts DEF TakeAnswer
<1> DEFINE r == Head(intents).request
           d == Head(intents).decision
<1>2. r \in Nat /\ d \in Decisions BY <1>1 DEF Intent
<1> HIDE DEF r, d
<1>3. /\ scope' = scope /\ count' = count /\ todo' = todo /\ caches' = caches
      /\ \/ NoSession(r) \/ Recovered(r) \/ Refused(r) \/ CannotWrite(r)
         \/ RespondToRequest(r, d)
  BY DEF TakeAnswer, r, d, ingestionVars
<1>b. thread'.messages = thread.messages /\ thread'.plans = thread.plans => Aside
  BY <1>3 DEF Aside
<1>4. CASE NoSession(r) \/ Refused(r) \/ CannotWrite(r)
           \/ (Failed(r, "cannot recover") /\ UNCHANGED << codexVars, managerVars, events >>)
  <2>1. thread'.messages = thread.messages /\ thread'.plans = thread.plans
    BY <1>2, <1>4, <1>a, FailedType DEF NoSession, Refused, CannotWrite
  <2>2. UNCHANGED << codexVars, session, events >>
    BY <1>4 DEF NoSession, Refused, CannotWrite, managerVars
  <2>3. said' = said /\ codex' = codex /\ pipe' = pipe /\ Processes' = Processes
    BY <2>2 DEF codexVars, Processes
  <2>4. MoreSaid BY <1>a, <1>3, <2>3, SameSaid
  <2> QED BY <1>b, <2>1, <2>2, <2>3, <2>4, RestFlows
<1>5. CASE Resume /\ Failed(r, "unknown approval request")
  <2>1. thread'.messages = thread.messages /\ thread'.plans = thread.plans
    BY <1>2, <1>5, <1>a, FailedType
  <2>2. PICK e \in Event : e = [type |-> "started"] /\ e.type = "started" BY EventTypes
  <2>3. /\ events' = Append(events, e) /\ said' = said /\ pipe' = Append(pipe, << >>)
        /\ session' = Len(pipe) + 1 /\ codex'.turn = None /\ codex'.message = None
    BY <1>5, <2>2 DEF Resume, NewProcess, Emit
  <2>4. /\ Processes \subseteq Processes' /\ session' \notin Processes
        /\ \A p \in Processes \ {} : pipe'[p] = pipe[p]
        /\ \A p \in Processes' : p \in Processes \ {} \/ DOMAIN pipe'[p] = {}
    BY <1>a, <2>3, AppendParts DEF Processes
  <2>5. MoreSaid BY <1>a, <1>3, <2>3, <2>4, SameSaid
  <2>6. \/ codex'.message = codex.message /\ codex'.turn = codex.turn
        \/ codex'.message = None /\ codex'.turn # codex.turn
    <3>1. codex.turn = None => codex.message = None
      <4>1. codex.message \in {None} \cup Messages
        <5>1. codex.message \in 0 .. Len(said) BY DEF Shape
        <5>2. Len(said) \in Nat BY SaidParts
        <5> QED BY <5>1, <5>2 DEF Messages, None
      <4>2. codex.message \in Messages => said[codex.message].turn \in 1 .. count.turns
        BY <1>a DEF SaidSound
      <4> QED BY <1>a, <4>1, <4>2 DEF SaidSound, None
    <3> QED BY <2>3, <3>1
  <2>7. ~Speaks(e) BY <2>2 DEF Speaks
  <2> QED BY <1>b, <2>1, <2>2, <2>3, <2>4, <2>5, <2>6, <2>7, EmitFlows
<1>6. CASE RespondToRequest(r, d)
  <2>1. PICK e \in Event : /\ e = [type |-> "resolved", request |-> r, decision |-> d]
                           /\ e.type = "resolved"
    BY <1>2, EventTypes
  <2>2. /\ events' = Append(events, e) /\ said' = said /\ pipe' = pipe /\ session' = session
        /\ thread' = thread /\ Processes' = Processes
    BY <1>6, <2>1 DEF RespondToRequest, Emit, Processes
  <2>3. /\ codex'.process = codex.process /\ codex'.message = codex.message
        /\ codex'.turn = codex.turn
    BY <1>6, <1>a DEF RespondToRequest, Codexes
  <2>4. MoreSaid BY <1>a, <1>3, <2>2, <2>3, SameSaid
  <2>5. (\A p \in Processes \ {} : pipe'[p] = pipe[p]) /\ ~Speaks(e) BY <2>1, <2>2 DEF Speaks
  <2> QED BY <1>b, <2>1, <2>2, <2>3, <2>4, <2>5, EmitFlows
<1> QED BY <1>3, <1>4, <1>5, <1>6 DEF Recovered

(* ... or stops it. *)
LEMMA StopFlows ==
  ASSUME Shape, Shape', Settling, Settling', Flowing, TakeStop
  PROVE  Flowing'
<1>a. /\ thread \in Threads /\ events \in Seq(Event) /\ codex \in Codexes
      /\ pipe \in Seq(Seq(Line)) /\ SaidSound /\ count.turns \in Nat
  BY DEF Shape, Settling, Counts
<1>1. Aside /\ count' = count
  BY <1>a DEF TakeStop, Threads, ingestionVars, Aside
<1>2. CASE session # None /\ StopSession
  <2>1. PICK e \in Event : e = [type |-> "exited"] /\ e.type = "exited" BY EventTypes
  <2>2. /\ events' = Append(events, e) /\ said' = said /\ session' = None
        /\ codex'.process = codex.process /\ codex'.message = codex.message
        /\ codex'.turn = codex.turn
    BY <1>a, <1>2, <2>1 DEF StopSession, Emit, Codexes
  <2>3. PICK s \in Processes : s = session BY <1>2 DEF Shape, None, Codexes, Processes
  <2>4. /\ Processes' = Processes /\ DOMAIN pipe'[s] = {}
        /\ \A p \in Processes \ {s} : pipe'[p] = pipe[p]
    BY <1>a, <1>2, <2>3, ReplaceParts DEF StopSession, Processes
  <2>5. MoreSaid BY <1>a, <1>1, <2>2, <2>4, SameSaid
  <2>6. /\ {s} \subseteq Processes /\ Processes \subseteq Processes' /\ ~Speaks(e)
        /\ \A p \in Processes' : p \in Processes \ {s} \/ DOMAIN pipe'[p] = {}
    BY <2>1, <2>4 DEF Speaks
  <2> QED BY <1>1, <2>1, <2>2, <2>4, <2>5, <2>6, EmitFlows
<1>3. CASE UNCHANGED << codexVars, managerVars, events >>
  <2>1. /\ said' = said /\ codex' = codex /\ pipe' = pipe /\ Processes' = Processes
        /\ session' = session /\ events' = events
    BY <1>3 DEF codexVars, managerVars, Processes
  <2>2. MoreSaid BY <1>a, <1>1, <2>1, SameSaid
  <2> QED BY <1>1, <2>1, <2>2, RestFlows
<1> QED BY <1>2, <1>3 DEF TakeStop

-----------------------------------------------------------------------------
(* Taking an event. *)
LEMMA BeforeOr ==
  ASSUME NEW l \in Event, NEW n \in Event, Speaks(l), Speaks(n), ~Before(l, n),
         ~(l.message = n.message /\ Rank(l) = Rank(n))
  PROVE  Before(n, l)
<1>1. \A x \in Event : Speaks(x) => x.message \in Nat /\ Rank(x) \in Nat
  BY DEF Event, Line, Speaks, Rank
<1>2. PICK i \in Nat, j \in Nat, r \in Nat, s \in Nat :
        i = l.message /\ j = n.message /\ r = Rank(l) /\ s = Rank(n)
  BY <1>1
<1>3. ~(i < j \/ (i = j /\ r < s)) /\ ~(i = j /\ r = s) BY <1>2 DEF Before
<1>4. j < i \/ (j = i /\ s < r) BY <1>3
<1> QED BY <1>2, <1>4 DEF Before

(* The event leaves what waits, and all else stays. *)
LEMMA TakeLines ==
  ASSUME Shape, Settling, Flowing, Take, NEW e, e = Head(events)
  PROVE  /\ e \in Event /\ e \in Lines
         /\ \A l \in Lines' : l \in Lines
         /\ \A l \in Lines : l \in Lines' \/ l = e
         /\ \A l \in Lines' : Same(l, e) => Before(e, l)
<1>1. events # << >> /\ events' = Tail(events) /\ pipe' = pipe /\ events \in Seq(Event)
  BY DEF Take, codexVars, Shape
<1>2. PICK first : first = << 0, 1 >> OBVIOUS
<1>3. /\ first \in Waiting /\ At(first) = e /\ e \in Event /\ \A b \in Waiting : ~Ahead(b, first)
  BY <1>1, <1>2, TakeMoves
<1>4. /\ \A i \in DOMAIN events' : /\ i + 1 \in DOMAIN events /\ events'[i] = events[i + 1]
                                   /\ i \in Nat /\ i + 1 # 1
      /\ \A i \in DOMAIN events : i \in Nat /\ (i = 1 \/ (i - 1 \in DOMAIN events' /\ i - 1 \in Nat
                                                         /\ events'[i - 1] = events[i]))
  BY <1>1
<1>5. Processes' = Processes /\ 0 \notin Processes BY <1>1 DEF Shape, Processes
<1>6. ASSUME NEW a \in Waiting' PROVE \E b \in Waiting : b # first /\ At(a)' = At(b)
  <2>1. CASE a[1] = 0
    <3>1. a[2] \in DOMAIN events' BY <1>5, <2>1 DEF Waiting
    <3>2. PICK b : b = << 0, a[2] + 1 >> OBVIOUS
    <3>3. b[1] = 0 /\ b[2] = a[2] + 1 /\ b # first BY <1>2, <1>4, <3>1, <3>2
    <3>4. b \in Waiting BY <1>4, <3>1, <3>2 DEF Waiting
    <3>5. At(a)' = At(b) BY <1>4, <2>1, <3>1, <3>3 DEF At
    <3> QED BY <3>3, <3>4, <3>5
  <2>2. CASE a[1] # 0 BY <1>1, <1>2, <1>5, <2>2 DEF Waiting, At
  <2> QED BY <2>1, <2>2
<1>7. ASSUME NEW b \in Waiting, b # first PROVE \E a \in Waiting' : At(a)' = At(b)
  <2>0. b[1] \in Nat /\ b[2] \in Nat /\ b = << b[1], b[2] >> BY DEF Waiting
  <2>1. CASE b[1] = 0
    <3>1. b[2] \in DOMAIN events /\ b[2] # 1 BY <1>2, <1>5, <1>7, <2>0, <2>1 DEF Waiting
    <3>2. PICK a : a = << 0, b[2] - 1 >> OBVIOUS
    <3>3. a[1] = 0 /\ a[2] = b[2] - 1 BY <3>2
    <3>4. a \in Waiting' BY <1>4, <3>1, <3>2 DEF Waiting
    <3>5. At(a)' = At(b) BY <1>4, <2>1, <3>1, <3>3 DEF At
    <3> QED BY <3>4, <3>5
  <2>2. CASE b[1] # 0 BY <1>1, <1>5, <2>2 DEF Waiting, At
  <2> QED BY <2>1, <2>2
<1>8. Lines' = {At(a)' : a \in Waiting'} BY DEF Lines
<1>9. \A l \in Lines' : \E b \in Waiting : b # first /\ l = At(b) BY <1>6, <1>8
<1>10. \A l \in Lines : l \in Lines' \/ l = e BY <1>3, <1>7, <1>8 DEF Lines
<1>11. ASSUME NEW l \in Lines', Same(l, e) PROVE Before(e, l)
  <2>1. PICK b \in Waiting : b # first /\ l = At(b) BY <1>9
  <2>2. l \in Event BY <2>1, WaitingTypes
  <2>3. ~Before(l, e) /\ ~(l.message = e.message /\ Rank(l) = Rank(e))
    BY <1>3, <1>11, <2>1 DEF Flowing, InSequence
  <2> QED BY <1>3, <1>11, <2>2, <2>3, BeforeOr DEF Same
<1> QED BY <1>3, <1>9, <1>10, <1>11 DEF Lines

(* No message of the process the thread has is taken before its exit. *)
LEMMA TakeExits ==
  ASSUME Shape, Settling, Take, NEW e, e = Head(events)
  PROVE  /\ Exits' => Exits
         /\ Speaks(e) /\ Mine(e.message) => ~Exits'
<1>1. /\ todo = << >> /\ events # << >> /\ events' = Tail(events) /\ pipe' = pipe
      /\ todo' = Handler(e) /\ events \in Seq(Event) /\ caches \in Caches
  BY DEF Take, codexVars, Shape
<1>2. PICK first : first = << 0, 1 >> OBVIOUS
<1>3. /\ first \in Waiting /\ At(first) = e /\ e \in Event /\ \A b \in Waiting : ~Ahead(b, first)
  BY <1>1, <1>2, TakeMoves
<1>4. /\ \A i \in DOMAIN events' : i + 1 \in DOMAIN events /\ events'[i] = events[i + 1]
      /\ 1 \in DOMAIN events /\ events[1] = e
  BY <1>1
<1>5. e.type # "exited" => \A i \in DOMAIN todo' : todo'[i].do # "clear"
  BY <1>1, <1>3, HandlerClears
<1>6. Exits' => Exits BY <1>4, <1>5 DEF Exits
<1>7. ASSUME Speaks(e), Mine(e.message), Exits' PROVE FALSE
  <2>1. e.type # "exited" BY <1>7 DEF Speaks
  <2>2. PICK i \in DOMAIN events' : events'[i].type = "exited" BY <1>5, <1>7, <2>1 DEF Exits
  <2>3. i + 1 \in DOMAIN events /\ events[i + 1].type = "exited" BY <1>4, <2>2
  <2>4. Ahead(<< 0, i + 1 >>, first) BY <1>3, <1>7, <2>3 DEF Settling, ExitsFirst
  <2>5. << 0, i + 1 >> \in Waiting BY <2>3, WaitingTypes
  <2> QED BY <1>3, <2>4, <2>5
<1> QED BY <1>6, <1>7

(* What the handler of an event does is about the event. *)
LEMMA HandlerTold ==
  ASSUME Shape, NEW e \in Event
  PROVE  \A i \in DOMAIN Handler(e) : ToldBy(e, Handler(e), i)
<1> SUFFICES ASSUME NEW i \in DOMAIN Handler(e) PROVE ToldBy(e, Handler(e), i) OBVIOUS
<1>0. caches \in Caches BY DEF Shape
<1>1. \A x : DOMAIN << x >> = {1} /\ << x >>[1] = x /\ Len(<< x >>) = 1 OBVIOUS
<1>2. CASE e.type = "mode" BY <1>1, <1>2, HandlerIs DEF ToldBy
<1>3. CASE e.type \in {"started", "request", "resolved"} BY <1>1, <1>3, HandlerIs DEF ToldBy
<1>4. CASE e.type = "exited" BY <1>4, HandlerIs DEF ToldBy
<1>5. CASE e.type = "delta"
  <2>1. PICK op : op = [do |-> IF e.plan THEN "plan" ELSE "delta", turn |-> e.turn,
                        message |-> e.message, chunk |-> e.chunk]
    OBVIOUS
  <2>2. Handler(e) = << op >> BY <1>5, <2>1, HandlerIs
  <2>3. /\ op.do = (IF e.plan THEN "plan" ELSE "delta") /\ op.turn = e.turn
        /\ op.message = e.message /\ op.chunk = e.chunk
    BY <2>1
  <2>4. i = 1 /\ Handler(e)[i] = op /\ Len(Handler(e)) = 1 BY <1>1, <2>2
  <2> QED BY <1>5, <2>3, <2>4, Zenon DEF ToldBy
<1>6. CASE e.type = "item" /\ e.plan BY <1>1, <1>6, HandlerIs DEF ToldBy
<1>7. CASE e.type = "item" /\ ~e.plan
  <2>1. PICK m, t, text : m = e.message /\ t = e.turn /\ text = Whole(e.chunks) OBVIOUS
  <2>2. PICK a, b, c, d : /\ a = [do |-> "remember", turn |-> t, message |-> m]
                          /\ b = [do |-> "flush", message |-> m, fallback |-> text]
                          /\ c = [do |-> "complete", message |-> m]
                          /\ d = [do |-> "forget", turn |-> t, message |-> m]
    OBVIOUS
  <2>3. Handler(e) = << a, b, c, d >> BY <1>7, <2>1, <2>2, HandlerIs
  <2>4. /\ a.do = "remember" /\ a.message = m /\ b.do = "flush" /\ b.message = m
        /\ b.fallback = text /\ c = CompleteOf(m) /\ d.do = "forget" /\ d.message = m
    BY <2>2 DEF CompleteOf
  <2>5. /\ i \in {1, 2, 3, 4} /\ Handler(e)[1] = a /\ Handler(e)[2] = b /\ Handler(e)[3] = c
        /\ Handler(e)[4] = d /\ 3 - 1 = 2 /\ 3 # 1
    BY <2>3
  <2>6. CASE i \in {1, 4} BY <1>7, <2>1, <2>4, <2>5, <2>6 DEF ToldBy
  <2>7. CASE i = 2 BY <1>7, <2>1, <2>4, <2>5, <2>7 DEF ToldBy
  <2>8. CASE i = 3
    <3>1. Handler(e)[i] = CompleteOf(e.message) /\ i # 1
          /\ Handler(e)[i - 1].do = "flush" /\ Handler(e)[i - 1].message = e.message
      BY <2>1, <2>4, <2>5, <2>8
    <3> QED BY <1>7, <3>1, Zenon DEF ToldBy
  <2> QED BY <2>5, <2>6, <2>7, <2>8
<1>8. CASE e.type = "turn"
  <2>1. PICK t, h : t \in Nat /\ t = e.turn /\ h = TurnHandler(t) BY <1>8 DEF Event, Line
  <2>2. Handler(e) = h BY <1>8, <2>1, HandlerIs
  <2>3. PICK n : n = Len(h) OBVIOUS
  <2>4. /\ h \in Seq(Operation) /\ n \in Nat /\ n >= 3
        /\ h[1] = [do |-> "session", status |-> "ready"]
        /\ h[n - 1] = FinishOf(t) /\ h[n] = UpsertOf(t)
        /\ \A k \in 2 .. n - 2 : \E m \in InTurn(t) : Sweeping(h, k, m)
    BY <1>0, <2>1, <2>3, TurnHandlerParts
  <2>5. i = 1 \/ i \in 2 .. n - 2 \/ i = n - 1 \/ i = n BY <2>2, <2>3, <2>4
  <2>6. CASE i = 1 BY <2>2, <2>4, <2>6 DEF ToldBy
  <2>7. CASE i = n - 1 BY <1>8, <2>1, <2>2, <2>4, <2>7, Zenon DEF ToldBy
  <2>8. CASE i = n BY <1>8, <2>1, <2>2, <2>4, <2>8, Zenon DEF ToldBy
  <2>9. CASE i \in 2 .. n - 2
    <3>1. \A k \in 2 .. n - 2 : k > 2 => k # 1 OBVIOUS
    <3>2. \E m \in InTurn(t) : \/ h[i] = FlushOf(m)
                               \/ h[i] = CompleteOf(m) /\ i # 1 /\ h[i - 1] = FlushOf(m)
      BY <2>4, <2>9, <3>1, Zenon DEF Sweeping
    <3> QED BY <1>8, <2>1, <2>2, <3>2, Zenon DEF ToldBy
  <2> QED BY <2>5, <2>6, <2>7, <2>8, <2>9
<1>9. e.type \in {"mode", "delta", "item", "turn", "started", "exited", "request", "resolved"}
  BY DEF Event, Line
<1> QED BY <1>2, <1>3, <1>4, <1>5, <1>6, <1>7, <1>8, <1>9

(* The same by what is to do. *)
LEMMA ToldOf ==
  ASSUME NEW e, NEW h, NEW i, ToldBy(e, h, i), NEW op, op = h[i]
  PROVE  /\ Chunky(op) =>
              /\ e.type = "delta" /\ Len(h) = 1 /\ op.do = (IF e.plan THEN "plan" ELSE "delta")
              /\ op.turn = e.turn /\ op.message = e.message /\ op.chunk = e.chunk
         /\ op.do = "mode" => e.type = "mode" /\ op.mode = e.mode
         /\ op.do = "remember" => e.type = "item" /\ ~e.plan /\ op.message = e.message
         /\ op.do = "flush" =>
              \/ /\ e.type = "item" /\ ~e.plan /\ op.message = e.message
                 /\ op.fallback = Whole(e.chunks)
              \/ e.type = "turn" /\ op.message \in InTurn(e.turn) /\ op.fallback = << >>
         /\ op.do = "complete" =>
              /\ i # 1 /\ h[i - 1].do = "flush" /\ h[i - 1].message = op.message
              /\ \/ e.type = "item" /\ ~e.plan /\ op.message = e.message
                 \/ e.type = "turn" /\ op.message \in InTurn(e.turn)
         /\ op.do = "upsert" =>
              \/ /\ e.type = "item" /\ e.plan /\ Len(h) = 1
                 /\ op = [do |-> "upsert", turn |-> e.turn, fallback |-> WholePlan(e.message, e.chunks)]
              \/ e.type = "turn" /\ op = UpsertOf(e.turn)
<1>1. \A m : /\ FlushOf(m).do = "flush" /\ FlushOf(m).message = m /\ FlushOf(m).fallback = << >>
             /\ CompleteOf(m).do = "complete" /\ CompleteOf(m).message = m
  BY DEF FlushOf, CompleteOf
<1>2. \A t : FinishOf(t).do = "finish" /\ UpsertOf(t).do = "upsert" BY DEF FinishOf, UpsertOf
<1>3. PICK u : u = [do |-> "upsert", turn |-> e.turn, fallback |-> WholePlan(e.message, e.chunks)]
  OBVIOUS
<1>4. u.do = "upsert" BY <1>3
<1>5. CASE op.do \in {"session", "clear", "activity"} BY <1>5 DEF Chunky
<1>6. CASE e.type = "mode" /\ op.do = "mode" /\ op.mode = e.mode BY <1>6 DEF Chunky
<1>7. CASE /\ e.type = "delta" /\ Len(h) = 1 /\ op.do = (IF e.plan THEN "plan" ELSE "delta")
           /\ op.turn = e.turn /\ op.message = e.message /\ op.chunk = e.chunk
  BY <1>7 DEF Chunky
<1>8. CASE e.type = "item" /\ e.plan /\ Len(h) = 1 /\ op = u
  BY <1>3, <1>4, <1>8 DEF Chunky
<1>9. CASE e.type = "item" /\ ~e.plan /\ op.do \in {"remember", "forget"} /\ op.message = e.message
  BY <1>9 DEF Chunky
<1>10. CASE e.type = "item" /\ ~e.plan /\ op.do = "flush" /\ op.message = e.message
            /\ op.fallback = Whole(e.chunks)
  BY <1>10 DEF Chunky
<1>11. CASE e.type = "item" /\ ~e.plan /\ op = CompleteOf(e.message) /\ i # 1
            /\ h[i - 1].do = "flush" /\ h[i - 1].message = e.message
  BY <1>1, <1>11 DEF Chunky
<1>12. ASSUME e.type = "turn", NEW m \in InTurn(e.turn), op = FlushOf(m)
       PROVE  op.do = "flush" /\ op.message \in InTurn(e.turn) /\ op.fallback = << >>
  BY <1>1, <1>12
<1>13. ASSUME e.type = "turn", NEW m \in InTurn(e.turn), op = CompleteOf(m), i # 1, h[i - 1] = FlushOf(m)
       PROVE  /\ op.do = "complete" /\ op.message \in InTurn(e.turn)
              /\ i # 1 /\ h[i - 1].do = "flush" /\ h[i - 1].message = op.message
  BY <1>1, <1>13
<1>14. CASE e.type = "turn" /\ (op = FinishOf(e.turn) \/ op = UpsertOf(e.turn))
  BY <1>2, <1>14 DEF Chunky
<1>15. CASE \E m \in InTurn(e.turn) : e.type = "turn" /\ op = FlushOf(m)
  BY <1>12, <1>15 DEF Chunky
<1>16. CASE \E m \in InTurn(e.turn) : e.type = "turn" /\ op = CompleteOf(m) /\ i # 1 /\ h[i - 1] = FlushOf(m)
  BY <1>13, <1>16 DEF Chunky
<1> QED BY <1>3, <1>5, <1>6, <1>7, <1>8, <1>9, <1>10, <1>11, <1>14, <1>15, <1>16, Zenon DEF ToldBy

(* What is taken is in hand, and no longer waits. *)
LEMMA TakeComing ==
  ASSUME Shape, Shape', Settling, Flowing, Take, NEW e, e = Head(events)
  PROVE  /\ \A m : Unspoken(m) => Unspoken(m)'
         /\ \A m : Silent(m) => Silent(m)'
         /\ \A m : Left(m)' \subseteq Left(m) /\ Coming(m)' = Coming(m)
         /\ \A m : ~(e.type = "delta" /\ e.message = m) => Left(m)' = Left(m)
         /\ e.type = "delta" => \A c \in Left(e.message)' : e.chunk < c
         /\ e.type = "item" => Silent(e.message)'
         /\ Speaks(e) => /\ e.message \in Messages /\ LineAgrees(e)
                         /\ said[e.message].turn = e.turn
                         /\ \A n \in Messages : n < e.message /\ said[n].process = said[e.message].process
                              => Unspoken(n)'
<1>1. /\ todo = << >> /\ todo' = Handler(e) /\ codex' = codex /\ said' = said /\ Messages' = Messages
  BY DEF Take, codexVars, Messages
<1>2. /\ e \in Event /\ e \in Lines
      /\ \A l \in Lines' : l \in Lines
      /\ \A l \in Lines : l \in Lines' \/ l = e
      /\ \A l \in Lines' : Same(l, e) => Before(e, l)
  BY TakeLines
<1>3. /\ \A m, c : c \in Left(m) <=> \E l \in Lines : l.type = "delta" /\ l.message = m /\ l.chunk = c
      /\ \A m, c : c \in Left(m)' <=> \E l \in Lines' : l.type = "delta" /\ l.message = m /\ l.chunk = c
  BY DEF Left
<1>4. \A m : Unspoken(m) => Unspoken(m)' BY <1>2 DEF Unspoken, Speaks
<1>5. \A m : Silent(m) => Silent(m)' BY <1>1, <1>4 DEF Silent
<1>6. \A m : Left(m)' \subseteq Left(m) BY <1>2, <1>3
<1>7. ASSUME NEW m, ~(e.type = "delta" /\ e.message = m) PROVE Left(m)' = Left(m)
  BY <1>2, <1>3, <1>7 DEF Left
<1>8. ASSUME Speaks(e)
      PROVE  e.message \in Messages /\ said[e.message].turn = e.turn /\ LineAgrees(e)
  BY <1>2, <1>8, LinesSound DEF LineSound, Flowing, LinesAgree
<1>9. ASSUME Speaks(e), NEW n \in Messages, n < e.message,
             said[n].process = said[e.message].process
      PROVE  Unspoken(n)'
  <2>1. PICK m \in Nat : m = e.message /\ n \in Nat BY <1>8, <1>9, SaidParts
  <2>2. SUFFICES ASSUME NEW l \in Lines', Speaks(l), l.message = n PROVE FALSE
    BY DEF Unspoken, Speaks
  <2>3. Before(e, l) BY <1>2, <1>9, <2>1, <2>2 DEF Same
  <2>4. m < n \/ m = n BY <2>1, <2>2, <2>3 DEF Before
  <2> QED BY <1>9, <2>1, <2>4
<1>10. ASSUME NEW l \in Lines', Speaks(e), Speaks(l), l.message = e.message
       PROVE  Rank(e) < Rank(l)
  BY <1>2, <1>8, <1>10, SaidParts DEF Same, Before
<1>11. ASSUME e.type = "delta" PROVE \A c \in Left(e.message)' : e.chunk < c
  BY <1>3, <1>10, <1>11 DEF Left, Speaks, Rank
<1>12. ASSUME e.type = "item" PROVE Silent(e.message)'
  <2>0. PICK m : m = e.message OBVIOUS
  <2>1. /\ m \in Messages /\ e.chunks = said[m].chunks /\ codex.message # m /\ Speaks(e)
    BY <1>8, <1>12, <2>0 DEF Speaks, LineAgrees
  <2>2. PICK k \in Nat : k = said[m].chunks BY <2>1, SaidParts
  <2>3. ASSUME NEW l \in Lines', Speaks(l), l.message = m PROVE FALSE
    <3>1. LineAgrees(l) BY <1>2 DEF Flowing, LinesAgree
    <3>2. Rank(e) < Rank(l) BY <1>10, <2>0, <2>1, <2>3
    <3>3. Rank(e) = k + 1 BY <1>12, <2>1, <2>2 DEF Rank
    <3>4. CASE l.type = "delta"
      <4>1. l.chunk \in 1 .. k /\ Rank(l) = l.chunk BY <2>2, <2>3, <3>1, <3>4 DEF LineAgrees, Rank
      <4> QED BY <3>2, <3>3, <4>1
    <3>5. CASE l.type = "item"
      <4>1. Rank(l) = k + 1 BY <2>2, <2>3, <3>1, <3>5 DEF LineAgrees, Rank
      <4> QED BY <3>2, <3>3, <4>1
    <3> QED BY <2>3, <3>4, <3>5 DEF Speaks
  <2>4. Silent(m)' BY <1>1, <2>1, <2>3 DEF Silent, Unspoken, Speaks
  <2> QED BY <2>0, <2>4
<1>13. \A m : InHand(m) = {} BY <1>1 DEF InHand
<1>14. \A i \in DOMAIN Handler(e) : ToldBy(e, Handler(e), i) BY <1>2, HandlerTold
<1>15. ASSUME NEW i \in DOMAIN todo', Chunky(todo'[i])
       PROVE  e.type = "delta" /\ todo'[i].message = e.message /\ todo'[i].chunk = e.chunk
  BY <1>1, <1>14, <1>15, ToldOf
<1>16. ASSUME NEW m PROVE Coming(m)' = Coming(m)
  <2>1. InHand(m)' = {todo'[i].chunk : i \in {j \in DOMAIN todo' : Chunky(todo'[j]) /\ todo'[j].message = m}}
    BY DEF InHand, Chunky
  <2>2. CASE e.type = "delta" /\ e.message = m
    <3>1. PICK o : o = [do |-> IF e.plan THEN "plan" ELSE "delta", turn |-> e.turn,
                        message |-> e.message, chunk |-> e.chunk]
      OBVIOUS
    <3>2. o.do \in {"plan", "delta"} /\ o.message = m /\ o.chunk = e.chunk BY <2>2, <3>1
    <3>3. todo' = << o >> BY <1>1, <1>2, <2>2, <3>1, HandlerIs
    <3>4. DOMAIN << o >> = {1} /\ << o >>[1] = o OBVIOUS
    <3>5. InHand(m)' = {e.chunk} BY <2>1, <3>2, <3>3, <3>4 DEF Chunky
    <3>6. \A c : c \in Left(m) <=> c \in Left(m)' \/ c = e.chunk BY <1>2, <1>3, <2>2
    <3>7. \A c : c \in Coming(m) <=> c \in Coming(m)' BY <1>13, <3>5, <3>6 DEF Coming
    <3> QED BY <3>7 DEF Coming
  <2>3. CASE ~(e.type = "delta" /\ e.message = m)
    <3>1. InHand(m)' = {} BY <1>15, <2>1, <2>3
    <3> QED BY <1>7, <1>13, <2>3, <3>1 DEF Coming
  <2> QED BY <2>2, <2>3
<1> QED BY <1>4, <1>5, <1>6, <1>7, <1>8, <1>9, <1>11, <1>12, <1>16

(* A turn whose end was taken is over, and its messages have ended. *)
LEMMA OverSilent ==
  ASSUME SaidSound, WaitingSound, NEW t, Over(t), NEW m \in Messages, said[m].turn = t
  PROVE  Silent(m)
<1>1. ASSUME NEW l \in Lines, Speaks(l) PROVE l.message # m
  BY <1>1 DEF Lines, Over, WaitingSound, LineSound
<1>2. codex.message # m BY DEF Messages, None, Over, SaidSound
<1> QED BY <1>1, <1>2 DEF Silent, Unspoken

LEMMA TakeOver ==
  ASSUME Shape, Settling, Take, NEW e, e = Head(events), e.type = "turn"
  PROVE  Over(e.turn)'
<1>1. /\ events # << >> /\ events' = Tail(events)
      /\ UNCHANGED << said, codex, pipe, count >>
  BY DEF Take, codexVars, managerVars
<1>2. WaitingSound /\ InOrder BY DEF Settling
<1>3. PICK here, first : here = << 0, 0 >> /\ first = << 0, 1 >> OBVIOUS
<1>4. /\ Moved(here, 0, {first}) /\ here \notin Waiting'
      /\ first \in Waiting /\ At(first) = e /\ e \in Event
      /\ \A b \in Waiting : ~Ahead(b, first)
  BY <1>1, <1>3, TakeMoves
<1>5. PICK t \in Nat : t = e.turn BY <1>4 DEF Event, Line
<1>6. t \in 1 .. count.turns /\ t # codex.turn BY <1>2, <1>4, <1>5 DEF WaitingSound, LineSound
<1>7. PICK old \in [Waiting' \ {here} -> Waiting] :
        \A a \in Waiting' \ {here} : At(a)' = At(old[a])
  BY <1>4 DEF Moved
<1>8. ASSUME NEW a \in Waiting', Speaks(At(a)') PROVE At(a)'.turn # t
  <2>1. old[a] \in Waiting /\ At(a)' = At(old[a]) BY <1>4, <1>7, <1>8
  <2>2. ~Ahead(old[a], first) BY <1>4, <2>1
  <2> QED BY <1>2, <1>4, <1>5, <1>8, <2>1, <2>2 DEF InOrder
<1>9. Over(t)' BY <1>1, <1>6, <1>8 DEF Over, Speaks
<1> QED BY <1>5, <1>9 DEF Over, Speaks

(* What the end of a turn sweeps has ended. *)
LEMMA TakeSwept ==
  ASSUME Shape, Settling, Settling', Flowing, Take, NEW e, e = Head(events), e.type = "turn",
         NEW m \in InTurn(e.turn)
  PROVE  m \in Messages /\ ~said[m].plan /\ Silent(m)'
<1>1. UNCHANGED << said, caches >> BY DEF Take, codexVars
<1>2. PICK t : t = e.turn OBVIOUS
<1>3. t \in DOMAIN caches.ids /\ m \in caches.ids[t] BY <1>2 DEF InTurn
<1>4. m \in Messages /\ said[m].turn = t /\ ~said[m].plan
  BY <1>3 DEF Settling, IdsSaid, Flowing, Written
<1>5. Over(t)' BY <1>2, TakeOver DEF Over, Speaks
<1>6. SaidSound' /\ WaitingSound' BY DEF Settling
<1>7. \A l \in Lines' : Speaks(l) => l.message # m
  <2> SUFFICES ASSUME NEW l \in Lines', Speaks(l) PROVE l.message # m OBVIOUS
  <2>1. PICK a \in Waiting' : l = At(a)' BY DEF Lines
  <2>2. l.turn # t BY <1>5, <2>1 DEF Over, Speaks
  <2>3. said[l.message].turn = l.turn BY <1>1, <1>6, <2>1 DEF WaitingSound, LineSound, Speaks
  <2> QED BY <1>4, <2>2, <2>3
<1>8. codex'.message # m BY <1>1, <1>4, <1>5, <1>6 DEF Messages, None, Over, SaidSound
<1> QED BY <1>4, <1>7, <1>8 DEF Silent, Unspoken, Speaks

(* What an event is to do agrees with what was said. *)
LEMMA TakeTodo ==
  ASSUME Shape, Shape', Settling, Settling', Flowing, Take, NEW e, e = Head(events)
  PROVE  TodoAgrees'
<1>1. /\ todo' = Handler(e) /\ said' = said /\ caches' = caches /\ Messages' = Messages
      /\ todo' \in Seq(Operation)
  BY DEF Take, codexVars, Messages, Shape
<1>2. e \in Event BY TakeLines
<1>3. /\ e.type = "delta" => \A c \in Left(e.message)' : e.chunk < c
      /\ e.type = "item" => Silent(e.message)'
      /\ Speaks(e) => e.message \in Messages /\ LineAgrees(e) /\ said[e.message].turn = e.turn
  BY TakeComing
<1>4. e.type = "turn" => \A m \in InTurn(e.turn) : m \in Messages /\ ~said[m].plan /\ Silent(m)'
  BY TakeSwept
<1>5. e.type = "turn" => Over(e.turn)' BY TakeOver
<1>6. \A i \in DOMAIN Handler(e) : ToldBy(e, Handler(e), i) BY <1>2, HandlerTold
<1>7. PICK h : h = Handler(e) OBVIOUS
<1>8. SUFFICES ASSUME NEW i \in DOMAIN todo' PROVE OperationAgrees(i)' BY DEF TodoAgrees
<1>9. PICK op : op = h[i] /\ op = todo'[i] BY <1>1, <1>7
<1>10. /\ Chunky(op) =>
            /\ e.type = "delta" /\ Len(h) = 1 /\ op.do = (IF e.plan THEN "plan" ELSE "delta")
            /\ op.turn = e.turn /\ op.message = e.message /\ op.chunk = e.chunk
       /\ op.do = "mode" => e.type = "mode" /\ op.mode = e.mode
       /\ op.do = "remember" => e.type = "item" /\ ~e.plan /\ op.message = e.message
       /\ op.do = "flush" =>
            \/ /\ e.type = "item" /\ ~e.plan /\ op.message = e.message
               /\ op.fallback = Whole(e.chunks)
            \/ e.type = "turn" /\ op.message \in InTurn(e.turn) /\ op.fallback = << >>
       /\ op.do = "complete" =>
            /\ i # 1 /\ h[i - 1].do = "flush" /\ h[i - 1].message = op.message
            /\ \/ e.type = "item" /\ ~e.plan /\ op.message = e.message
               \/ e.type = "turn" /\ op.message \in InTurn(e.turn)
       /\ op.do = "upsert" =>
            \/ /\ e.type = "item" /\ e.plan /\ Len(h) = 1
               /\ op = [do |-> "upsert", turn |-> e.turn, fallback |-> WholePlan(e.message, e.chunks)]
            \/ e.type = "turn" /\ op = UpsertOf(e.turn)
  BY <1>1, <1>6, <1>7, <1>9, ToldOf
<1>11. Chunky(op) <=> op.do \in {"delta", "plan"} BY DEF Chunky
<1>12. \A m \in Messages : said[m].plan \in BOOLEAN BY SaidParts
<1>13. Chunky(op) =>
         /\ op.message \in Messages /\ (said[op.message].plan <=> op.do = "plan")
         /\ Len(todo') = 1 /\ said[op.message].turn = op.turn
         /\ op.chunk \in 1 .. said[op.message].chunks
         /\ \A c \in Left(op.message)' : op.chunk < c
  <2> SUFFICES ASSUME Chunky(op) PROVE <1>13!2 OBVIOUS
  <2>1. PICK m : m = e.message /\ m = op.message BY <1>10
  <2>2. /\ m \in Messages /\ e.plan = said[m].plan /\ e.chunk \in 1 .. said[m].chunks
        /\ said[m].turn = e.turn
    BY <1>3, <1>10, <2>1 DEF LineAgrees, Speaks
  <2>3. \A c \in Left(m)' : e.chunk < c BY <1>3, <1>10, <2>1 DEF Left
  <2>4. \A c \in Left(op.message)' : op.chunk < c BY <1>10, <2>1, <2>3 DEF Left
  <2>5. said[m].plan <=> op.do = "plan" BY <1>10, <1>12, <2>2
  <2> QED BY <1>1, <1>7, <1>10, <2>1, <2>2, <2>4, <2>5
<1>14. op.do \in {"flush", "complete"} =>
         op.message \in Messages /\ ~said[op.message].plan /\ Silent(op.message)'
  <2> SUFFICES ASSUME op.do \in {"flush", "complete"} PROVE <1>14!2 OBVIOUS
  <2>1. PICK m : m = op.message OBVIOUS
  <2>2. CASE e.type = "item" /\ ~e.plan /\ op.message = e.message
    BY <1>3, <2>1, <2>2 DEF LineAgrees, Speaks, Silent, Unspoken
  <2>3. CASE e.type = "turn" /\ op.message \in InTurn(e.turn)
    BY <1>4, <2>1, <2>3 DEF Silent, Unspoken, Speaks
  <2> QED BY <1>10, <2>2, <2>3
<1>15. op.do = "remember" => op.message \in Messages /\ ~said[op.message].plan
  BY <1>3, <1>10 DEF LineAgrees, Speaks
<1>16. op.do = "flush" => op.fallback \in {<< >>, Whole(said[op.message].chunks)}
  BY <1>3, <1>10 DEF LineAgrees, Speaks
<1>17. op.do = "complete" => i # 1 /\ todo'[i - 1].do = "flush" /\ todo'[i - 1].message = op.message
  BY <1>1, <1>7, <1>10
<1>18. op.do = "upsert" =>
         \/ op.fallback = << >> /\ Over(op.turn)'
         \/ Len(todo') = 1 /\ \E m \in Messages : op = PlanOf(m) /\ said[m].plan /\ Silent(m)'
  <2> SUFFICES ASSUME op.do = "upsert" PROVE <1>18!2 OBVIOUS
  <2>1. CASE e.type = "item" /\ e.plan /\ Len(h) = 1
             /\ op = [do |-> "upsert", turn |-> e.turn, fallback |-> WholePlan(e.message, e.chunks)]
    <3>1. PICK m : m = e.message OBVIOUS
    <3>2. /\ m \in Messages /\ e.plan = said[m].plan /\ said[m].turn = e.turn
          /\ e.chunks = said[m].chunks
      BY <1>3, <2>1, <3>1 DEF LineAgrees, Speaks
    <3>3. Silent(m)' BY <1>3, <2>1, <3>1 DEF Silent, Unspoken, Speaks
    <3>4. op = PlanOf(m) BY <2>1, <3>1, <3>2 DEF PlanOf
    <3> QED BY <1>1, <1>7, <2>1, <3>2, <3>3, <3>4
  <2>2. CASE e.type = "turn" /\ op = UpsertOf(e.turn) BY <1>5, <2>2 DEF UpsertOf, Over, Speaks
  <2> QED BY <1>10, <2>1, <2>2
<1>19. \A m : PlanOf(m)' = PlanOf(m) BY <1>1 DEF PlanOf
<1> QED BY <1>1, <1>9, <1>11, <1>13, <1>14, <1>15, <1>16, <1>17, <1>18, <1>19
        DEF OperationAgrees, Chunky

(* A plan is told by its pieces. *)
LEMMA WholePlans ==
  ASSUME NEW m, NEW n \in Nat, n >= 1
  PROVE  WholePlan(m, n) # << >> /\ WholePlan(m, n)[1] = << m, 1 >>
BY DEF WholePlan

(* Which plan a completion proposes is told by what it does. *)
LEMMA PlanOfOne ==
  ASSUME Shape, SaidMore, NEW m \in Messages, NEW n \in Messages, NEW k \in Nat,
         PlanOf(m) = [do |-> "upsert", turn |-> k, fallback |-> WholePlan(n, said[n].chunks)]
  PROVE  m = n
<1>1. /\ said[m].chunks \in Nat /\ said[m].chunks >= 1
      /\ said[n].chunks \in Nat /\ said[n].chunks >= 1
  BY SaidParts DEF SaidMore
<1>2. PICK a, b : a = said[m].chunks /\ b = said[n].chunks OBVIOUS
<1>3. WholePlan(m, a)[1] = << m, 1 >> /\ WholePlan(n, b)[1] = << n, 1 >> BY <1>1, <1>2, WholePlans
<1>4. WholePlan(m, a) = WholePlan(n, b) BY <1>2 DEF PlanOf
<1> QED BY <1>3, <1>4

(* Nothing else proposes a plan with pieces. *)
LEMMA NoPlan ==
  ASSUME Shape, SaidMore, NEW m \in Messages, NEW t
  PROVE  PlanOf(m) # UpsertOf(t)
<1>1. said[m].chunks \in Nat /\ said[m].chunks >= 1 BY SaidParts DEF SaidMore
<1>2. PICK a : a = said[m].chunks OBVIOUS
<1>3. WholePlan(m, a) # << >> BY <1>1, <1>2, WholePlans
<1>4. PlanOf(m).fallback = WholePlan(m, a) /\ UpsertOf(t).fallback = << >>
  BY <1>2 DEF PlanOf, UpsertOf
<1> QED BY <1>3, <1>4

(* What was kept of the text stays kept, ... *)
LEMMA TakeText ==
  ASSUME Shape, Shape', Settling, Settling', Flowing, Take, count.failures = 0
  PROVE  TextKept'
<1>1. PICK e : e = Head(events) OBVIOUS
<1>2. /\ todo' = Handler(e) /\ Messages' = Messages
      /\ UNCHANGED << said, codex, session, caches, thread, scope, count >>
  BY <1>1 DEF Take, codexVars, managerVars, Messages
<1>3. e \in Event /\ e \in Lines BY <1>1, TakeLines
<1>4. /\ \A m : Silent(m) => Silent(m)'
      /\ \A m : Coming(m)' = Coming(m)
  BY <1>1, TakeComing
<1>5. \A i \in DOMAIN Handler(e) : ToldBy(e, Handler(e), i) BY <1>3, HandlerTold
<1>6. PICK h : h = Handler(e) OBVIOUS
<1>7. \A m : Message(m)' = Message(m) /\ Buffered(caches', m) = Buffered(caches, m)
             /\ (Mine(m)' <=> Mine(m))
  BY <1>2 DEF Message, Buffered, Mine
<1>8. ASSUME NEW m, Unspoken(m), NEW i \in DOMAIN todo', todo'[i].do = "flush", todo'[i].message = m
      PROVE  todo'[i].fallback = << >>
  <2>1. PICK op : op = h[i] /\ todo'[i] = op BY <1>2, <1>6
  <2>2. ToldBy(e, h, i) BY <1>2, <1>5, <1>6
  <2>3. \/ e.type = "item" /\ op.message = e.message
        \/ e.type = "turn" /\ op.fallback = << >>
    BY <1>8, <2>1, <2>2, ToldOf
  <2>4. e.type = "item" => e.message # m BY <1>3, <1>8 DEF Unspoken, Speaks
  <2> QED BY <1>8, <2>1, <2>3, <2>4
<1>9. ASSUME NEW m \in Messages
      PROVE  /\ Kept(m) => Kept(m)'
             /\ Fresh(m) => Fresh(m)'
             /\ Settled(m) => Settled(m)'
  <2>1. Kept(m) => Kept(m)' BY <1>2, <1>4, <1>7 DEF Kept
  <2>2. Fresh(m) => Fresh(m)' BY <1>2, <1>4, <1>7 DEF Fresh
  <2>3. ASSUME Settled(m) PROVE Settled(m)'
    <3>1. /\ Message(m).text = Whole(said[m].chunks) /\ m \notin DOMAIN caches.buffer
          /\ Silent(m) /\ Coming(m) = {}
      BY <2>3 DEF Settled
    <3>2. \A i \in DOMAIN todo' : todo'[i].do = "flush" /\ todo'[i].message = m
                                    => todo'[i].fallback = << >>
      BY <1>8, <3>1 DEF Silent
    <3> QED BY <1>2, <1>4, <1>7, <3>1, <3>2 DEF Settled
  <2> QED BY <2>1, <2>2, <2>3
<1> QED BY <1>2, <1>7, <1>9 DEF Flowing, TextKept

(* ... and so does what was kept of the plans: a plan whose completion was *)
(* taken is about to be proposed.                                          *)
LEMMA TakePlans ==
  ASSUME Shape, Shape', Settling, Settling', Flowing, Take, count.failures = 0
  PROVE  PlansKept'
<1>1. PICK e : e = Head(events) OBVIOUS
<1>2. /\ todo' = Handler(e) /\ Messages' = Messages /\ todo = << >>
      /\ UNCHANGED << said, codex, session, caches, thread, scope, count >>
  BY <1>1 DEF Take, codexVars, managerVars, Messages
<1>3. /\ e \in Event /\ e \in Lines /\ \A l \in Lines : l \in Lines' \/ l = e
  BY <1>1, TakeLines
<1>4. /\ \A m : Silent(m) => Silent(m)'
      /\ \A m : Coming(m)' = Coming(m)
      /\ Speaks(e) => /\ e.message \in Messages /\ LineAgrees(e)
                      /\ said[e.message].turn = e.turn
  BY <1>1, TakeComing
<1>5. \A i \in DOMAIN Handler(e) : ToldBy(e, Handler(e), i) BY <1>3, HandlerTold
<1>6. PICK h : h = Handler(e) OBVIOUS
<1>7. /\ \A t : Pieces(t)' = Pieces(t)
      /\ \A m : (Mine(m)' <=> Mine(m)) /\ PlanOf(m)' = PlanOf(m) /\ (LastPlan(m)' <=> LastPlan(m))
  BY <1>2 DEF Pieces, Mine, PlanOf, LastPlan
<1>8. ASSUME NEW m \in Messages, Closing(m), said[m].plan PROVE Closing(m)'
  <2>1. Ending(m) BY <1>2, <1>8 DEF Closing
  <2>2. CASE e.type = "item" /\ e.message = m
    <3>1. e.plan = said[m].plan /\ e.chunks = said[m].chunks /\ said[m].turn = e.turn
      BY <1>4, <2>2 DEF LineAgrees, Speaks
    <3>2. Handler(e) = << PlanOf(m) >> BY <1>3, <1>8, <2>2, <3>1, HandlerIs DEF PlanOf
    <3>3. PICK op : op = PlanOf(m) OBVIOUS
    <3>4. DOMAIN << op >> = {1} /\ << op >>[1] = op OBVIOUS
    <3>5. 1 \in DOMAIN todo' /\ todo'[1] = PlanOf(m)' BY <1>2, <1>7, <3>2, <3>3, <3>4
    <3> QED BY <3>5 DEF Closing
  <2>3. CASE ~(e.type = "item" /\ e.message = m) BY <1>2, <1>3, <2>1, <2>3 DEF Ending, Closing
  <2> QED BY <2>2, <2>3
<1>9. ASSUME NEW m \in Messages, Silent(m), NEW i \in DOMAIN todo' PROVE todo'[i] # PlanOf(m)
  <2> SUFFICES ASSUME todo'[i] = PlanOf(m) PROVE FALSE OBVIOUS
  <2>1. PICK op : op = h[i] /\ op = PlanOf(m) BY <1>2, <1>6
  <2>2. ToldBy(e, h, i) BY <1>2, <1>5, <1>6
  <2>3. op.do = "upsert" BY <2>1 DEF PlanOf
  <2>4. \/ /\ e.type = "item"
           /\ op = [do |-> "upsert", turn |-> e.turn, fallback |-> WholePlan(e.message, e.chunks)]
        \/ op = UpsertOf(e.turn)
    <3>1. op = h[i] BY <2>1
    <3>2. \/ /\ e.type = "item" /\ e.plan /\ Len(h) = 1
             /\ op = [do |-> "upsert", turn |-> e.turn, fallback |-> WholePlan(e.message, e.chunks)]
          \/ e.type = "turn" /\ op = UpsertOf(e.turn)
      BY <2>2, <2>3, <3>1, ToldOf
    <3> QED BY <3>2, Zenon
  <2>5. op # UpsertOf(e.turn) BY <2>1, NoPlan DEF Flowing
  <2>6. e.type = "item" BY <2>4, <2>5
  <2>7. PICK n \in Messages : n = e.message /\ e.chunks = said[n].chunks /\ said[n].turn = e.turn
    BY <1>4, <2>6 DEF LineAgrees, Speaks
  <2>8. e.turn \in Nat BY <2>7, SaidParts
  <2>9. m = n
    <3>1. PlanOf(m) = [do |-> "upsert", turn |-> e.turn, fallback |-> WholePlan(n, said[n].chunks)]
      BY <2>1, <2>4, <2>5, <2>7
    <3> QED BY <2>8, <3>1, PlanOfOne DEF Flowing
  <2> QED BY <1>3, <1>9, <2>6, <2>7, <2>9 DEF Silent, Unspoken, Speaks
<1>10. ASSUME NEW m \in Messages, said[m].plan, Flows(m) PROVE Flows(m)'
  BY <1>2, <1>4, <1>8, <1>10 DEF Flows, Pieces
<1>11. ASSUME NEW m \in Messages, Proposed(m) PROVE Proposed(m)'
  <2>1. /\ Silent(m) /\ Coming(m) = {}
        /\ LastPlan(m) => /\ Pieces(said[m].turn) = << >>
                          /\ said[m].turn \in DOMAIN thread.plans
                          /\ thread.plans[said[m].turn] = WholePlan(m, said[m].chunks)
    BY <1>11 DEF Proposed
  <2>2. \A i \in DOMAIN todo' : todo'[i] # PlanOf(m)' BY <1>7, <1>9, <2>1
  <2>3. Pieces(said[m].turn)' = Pieces(said[m].turn) BY <1>2 DEF Pieces
  <2> QED BY <1>2, <1>4, <1>7, <2>1, <2>2, <2>3 DEF Proposed
<1>12. ASSUME NEW m \in Messages, Mine(m), said[m].plan
       PROVE  \/ Coming(m)' = 1 .. said[m].chunks /\ Closing(m)'
              \/ Flows(m)' \/ Proposed(m)'
  BY <1>4, <1>8, <1>10, <1>11, <1>12 DEF Flowing, PlansKept
<1>13. ASSUME NEW t \in DOMAIN caches.plans, Pieces(t) # << >>
       PROVE  \E m \in Messages : said[m].turn = t /\ said[m].plan /\ (Mine(m) => Flows(m)')
  BY <1>10, <1>13 DEF Flowing, PlansKept
<1> QED BY <1>2, <1>7, <1>12, <1>13 DEF PlansKept

(* Taking an event keeps what flows. *)
LEMMA TakeFlows ==
  ASSUME Shape, Shape', Settling, Settling', Flowing, Take
  PROVE  Flowing'
<1>1. PICK e : e = Head(events) OBVIOUS
<1>2. /\ todo' = Handler(e) /\ Messages' = Messages /\ todo = << >>
      /\ UNCHANGED << said, codex, session, caches, thread, scope, count, pipe >>
      /\ events # << >> /\ events' = Tail(events)
  BY <1>1 DEF Take, codexVars, managerVars, Messages
<1>3. /\ e \in Event /\ e \in Lines
      /\ \A l \in Lines' : l \in Lines
      /\ \A l \in Lines : l \in Lines' \/ l = e
  BY <1>1, TakeLines
<1>4. /\ \A m : Unspoken(m) => Unspoken(m)'
      /\ \A m : Coming(m)' = Coming(m)
      /\ \A m : ~(e.type = "delta" /\ e.message = m) => Left(m)' = Left(m)
      /\ Speaks(e) => /\ e.message \in Messages
                      /\ \A n \in Messages : n < e.message /\ said[n].process = said[e.message].process
                           => Unspoken(n)'
  BY <1>1, TakeComing
<1>5. \A i \in DOMAIN Handler(e) : ToldBy(e, Handler(e), i) BY <1>3, HandlerTold
<1>6. PICK h : h = Handler(e) OBVIOUS
<1>7. \A m : Mine(m)' <=> Mine(m) BY <1>2 DEF Mine
<1>8. SaidMore' BY <1>2 DEF Flowing, SaidMore
<1>9. LinesAgree' BY <1>2, <1>3 DEF Flowing, LinesAgree, LineAgrees
<1>10. InSequence'
  <2>1. PICK here, gone : here = << 0, 0 >> /\ gone = {<< 0, 1 >>} OBVIOUS
  <2>2. Moved(here, 0, gone) /\ here \notin Waiting' BY <1>2, <2>1, TakeMoves
  <2>3. WaitingSound /\ WaitingSound' /\ InSequence /\ SaidSound BY DEF Settling, Flowing
  <2>4. MoreSaid BY <1>2, <2>3, SameSaid DEF Processes, Shape, Counts
  <2> QED BY <2>2, <2>3, <2>4, SequenceKept
<1>11. TodoAgrees' BY <1>1, TakeTodo
<1>12. ASSUME NEW i \in DOMAIN todo', NEW op, op = todo'[i]
       PROVE  /\ Chunky(op) => e.type = "delta" /\ op.message = e.message
              /\ op.do = "mode" => e.type = "mode" /\ op.mode = e.mode
  BY <1>2, <1>5, <1>12, ToldOf
<1>13. ModesSound' BY <1>2, <1>3, <1>12 DEF Flowing, ModesSound
<1>14. Written' BY <1>2 DEF Flowing, Written
<1>15. Remaining' BY <1>2, <1>4, <1>7 DEF Flowing, Remaining
<1>16. Successive'
  <2> SUFFICES ASSUME NEW m \in Messages, NEW n \in Messages, Mine(m), Mine(n), m < n, Begun(n)'
               PROVE  Unspoken(m)' /\ \A i \in DOMAIN todo' : Chunky(todo'[i]) => todo'[i].message # m
    BY <1>2, <1>7 DEF Successive, Chunky
  <2>1. CASE Begun(n) BY <1>3, <1>4, <1>12, <2>1 DEF Flowing, Successive, Unspoken, Speaks
  <2>2. CASE ~Begun(n)
    <3>1. e.type = "delta" /\ e.message = n BY <1>4, <2>2 DEF Begun
    <3>2. Unspoken(m)' BY <1>4, <3>1 DEF Speaks, Mine
    <3>3. m # n BY SaidParts
    <3> QED BY <1>12, <3>1, <3>2, <3>3
  <2> QED BY <2>1, <2>2
<1>17. ExitsBefore'
  <2> SUFFICES ASSUME Exits', NEW m \in Messages, Mine(m), Begun(m)' PROVE FALSE
    BY <1>2, <1>7 DEF ExitsBefore
  <2>1. Exits /\ ~(Speaks(e) /\ Mine(e.message)) BY <1>1, TakeExits
  <2>2. ~Begun(m) BY <2>1 DEF Flowing, ExitsBefore
  <2>3. e.type = "delta" /\ e.message = m BY <1>4, <2>2 DEF Begun
  <2> QED BY <2>1, <2>3 DEF Speaks
<1>18. count'.failures = 0 => TextKept' /\ PlansKept' BY <1>2, TakeText, TakePlans
<1> QED BY <1>8, <1>9, <1>10, <1>11, <1>13, <1>14, <1>15, <1>16, <1>17, <1>18 DEF Flowing

-----------------------------------------------------------------------------
(* What an operation leaves as it was. *)
LEMMA StaysSame ==
  ASSUME Shape, Stays
  PROVE  /\ Lines' = Lines /\ Messages' = Messages /\ Waiting' = Waiting
         /\ \A a \in Waiting : At(a)' = At(a)
         /\ \A m : /\ Left(m)' = Left(m) /\ (Unspoken(m)' <=> Unspoken(m))
                   /\ (Silent(m)' <=> Silent(m)) /\ (Begun(m)' <=> Begun(m))
                   /\ (Mine(m)' <=> Mine(m)) /\ (Ending(m)' <=> Ending(m))
                   /\ PlanOf(m)' = PlanOf(m) /\ (LastPlan(m)' <=> LastPlan(m))
<1>1. UNCHANGED << said, codex, pipe, session, events >> BY DEF Stays
<1>2. Waiting' = Waiting /\ \A a \in Waiting : At(a)' = At(a) BY <1>1, RestMoves
<1>3. Lines' = Lines BY <1>2 DEF Lines
<1>4. Messages' = Messages BY <1>1 DEF Messages
<1>5. ASSUME NEW m
      PROVE  /\ Left(m)' = Left(m) /\ (Unspoken(m)' <=> Unspoken(m))
             /\ (Silent(m)' <=> Silent(m)) /\ (Begun(m)' <=> Begun(m))
             /\ (Mine(m)' <=> Mine(m)) /\ (Ending(m)' <=> Ending(m))
             /\ PlanOf(m)' = PlanOf(m) /\ (LastPlan(m)' <=> LastPlan(m))
  <2>1. Left(m)' = Left(m) BY <1>3 DEF Left
  <2>2. Unspoken(m)' <=> Unspoken(m) BY <1>3 DEF Unspoken, Speaks
  <2>3. Silent(m)' <=> Silent(m) BY <1>1, <2>2 DEF Silent
  <2>4. Begun(m)' <=> Begun(m) BY <2>1 DEF Begun
  <2>5. Ending(m)' <=> Ending(m) BY <1>1, <1>3 DEF Ending
  <2>6. /\ (Mine(m)' <=> Mine(m)) /\ PlanOf(m)' = PlanOf(m) /\ (LastPlan(m)' <=> LastPlan(m))
    BY <1>1 DEF Mine, PlanOf, LastPlan
  <2> QED BY <2>1, <2>2, <2>3, <2>4, <2>5, <2>6
<1> QED BY <1>2, <1>3, <1>4, <1>5

(* What is left to do, and what is in hand. *)
LEMMA StaysLeft ==
  ASSUME Shape, TodoAgrees, Stays, NEW op, op = Head(todo)
  PROVE  /\ todo \in Seq(Operation) /\ op = todo[1] /\ 1 \in DOMAIN todo
         /\ \A i \in DOMAIN todo' :
              /\ i \in Nat /\ i >= 1 /\ i + 1 \in DOMAIN todo /\ todo'[i] = todo[i + 1]
              /\ ~Chunky(todo'[i]) /\ Len(todo) # 1
         /\ Chunky(op) => Len(todo) = 1 /\ todo' = << >>
         /\ \A m : ~(Chunky(op) /\ op.message = m) => Coming(m)' = Coming(m)
         /\ \A m : Chunky(op) /\ op.message = m =>
              /\ Coming(m) = Coming(m)' \cup {op.chunk}
              /\ op.chunk \in 1 .. said[m].chunks
              /\ \A c \in Coming(m)' : op.chunk < c
<1>1. /\ todo # << >> /\ (todo' = Tail(todo) \/ todo' = << >>) /\ todo \in Seq(Operation)
  BY DEF Stays, Shape
<1>2. op = todo[1] /\ 1 \in DOMAIN todo BY <1>1
<1>3. \A i \in DOMAIN todo' : /\ i \in Nat /\ i >= 1 /\ i + 1 \in DOMAIN todo
                              /\ todo'[i] = todo[i + 1] /\ Len(todo) # 1
  <2>1. CASE todo' = << >> BY <2>1
  <2>2. CASE todo' = Tail(todo) BY <1>1, <2>2
  <2> QED BY <1>1, <2>1, <2>2
<1>4. \A i \in DOMAIN todo : Chunky(todo[i]) =>
        /\ Len(todo) = 1 /\ todo[i].chunk \in 1 .. said[todo[i].message].chunks
        /\ \A c \in Left(todo[i].message) : todo[i].chunk < c
  BY DEF TodoAgrees, OperationAgrees
<1>5. \A i \in DOMAIN todo' : ~Chunky(todo'[i]) BY <1>3, <1>4
<1>6. \A i \in DOMAIN todo : Chunky(todo[i]) => i = 1 BY <1>1, <1>4
<1>7. Chunky(op) => Len(todo) = 1 /\ todo' = << >>
  <2>1. Chunky(op) => Len(todo) = 1 BY <1>2, <1>4
  <2>2. Len(todo) = 1 => todo = << todo[1] >> BY <1>1, ShortSequences
  <2>3. Len(todo) = 1 => Tail(todo) = << >> BY <2>2, SingleHead
  <2> QED BY <1>1, <2>1, <2>3
<1>8. ASSUME NEW m PROVE InHand(m)' = {} BY <1>5 DEF InHand, Chunky
<1>9. ASSUME NEW m PROVE InHand(m) = IF Chunky(op) /\ op.message = m THEN {op.chunk} ELSE {}
  <2>1. CASE Chunky(op) /\ op.message = m BY <1>2, <1>6, <2>1 DEF InHand
  <2>2. CASE ~(Chunky(op) /\ op.message = m) BY <1>2, <1>6, <2>2 DEF InHand
  <2> QED BY <2>1, <2>2
<1>10. \A m : Left(m)' = Left(m) BY StaysSame
<1>11. ASSUME NEW m PROVE Coming(m)' = Left(m)
  BY <1>8, <1>10 DEF Coming
<1>12. ASSUME NEW m, ~(Chunky(op) /\ op.message = m) PROVE Coming(m)' = Coming(m)
  BY <1>9, <1>11, <1>12 DEF Coming
<1>13. ASSUME NEW m, Chunky(op) /\ op.message = m
       PROVE  /\ Coming(m) = Coming(m)' \cup {op.chunk}
              /\ op.chunk \in 1 .. said[m].chunks
              /\ \A c \in Coming(m)' : op.chunk < c
  <2>1. InHand(m) = {op.chunk} BY <1>9, <1>13
  <2> QED BY <1>2, <1>4, <1>11, <1>13, <2>1 DEF Coming
<1> QED BY <1>1, <1>2, <1>3, <1>5, <1>7, <1>12, <1>13

(* What comes of a message is the rest of it, and stays so. *)
LEMMA RestShrinks ==
  ASSUME NEW n \in Nat, NEW k \in 0 .. n, NEW c \in 1 .. n, NEW S, k + 1 .. n = S \cup {c},
         \A x \in S : c < x
  PROVE  c = k + 1 /\ S = k + 2 .. n
<1>1. k \in Nat /\ c \in Nat /\ c >= 1 /\ c <= n /\ k <= n OBVIOUS
<1>2. c \in k + 1 .. n OBVIOUS
<1>3. k + 1 <= n /\ c >= k + 1 BY <1>1, <1>2
<1>4. k + 1 \in S \cup {c} BY <1>1, <1>3
<1>5. c = k + 1 BY <1>1, <1>3, <1>4
<1>6. \A x : x \in S <=> x \in k + 1 .. n /\ x # c BY <1>1
<1>7. \A x : x \in k + 2 .. n <=> x \in k + 1 .. n /\ x # k + 1 BY <1>1
<1> QED BY <1>5, <1>6, <1>7

LEMMA StaysRest ==
  ASSUME Shape, SaidMore, TodoAgrees, Remaining, Stays
  PROVE  /\ Remaining'
         /\ \A op, m : op = Head(todo) /\ Chunky(op) /\ op.message = m /\ m \in Messages =>
              \A k \in 0 .. said[m].chunks : Coming(m) = k + 1 .. said[m].chunks =>
                op.chunk = k + 1 /\ Coming(m)' = k + 2 .. said[m].chunks /\ k + 1 \in 0 .. said[m].chunks
<1>1. PICK op : op = Head(todo) OBVIOUS
<1>2. /\ \A m : ~(Chunky(op) /\ op.message = m) => Coming(m)' = Coming(m)
      /\ \A m : Chunky(op) /\ op.message = m =>
              /\ Coming(m) = Coming(m)' \cup {op.chunk}
              /\ op.chunk \in 1 .. said[m].chunks
              /\ \A c \in Coming(m)' : op.chunk < c
  BY <1>1, StaysLeft
<1>3. /\ Messages' = Messages /\ said' = said /\ \A m : Mine(m)' <=> Mine(m)
  BY StaysSame DEF Stays
<1>4. \A m \in Messages : said[m].chunks \in Nat BY SaidParts
<1>5. ASSUME NEW m \in Messages, Chunky(op), op.message = m, NEW k \in 0 .. said[m].chunks,
             Coming(m) = k + 1 .. said[m].chunks
      PROVE  op.chunk = k + 1 /\ Coming(m)' = k + 2 .. said[m].chunks /\ k + 1 \in 0 .. said[m].chunks
  <2>1. PICK n, S : n \in Nat /\ n = said[m].chunks /\ S = Coming(m)' BY <1>4
  <2>2. op.chunk \in 1 .. n /\ k \in 0 .. n BY <1>2, <1>5, <2>1
  <2>3. op.chunk = k + 1 /\ S = k + 2 .. n BY <1>2, <1>5, <2>1, <2>2, RestShrinks
  <2> QED BY <2>1, <2>2, <2>3
<1>6. ASSUME NEW m \in Messages, Mine(m)
      PROVE  \E k \in 0 .. said[m].chunks : Coming(m)' = k + 1 .. said[m].chunks
  <2>1. PICK k \in 0 .. said[m].chunks : Coming(m) = k + 1 .. said[m].chunks BY <1>6 DEF Remaining
  <2>2. CASE Chunky(op) /\ op.message = m BY <1>4, <1>5, <2>1, <2>2
  <2>3. CASE ~(Chunky(op) /\ op.message = m) BY <1>2, <2>1, <2>3
  <2> QED BY <2>2, <2>3
<1>7. Remaining' BY <1>3, <1>6 DEF Remaining
<1> QED BY <1>1, <1>5, <1>7

(* What is left to do still agrees, ... *)
LEMMA StaysTodo ==
  ASSUME Shape, Shape', Flowing, Stays, NEW op, op = Head(todo), \A t : Over(t) => Over(t)',
         op.do = "flush" => op.message \notin DOMAIN caches'.buffer
  PROVE  TodoAgrees'
<1>1. /\ op = todo[1]
      /\ \A i \in DOMAIN todo' : /\ i \in Nat /\ i >= 1 /\ i + 1 \in DOMAIN todo
                                 /\ todo'[i] = todo[i + 1]
                                 /\ ~Chunky(todo'[i]) /\ Len(todo) # 1
  BY StaysLeft DEF Flowing
<1>2. /\ Messages' = Messages /\ said' = said /\ \A m : Silent(m)' <=> Silent(m)
  BY StaysSame DEF Stays
<1>3. todo' \in Seq(Operation) BY DEF Shape
<1>4. SUFFICES ASSUME NEW i \in DOMAIN todo' PROVE OperationAgrees(i)' BY DEF TodoAgrees
<1>5. PICK j, o : j = i + 1 /\ o = todo'[i] OBVIOUS
<1>6. j \in DOMAIN todo /\ o = todo[j] /\ j - 1 = i /\ j # 1 /\ i \in Nat
  BY <1>1, <1>5
<1>7. /\ o.do \in {"delta", "plan", "flush", "complete"} =>
           o.message \in Messages /\ (said[o.message].plan <=> o.do = "plan")
      /\ o.do = "remember" => o.message \in Messages /\ ~said[o.message].plan
      /\ o.do \in {"flush", "complete"} => Silent(o.message)
      /\ o.do = "flush" => o.fallback \in {<< >>, Whole(said[o.message].chunks)}
      /\ o.do = "complete" => todo[i].do = "flush" /\ todo[i].message = o.message
      /\ o.do = "upsert" =>
           \/ o.fallback = << >> /\ Over(o.turn)
           \/ Len(todo) = 1 /\ \E m \in Messages : o = PlanOf(m) /\ said[m].plan /\ Silent(m)
  BY <1>6 DEF Flowing, TodoAgrees, OperationAgrees
<1>8. ~Chunky(o) /\ Len(todo) # 1 BY <1>1, <1>5
<1>9. o.do = "upsert" => o.fallback = << >> /\ Over(o.turn)' BY <1>7, <1>8
<1>10. o.do \in {"flush", "complete"} => Silent(o.message)' BY <1>2, <1>7
<1>11. ASSUME o.do = "complete", i = 1 PROVE o.message \notin DOMAIN caches'.buffer
  BY <1>1, <1>7, <1>11
<1>12. ASSUME o.do = "complete", i # 1
       PROVE  todo'[i - 1].do = "flush" /\ todo'[i - 1].message = o.message
  <2>1. PICK n : n = i - 1 OBVIOUS
  <2>2. n \in DOMAIN todo' /\ n + 1 = i BY <1>3, <1>6, <1>12, <2>1
  <2>3. todo'[n] = todo[i] BY <1>1, <2>2
  <2> QED BY <1>7, <1>12, <2>1, <2>3
<1>13. Chunky(o) <=> o.do \in {"delta", "plan"} BY DEF Chunky
<1> HIDE <1>1
<1>14. /\ o.do \in {"delta", "plan", "flush", "complete"} =>
            o.message \in Messages' /\ (said'[o.message].plan <=> o.do = "plan")
       /\ o.do = "remember" => o.message \in Messages' /\ ~said'[o.message].plan
       /\ o.do = "flush" => o.fallback \in {<< >>, Whole(said'[o.message].chunks)}
  BY <1>2, <1>7, Zenon
<1> QED BY <1>5, <1>8, <1>9, <1>10, <1>11, <1>12, <1>13, <1>14 DEF OperationAgrees, Chunky

(* ... and so do the lines, the order and the mode. *)
LEMMA StaysKeeps ==
  ASSUME Shape, Shape', Settling, Flowing, Stays, NEW op, op = Head(todo),
         caches'.mode = IF op.do = "mode" THEN op.mode ELSE caches.mode
  PROVE  /\ SaidMore' /\ LinesAgree' /\ InSequence' /\ ModesSound'
         /\ Remaining' /\ Successive' /\ ExitsBefore'
<1>1. /\ op = todo[1] /\ 1 \in DOMAIN todo
      /\ \A i \in DOMAIN todo' : /\ i + 1 \in DOMAIN todo /\ todo'[i] = todo[i + 1]
                                 /\ ~Chunky(todo'[i])
  BY StaysLeft DEF Flowing
<1>2. /\ Messages' = Messages /\ Lines' = Lines /\ Waiting' = Waiting
      /\ \A a \in Waiting : At(a)' = At(a)
      /\ \A m : /\ Left(m)' = Left(m) /\ (Unspoken(m)' <=> Unspoken(m))
                /\ (Begun(m)' <=> Begun(m)) /\ (Mine(m)' <=> Mine(m))
  BY StaysSame
<1>3. UNCHANGED << scope, said, codex, pipe, session, events >> BY DEF Stays
<1>4. SaidMore' BY <1>2, <1>3 DEF Flowing, SaidMore
<1>5. LinesAgree' BY <1>2, <1>3 DEF Flowing, LinesAgree, LineAgrees
<1>6. InSequence'
  <2> SUFFICES ASSUME NEW a \in Waiting, NEW b \in Waiting, Same(At(a), At(b))
               PROVE  /\ Before(At(a), At(b)) => Ahead(a, b)
                      /\ At(a).message = At(b).message /\ Rank(At(a)) = Rank(At(b)) => a = b
    BY <1>2, <1>3 DEF InSequence, Same, Before, Rank, Ahead, Speaks
  <2> QED BY DEF Flowing, InSequence
<1>7. ModesSound' BY <1>1, <1>2, <1>3 DEF Flowing, ModesSound
<1>8. Remaining' BY StaysRest DEF Flowing
<1>9. Successive' BY <1>1, <1>2 DEF Successive, Chunky, Flowing
<1>10. ExitsBefore' BY <1>1, <1>2, <1>3 DEF Exits, Flowing, ExitsBefore
<1> QED BY <1>4, <1>5, <1>6, <1>7, <1>8, <1>9, <1>10

(* What an operation makes of the mode, of a buffer, of a text and of a plan. *)
LEMMA ModeOf ==
  ASSUME caches \in Caches, NEW op \in Operation, caches' = Memory(op)
  PROVE  caches'.mode = IF op.do = "mode" THEN op.mode ELSE caches.mode
<1>1. \A X : \A c \in Caches : /\ ([c EXCEPT !.buffer = X]).mode = c.mode
                               /\ ([c EXCEPT !.ids = X]).mode = c.mode
                               /\ ([c EXCEPT !.plans = X]).mode = c.mode
                               /\ ([c EXCEPT !.mode = X]).mode = X
  BY SMTT(30) DEF Caches
<1>2. CASE op.do = "mode" BY <1>1, <1>2 DEF Memory
<1>3. CASE op.do = "remember" BY <1>1, <1>3 DEF Memory, Remember
<1>4. CASE op.do = "delta"
  <2> DEFINE known == Remember(caches, op.turn, op.message)
  <2>1. known.mode = caches.mode BY <1>1 DEF Remember
  <2>2. known \in Caches BY <1>4, RememberType DEF Operation
  <2>3. \/ caches' = known
        \/ \E text : caches' = SetBuffer(known, op.message, text)
        \/ caches' = ClearBuffer(known, op.message)
    <3> DEFINE text == Append(Buffered(caches, op.message), op.chunk)
    <3>1. caches' = AfterDelta(op).caches BY <1>4 DEF Memory
    <3> QED BY <3>1 DEF AfterDelta
  <2> HIDE DEF known
  <2>4. caches'.mode = known.mode
    <3>1. ASSUME NEW text, caches' = SetBuffer(known, op.message, text)
          PROVE  caches'.mode = known.mode
      BY <1>1, <2>2, <3>1 DEF SetBuffer
    <3>2. ASSUME caches' = ClearBuffer(known, op.message) PROVE caches'.mode = known.mode
      BY <1>1, <2>2, <3>2 DEF ClearBuffer
    <3> QED BY <2>3, <3>1, <3>2
  <2> QED BY <1>4, <2>1, <2>4
<1>5. CASE op.do = "flush" BY <1>1, <1>5, ZenonT(30) DEF Memory, ClearBuffer
<1>6. CASE op.do = "plan" BY <1>1, <1>6, ZenonT(30) DEF Memory, PlanDelta
<1>7. CASE op.do = "upsert" BY <1>1, <1>7, ZenonT(30) DEF Memory
<1>8. CASE op.do = "forget"
  <2>1. /\ \A X : ([caches EXCEPT !.ids = X]).mode = caches.mode
        /\ \A t, S : ([caches EXCEPT !.ids[t] = S]).mode = caches.mode
    BY DEF Caches
  <2>2. caches'.mode = caches.mode BY <1>8, <2>1 DEF Memory, ForgetMessage
  <2> QED BY <1>8, <2>2
<1>9. CASE op.do = "finish" BY <1>1, <1>9, ZenonT(30) DEF Memory
<1>10. CASE op.do = "clear" BY <1>10 DEF Caches, Memory, Cleared
<1>11. CASE op.do \notin {"remember", "delta", "forget", "finish", "clear", "flush", "plan",
                          "upsert", "mode"}
  BY <1>11 DEF Memory
<1> QED BY <1>2, <1>3, <1>4, <1>5, <1>6, <1>7, <1>8, <1>9, <1>10, <1>11

LEMMA BufferOf ==
  ASSUME caches \in Caches, NEW op \in Operation, caches' = Memory(op), op.do \in {"delta", "flush"}
  PROVE  /\ \A m : m # op.message => /\ m \in DOMAIN caches'.buffer <=> m \in DOMAIN caches.buffer
                                     /\ Buffered(caches', m) = Buffered(caches, m)
         /\ op.do = "flush" =>
              op.message \notin DOMAIN caches'.buffer /\ Buffered(caches', op.message) = << >>
         /\ op.do = "delta" =>
              LET text == Append(Buffered(caches, op.message), op.chunk)
              IN \/ /\ caches.mode = "streaming" /\ AfterDelta(op).spilled = << op.chunk >>
                    /\ Buffered(caches', op.message) = Buffered(caches, op.message)
                 \/ /\ caches.mode # "streaming" /\ Len(text) <= MaxBuffered
                    /\ AfterDelta(op).spilled = << >>
                    /\ Buffered(caches', op.message) = text
                 \/ /\ caches.mode # "streaming" /\ ~(Len(text) <= MaxBuffered)
                    /\ AfterDelta(op).spilled = text
                    /\ Buffered(caches', op.message) = << >>
<1>1. \A X : \A c \in Caches : ([c EXCEPT !.buffer = X]).buffer = X BY DEF Caches
<1>2. CASE op.do = "flush"
  <2>1. caches'.buffer = Without(caches.buffer, {op.message}) BY <1>1, <1>2 DEF Memory, ClearBuffer
  <2>2. PICK B : B = caches.buffer OBVIOUS
  <2>3. /\ DOMAIN Without(B, {op.message}) = DOMAIN B \ {op.message}
        /\ \A m \in DOMAIN B \ {op.message} : Without(B, {op.message})[m] = B[m]
    BY DEF Without
  <2> QED BY <1>2, <2>1, <2>2, <2>3 DEF Buffered
<1>3. CASE op.do = "delta"
  <2> DEFINE known == Remember(caches, op.turn, op.message)
             text  == Append(Buffered(caches, op.message), op.chunk)
  <2>1. known.buffer = caches.buffer BY DEF Remember, Caches
  <2>2. known \in Caches BY <1>3, RememberType DEF Operation
  <2>3. \/ caches.mode = "streaming" /\ caches' = known /\ AfterDelta(op).spilled = << op.chunk >>
        \/ /\ caches.mode # "streaming" /\ Len(text) <= MaxBuffered
           /\ caches' = SetBuffer(known, op.message, text) /\ AfterDelta(op).spilled = << >>
        \/ /\ caches.mode # "streaming" /\ ~(Len(text) <= MaxBuffered)
           /\ caches' = ClearBuffer(known, op.message) /\ AfterDelta(op).spilled = text
    BY <1>3 DEF Memory, AfterDelta
  <2> HIDE DEF known, text
  <2>4. PICK B, x : B = caches.buffer /\ x = op.message OBVIOUS
  <2>5. CASE caches.mode = "streaming" /\ caches' = known /\ AfterDelta(op).spilled = << op.chunk >>
    BY <1>3, <2>1, <2>3, <2>5 DEF Buffered, text
  <2>6. CASE /\ caches.mode # "streaming" /\ Len(text) <= MaxBuffered
             /\ caches' = SetBuffer(known, op.message, text) /\ AfterDelta(op).spilled = << >>
    <3> DEFINE R == [y \in DOMAIN B \cup {x} |-> IF y = x THEN text ELSE B[y]]
    <3>1. caches'.buffer = R BY <1>1, <2>1, <2>2, <2>4, <2>6 DEF SetBuffer
    <3>2. /\ DOMAIN R = DOMAIN B \cup {x} /\ R[x] = text /\ x \in DOMAIN R
          /\ \A m \in DOMAIN B : m # x => R[m] = B[m]
      OBVIOUS
    <3> HIDE DEF R
    <3>3. \A m : m # x => /\ m \in DOMAIN caches'.buffer <=> m \in DOMAIN caches.buffer
                          /\ Buffered(caches', m) = Buffered(caches, m)
      BY <2>4, <3>1, <3>2 DEF Buffered
    <3>4. Buffered(caches', x) = text BY <3>1, <3>2 DEF Buffered
    <3> QED BY <1>3, <2>4, <2>6, <3>3, <3>4 DEF text
  <2>7. CASE /\ caches.mode # "streaming" /\ ~(Len(text) <= MaxBuffered)
             /\ caches' = ClearBuffer(known, op.message) /\ AfterDelta(op).spilled = text
    <3>1. caches'.buffer = Without(B, {x}) BY <1>1, <2>1, <2>2, <2>4, <2>7 DEF ClearBuffer
    <3>2. /\ DOMAIN Without(B, {x}) = DOMAIN B \ {x}
          /\ \A m \in DOMAIN B \ {x} : Without(B, {x})[m] = B[m]
      BY DEF Without
    <3>3. \A m : m # x => /\ m \in DOMAIN caches'.buffer <=> m \in DOMAIN caches.buffer
                          /\ Buffered(caches', m) = Buffered(caches, m)
      BY <2>4, <3>1, <3>2 DEF Buffered
    <3>4. Buffered(caches', x) = << >> BY <3>1, <3>2 DEF Buffered
    <3> QED BY <1>3, <2>4, <2>7, <3>3, <3>4 DEF text
  <2> QED BY <2>3, <2>5, <2>6, <2>7
<1> QED BY <1>2, <1>3

LEMMA TextOf ==
  ASSUME thread \in Threads, NEW op, thread' = Dispatched(op)
  PROVE  /\ op.do = "complete" =>
              Message(op.message)' = [text |-> Message(op.message).text, state |-> "done"]
         /\ \A gained :
              (\/ op.do = "delta" /\ gained = AfterDelta(op).spilled
               \/ op.do = "flush" /\ gained = FinalText(op)) =>
              IF gained = << >> THEN thread' = thread
              ELSE Message(op.message)' = [text |-> Message(op.message).text \o gained,
                                           state |-> "streaming"]
<1>1. ASSUME NEW m, NEW message, thread' = SetMessage(m, message) PROVE Message(m)' = message
  <2> DEFINE T == [x \in DOMAIN thread.messages \cup {m} |->
                     IF x = m THEN message ELSE thread.messages[x]]
  <2>1. thread'.messages = T BY <1>1 DEF SetMessage, Threads
  <2>2. m \in DOMAIN T /\ T[m] = message OBVIOUS
  <2> HIDE DEF T
  <2> QED BY <2>1, <2>2 DEF Message
<1>2. CASE op.do = "complete" BY <1>1, <1>2 DEF Dispatched, Completed
<1>3. ASSUME NEW gained,
             \/ op.do = "delta" /\ gained = AfterDelta(op).spilled
             \/ op.do = "flush" /\ gained = FinalText(op)
      PROVE  IF gained = << >> THEN thread' = thread
             ELSE Message(op.message)' = [text |-> Message(op.message).text \o gained,
                                          state |-> "streaming"]
  <2>1. thread' = IF gained = << >> THEN thread ELSE Delta(op.message, gained)
    BY <1>3 DEF Dispatched
  <2>2. PICK row : row = [text |-> Message(op.message).text \o gained, state |-> "streaming"]
    OBVIOUS
  <2>3. CASE gained # << >> BY <1>1, <2>1, <2>2, <2>3 DEF Delta
  <2> QED BY <2>1, <2>3
<1>4. op.do # "complete" \/ op.do = "complete" OBVIOUS
<1> QED BY <1>2, <1>3

LEMMA PlansOf ==
  ASSUME caches \in Caches, thread \in Threads, NEW op \in Operation, caches' = Memory(op),
         thread' = Dispatched(op)
  PROVE  /\ op.do = "plan" =>
              /\ Pieces(op.turn)' = Append(Pieces(op.turn), << op.message, op.chunk >>)
              /\ \A t : t # op.turn => Pieces(t)' = Pieces(t)
         /\ op.do = "upsert" =>
              /\ Pieces(op.turn)' = << >>
              /\ \A t : t # op.turn => Pieces(t)' = Pieces(t)
              /\ IF PlanText(op) = << >> THEN thread'.plans = thread.plans
                 ELSE op.turn \in DOMAIN thread'.plans /\ thread'.plans[op.turn] = PlanText(op)
              /\ \A t \in DOMAIN thread.plans : t # op.turn =>
                   t \in DOMAIN thread'.plans /\ thread'.plans[t] = thread.plans[t]
         /\ op.do = "clear" => \A t : Pieces(t)' = << >>
         /\ op.do \notin {"plan", "upsert", "clear"} => \A t : Pieces(t)' = Pieces(t)
         /\ op.do # "upsert" => thread'.plans = thread.plans
<1>1. \A X : ([caches EXCEPT !.plans = X]).plans = X BY DEF Caches
<1>2. CASE op.do = "plan"
  <2> DEFINE piece == Append(Pieces(op.turn), << op.message, op.chunk >>)
             R == [t \in DOMAIN caches.plans \cup {op.turn} |->
                     IF t = op.turn THEN piece ELSE caches.plans[t]]
  <2>1. caches' = [caches EXCEPT !.plans = R] BY <1>2 DEF Memory, PlanDelta
  <2>2. /\ DOMAIN R = DOMAIN caches.plans \cup {op.turn} /\ R[op.turn] = piece
        /\ \A t \in DOMAIN caches.plans : t # op.turn => R[t] = caches.plans[t]
    OBVIOUS
  <2> HIDE DEF R, piece
  <2>3. caches'.plans = R BY <1>1, <2>1
  <2>4. /\ Pieces(op.turn)' = piece
        /\ \A t : t # op.turn => Pieces(t)' = Pieces(t)
    BY <2>2, <2>3 DEF Pieces
  <2>5. thread' = thread BY <1>2 DEF Dispatched
  <2> QED BY <1>2, <2>4, <2>5 DEF piece
<1>3. CASE op.do = "upsert"
  <2>1. caches'.plans = Without(caches.plans, {op.turn}) BY <1>1, <1>3 DEF Memory
  <2>2. PICK B, x : B = caches.plans /\ x = op.turn OBVIOUS
  <2>3. /\ DOMAIN Without(B, {x}) = DOMAIN B \ {x}
        /\ \A t \in DOMAIN B \ {x} : Without(B, {x})[t] = B[t]
    BY DEF Without
  <2>4. Pieces(op.turn)' = << >> /\ \A t : t # op.turn => Pieces(t)' = Pieces(t)
    BY <2>1, <2>2, <2>3 DEF Pieces
  <2>5. thread' = IF PlanText(op) = << >> THEN thread ELSE Upsert(op.turn, PlanText(op))
    BY <1>3 DEF Dispatched
  <2>6. CASE PlanText(op) # << >>
    <3> DEFINE T == [t \in DOMAIN thread.plans \cup {op.turn} |->
                       IF t = op.turn THEN PlanText(op) ELSE thread.plans[t]]
    <3>1. thread'.plans = T BY <2>5, <2>6 DEF Upsert, Threads
    <3>2. /\ DOMAIN T = DOMAIN thread.plans \cup {op.turn} /\ T[op.turn] = PlanText(op)
          /\ \A t \in DOMAIN thread.plans : t # op.turn => T[t] = thread.plans[t]
      OBVIOUS
    <3> HIDE DEF T
    <3> QED BY <1>3, <2>4, <2>6, <3>1, <3>2
  <2>7. CASE PlanText(op) = << >> BY <1>3, <2>4, <2>5, <2>7
  <2> QED BY <2>6, <2>7
<1>4. CASE op.do = "clear"
  <2> DEFINE B == Without(caches.buffer, UNION {caches.ids[t] : t \in DOMAIN caches.ids})
  <2>1. caches' = [caches EXCEPT !.buffer = B, !.ids = << >>, !.plans = << >>]
    BY <1>4 DEF Memory, Cleared
  <2> HIDE DEF B
  <2>2. caches'.plans = << >> BY <2>1 DEF Caches
  <2>3. DOMAIN << >> = {} OBVIOUS
  <2>4. thread' = thread BY <1>4 DEF Dispatched
  <2> QED BY <1>4, <2>2, <2>3, <2>4 DEF Pieces
<1>5. CASE op.do \notin {"plan", "upsert", "clear"}
  <2>1. caches'.plans = caches.plans BY <1>5, MemoryIs
  <2>2. \A t : Pieces(t)' = Pieces(t) BY <2>1 DEF Pieces
  <2>3. thread'.plans = thread.plans
    <3>1. \A X : /\ ([thread EXCEPT !.messages = X]).plans = thread.plans
                 /\ ([thread EXCEPT !.activities = X]).plans = thread.plans
                 /\ ([thread EXCEPT !.status = X]).plans = thread.plans
      BY DEF Threads
    <3>2. CASE op.do \in {"delta", "flush", "complete"}
      BY <3>1, <3>2 DEF Dispatched, Delta, Completed, SetMessage
    <3>3. CASE op.do = "session" BY <3>1, <3>3 DEF Dispatched
    <3>4. CASE op.do = "activity" BY <3>1, <3>4 DEF Dispatched, Activity
    <3>5. CASE op.do \notin {"upsert", "session", "activity", "delta", "flush", "complete"}
      BY <3>5 DEF Dispatched
    <3> QED BY <1>5, <3>2, <3>3, <3>4, <3>5
  <2> QED BY <1>5, <2>2, <2>3
<1> QED BY <1>2, <1>3, <1>4, <1>5

(* An operation writes no plan as a message. *)
LEMMA StaysWritten ==
  ASSUME Shape, Settling, Flowing, Stays, NEW op, op = Head(todo), caches' = Memory(op),
         thread' = Dispatched(op) \/ thread' = thread
  PROVE  Written'
<1>1. op = todo[1] /\ 1 \in DOMAIN todo /\ op \in Operation /\ caches \in Caches
  BY StaysLeft DEF Flowing, Shape
<1>2. /\ op.do \in {"delta", "plan", "flush", "complete"} =>
           op.message \in Messages /\ (said[op.message].plan <=> op.do = "plan")
      /\ op.do = "remember" => op.message \in Messages /\ ~said[op.message].plan
  BY <1>1 DEF Flowing, TodoAgrees, OperationAgrees
<1>3. said' = said /\ Messages' = Messages BY StaysSame DEF Stays
<1>4. DOMAIN thread'.messages \cup DOMAIN caches'.buffer \subseteq
        DOMAIN thread.messages \cup DOMAIN caches.buffer
          \cup IF op.do \in {"delta", "flush", "complete"} THEN {op.message} ELSE {}
  BY <1>1, OperationOpens
<1>5. ASSUME NEW m \in DOMAIN thread'.messages \cup DOMAIN caches'.buffer
      PROVE  m \in Messages /\ ~said[m].plan
  BY <1>2, <1>4 DEF Flowing, Written
<1>6. ASSUME NEW t \in DOMAIN caches'.ids, NEW m \in caches'.ids[t]
      PROVE  m \in Messages /\ ~said[m].plan
  <2>1. InTurn(t)' = caches'.ids[t] BY DEF InTurn
  <2>2. \A x \in InTurn(t) : x \in Messages /\ ~said[x].plan BY DEF InTurn, Flowing, Written
  <2>3. CASE op.do \in {"delta", "remember"}
    <3>1. InTurn(t)' \subseteq InTurn(t) \cup {op.message}
      <4>1. PICK u : u = op.turn OBVIOUS
      <4>2. /\ InTurn(u)' = InTurn(u) \cup {op.message}
            /\ \A x : x # u => InTurn(x)' = InTurn(x)
        BY <1>1, <2>3, <4>1, MemoryIs
      <4> QED BY <4>2
    <3>2. op.message \in Messages /\ ~said[op.message].plan BY <1>2, <2>3
    <3> QED BY <2>1, <2>2, <3>1, <3>2
  <2>4. CASE op.do = "forget"
    <3>1. /\ InTurn(op.turn)' = InTurn(op.turn) \ {op.message}
          /\ \A x : x # op.turn => InTurn(x)' = InTurn(x)
      BY <1>1, <2>4, MemoryIs
    <3>2. InTurn(t)' \subseteq InTurn(t) BY <3>1
    <3> QED BY <2>1, <2>2, <3>2
  <2>5. CASE op.do = "finish"
    <3>1. /\ \A x : x # op.turn => InTurn(x)' = InTurn(x)
          /\ DOMAIN caches'.ids = DOMAIN caches.ids \ {op.turn}
      BY <1>1, <2>5, MemoryIs
    <3>2. InTurn(t)' = InTurn(t) BY <3>1
    <3> QED BY <2>1, <2>2, <3>2
  <2>6. CASE op.do = "clear" BY <1>1, <2>6, MemoryIs
  <2>7. CASE op.do \notin {"delta", "remember", "forget", "finish", "clear"}
    BY <1>1, <2>7, MemoryIs DEF Flowing, Written
  <2> QED BY <2>3, <2>4, <2>5, <2>6, <2>7
<1> QED BY <1>3, <1>5, <1>6 DEF Written

(* What a text is made of. *)
LEMMA RangeParts ==
  ASSUME NEW s \in Seq(Nat), NEW t \in Seq(Nat), NEW e \in Nat
  PROVE  /\ Range(s \o t) = Range(s) \cup Range(t)
         /\ Range(Append(s, e)) = Range(s) \cup {e} /\ Append(s, e) \in Seq(Nat)
         /\ Range(<< e >>) = {e} /\ Range(<< >>) = {}
         /\ << >> \o s = s
<1>1. Range(s \o t) = Range(s) \cup Range(t)
  <2>1. /\ DOMAIN s = 1 .. Len(s) /\ DOMAIN t = 1 .. Len(t) /\ DOMAIN (s \o t) = 1 .. Len(s) + Len(t)
        /\ Len(s) \in Nat /\ Len(t) \in Nat
        /\ \A k \in 1 .. Len(s) : (s \o t)[k] = s[k]
        /\ \A k \in 1 .. Len(t) : (s \o t)[Len(s) + k] = t[k]
    BY ConcatParts
  <2>2. \A k \in 1 .. Len(s) + Len(t) :
          k \in 1 .. Len(s) \/ (k - Len(s) \in 1 .. Len(t) /\ Len(s) + (k - Len(s)) = k)
    BY <2>1
  <2>3. \A k \in 1 .. Len(s) : k \in 1 .. Len(s) + Len(t) BY <2>1
  <2>4. \A k \in 1 .. Len(t) : Len(s) + k \in 1 .. Len(s) + Len(t) BY <2>1
  <2>5. \A x \in Range(s \o t) : x \in Range(s) \cup Range(t) BY <2>1, <2>2 DEF Range
  <2>6. \A x \in Range(s) \cup Range(t) : x \in Range(s \o t) BY <2>1, <2>3, <2>4 DEF Range
  <2> QED BY <2>5, <2>6
<1>2. Range(Append(s, e)) = Range(s) \cup {e} /\ Append(s, e) \in Seq(Nat)
  <2>1. /\ DOMAIN Append(s, e) = 1 .. Len(s) + 1 /\ DOMAIN s = 1 .. Len(s) /\ Len(s) \in Nat
        /\ Append(s, e)[Len(s) + 1] = e
        /\ \A k \in 1 .. Len(s) : Append(s, e)[k] = s[k]
    OBVIOUS
  <2>2. \A k \in 1 .. Len(s) + 1 : k \in 1 .. Len(s) \/ k = Len(s) + 1 BY <2>1
  <2>3. Len(s) + 1 \in 1 .. Len(s) + 1 /\ \A k \in 1 .. Len(s) : k \in 1 .. Len(s) + 1 BY <2>1
  <2> QED BY <2>1, <2>2, <2>3 DEF Range
<1>3. Range(<< e >>) = {e} /\ Range(<< >>) = {} /\ << >> \o s = s BY DEF Range
<1> QED BY <1>1, <1>2, <1>3

LEMMA RangeSays ==
  /\ \A s, t \in Seq(Nat) : Range(s \o t) = Range(s) \cup Range(t)
  /\ \A s \in Seq(Nat) : << >> \o s = s
  /\ \A s \in Seq(Nat), e \in Nat :
       Range(Append(s, e)) = Range(s) \cup {e} /\ Append(s, e) \in Seq(Nat)
  /\ \A e \in Nat : Range(<< e >>) = {e} /\ << e >> \in Seq(Nat)
  /\ Range(<< >>) = {}
<1>1. 0 \in Nat /\ << >> \in Seq(Nat) OBVIOUS
<1>2. Range(<< >>) = {} BY DEF Range
<1>3. ASSUME NEW s \in Seq(Nat), NEW t \in Seq(Nat)
      PROVE  Range(s \o t) = Range(s) \cup Range(t) /\ << >> \o s = s
  BY <1>1, RangeParts
<1>4. ASSUME NEW s \in Seq(Nat), NEW e \in Nat
      PROVE  /\ Range(Append(s, e)) = Range(s) \cup {e} /\ Append(s, e) \in Seq(Nat)
             /\ Range(<< e >>) = {e} /\ << e >> \in Seq(Nat)
  BY <1>1, RangeParts
<1> QED BY <1>1, <1>2, <1>3, <1>4

LEMMA WholeParts ==
  ASSUME NEW n \in Nat
  PROVE  /\ Whole(n) \in Seq(Nat) /\ Len(Whole(n)) = n /\ Range(Whole(n)) = 1 .. n
         /\ Append(Whole(n), n + 1) = Whole(n + 1)
         /\ Whole(0) = << >> /\ (n >= 1 => Whole(n) # << >>)
<1>1. Whole(n) \in Seq(Nat) /\ Len(Whole(n)) = n BY DEF Whole
<1>2. Range(Whole(n)) = 1 .. n BY DEF Whole, Range
<1>3. Append(Whole(n), n + 1) = Whole(n + 1)
  <2>1. Append(Whole(n), n + 1) \in Seq(Nat) /\ Len(Append(Whole(n), n + 1)) = n + 1 BY <1>1
  <2>2. Whole(n + 1) \in Seq(Nat) /\ Len(Whole(n + 1)) = n + 1 BY DEF Whole
  <2>3. \A k \in 1 .. n + 1 : Append(Whole(n), n + 1)[k] = k BY <1>1 DEF Whole
  <2>4. \A k \in 1 .. n + 1 : Whole(n + 1)[k] = k BY DEF Whole
  <2> QED BY <2>1, <2>2, <2>3, <2>4
<1>4. Whole(0) = << >> /\ (n >= 1 => Whole(n) # << >>)
  BY <1>1 DEF Whole
<1> QED BY <1>1, <1>2, <1>3, <1>4

(* Of a message that has ended nothing comes but what is in hand. *)
LEMMA SilentRest ==
  ASSUME Shape, TodoAgrees, todo # << >>, ~Chunky(Head(todo)), NEW m, Silent(m)
  PROVE  Coming(m) = {}
<1>1. Left(m) = {} BY DEF Left, Silent, Unspoken, Speaks
<1>2. todo \in Seq(Operation) BY DEF Shape
<1>3. \A i \in DOMAIN todo : Chunky(todo[i]) => i = 1 BY <1>2 DEF TodoAgrees, OperationAgrees
<1>4. Head(todo) = todo[1] BY <1>2
<1>5. InHand(m) = {} BY <1>3, <1>4 DEF InHand
<1> QED BY <1>1, <1>5 DEF Coming

(* The text of a completion is flushed once. *)
LEMMA FlushOnce ==
  ASSUME Shape, Settling, todo # << >>, todo' = Tail(todo) \/ todo' = << >>,
         NEW op, op = Head(todo), op.do = "flush", NEW i \in DOMAIN todo', todo'[i].do = "flush"
  PROVE  todo'[i].fallback = << >>
<1>0. todo \in Seq(Operation) BY DEF Shape
<1>1. todo' = Tail(todo) OBVIOUS
<1>2. CASE SingleForm BY <1>2, SingleHead DEF SingleForm
<1>3. CASE ExitForm BY <1>3 DEF ExitForm
<1>4. CASE ItemForm
  <2>1. PICK m \in Nat, t \in Nat, fallback \in Text :
          LET left == << [do |-> "remember", turn |-> t, message |-> m],
                         [do |-> "flush", message |-> m, fallback |-> fallback],
                         [do |-> "complete", message |-> m],
                         [do |-> "forget", turn |-> t, message |-> m] >>
          IN \/ todo = left
             \/ todo = Tail(left)
             \/ todo = Tail(Tail(left))
             \/ todo = Tail(Tail(Tail(left)))
    BY <1>4 DEF ItemForm
  <2> DEFINE a == [do |-> "remember", turn |-> t, message |-> m]
             b == [do |-> "flush", message |-> m, fallback |-> fallback]
             c == [do |-> "complete", message |-> m]
             d == [do |-> "forget", turn |-> t, message |-> m]
  <2>2. a.do # "flush" /\ c.do # "flush" /\ d.do # "flush" OBVIOUS
  <2>3. \/ todo = << a, b, c, d >> \/ todo = << b, c, d >> \/ todo = << c, d >> \/ todo = << d >>
    <3>1. /\ Tail(<< a, b, c, d >>) = << b, c, d >> /\ Tail(Tail(<< a, b, c, d >>)) = << c, d >>
          /\ Tail(Tail(Tail(<< a, b, c, d >>))) = << d >>
      <4> HIDE DEF a, b, c, d
      <4> QED BY ItemHead
    <3> QED BY <2>1, <3>1
  <2> HIDE DEF a, b, c, d
  <2>4. todo = << b, c, d >> BY <2>2, <2>3
  <2>5. todo' = << c, d >> BY <1>1, <2>4
  <2>6. DOMAIN << c, d >> = 1 .. 2 /\ << c, d >>[1] = c /\ << c, d >>[2] = d OBVIOUS
  <2>7. i = 1 \/ i = 2 BY <2>5, <2>6
  <2> QED BY <2>2, <2>5, <2>6, <2>7
<1>5. CASE TurnForm
  <2>1. PICK t \in Nat :
          /\ todo # << >> /\ todo[Len(todo)] = UpsertOf(t)
          /\ Len(todo) > 1 => todo[Len(todo) - 1] = FinishOf(t) /\ Sweeps(t)
    BY <1>5 DEF TurnForm
  <2>2. PICK n \in Nat : n = Len(todo) BY <1>0
  <2>3. i + 1 \in 2 .. n /\ todo'[i] = todo[i + 1] BY <1>0, <1>1, <2>2
  <2>4. PICK j \in 2 .. n : j = i + 1 BY <2>3
  <2>5. todo'[i] = todo[j] /\ n > 1 BY <2>3, <2>4
  <2>6. j = n \/ j = n - 1 \/ j \in 1 .. n - 2 BY <2>4
  <2>7. UpsertOf(t).do # "flush" /\ FinishOf(t).do # "flush" BY DEF UpsertOf, FinishOf
  <2>8. j \in 1 .. n - 2
    <3>1. j # n /\ j # n - 1 BY <2>1, <2>2, <2>5, <2>7
    <3> QED BY <2>6, <3>1
  <2>9. \/ todo[j].do = "session"
        \/ \E m \in InTurn(t) : todo[j] = CompleteOf(m) \/ todo[j] = FlushOf(m)
    BY <2>1, <2>2, <2>5, <2>8 DEF Sweeps
  <2>10. \A m : CompleteOf(m).do = "complete" /\ FlushOf(m).fallback = << >>
    BY DEF CompleteOf, FlushOf
  <2> QED BY <2>5, <2>9, <2>10
<1> QED BY <1>2, <1>3, <1>4, <1>5 DEF Settling, TodoForm

(* A delta moves a chunk from what comes to what is there, ... *)
LEMMA DeltaText ==
  ASSUME Shape, Flowing, Stays, NEW op, op = Head(todo), caches' = Memory(op),
         thread' = Dispatched(op), op.do = "delta", NEW m \in Messages, m = op.message, Mine(m),
         Kept(m), scope.modes = {"buffered"} /\ said[m].chunks <= MaxBuffered => Fresh(m) \/ Settled(m)
  PROVE  /\ Kept(m)'
         /\ scope.modes = {"buffered"} /\ said[m].chunks <= MaxBuffered => Fresh(m)'
<1>1. caches \in Caches /\ thread \in Threads /\ said' = said /\ MaxBuffered \in Nat
  BY BoundsAssumption DEF Shape, Stays
<1>2. op \in Operation /\ Chunky(op) /\ op.chunk \in 1 .. said[m].chunks
      /\ Coming(m) = Coming(m)' \cup {op.chunk}
  BY StaysLeft DEF Flowing, Chunky, Shape
<1>3. PICK n \in Nat : n = said[m].chunks BY SaidParts
<1>4. PICK c \in Nat : c = op.chunk /\ m \in Nat BY <1>2, <1>3, SaidParts
<1>5. Message(m).text \in Seq(Nat) /\ Buffered(caches, m) \in Seq(Nat)
  BY <1>1, <1>4, MessageType, BufferType DEF Text
<1>6. PICK had \in Seq(Nat), held \in Seq(Nat),
            now \in {Message(m)'.text}, keeps \in {Buffered(caches', m)} :
        /\ had = Message(m).text /\ held = Buffered(caches, m)
        /\ now = Message(m)'.text /\ keeps = Buffered(caches', m)
  BY <1>5
<1>7. PICK gained : gained = AfterDelta(op).spilled OBVIOUS
<1>8. IF gained = << >> THEN thread' = thread
      ELSE Message(m)' = [text |-> Message(m).text \o gained, state |-> "streaming"]
  BY <1>1, <1>7, TextOf
<1>9. \/ caches.mode = "streaming" /\ gained = << c >> /\ keeps = held
      \/ /\ caches.mode # "streaming" /\ Len(Append(held, c)) <= MaxBuffered
         /\ gained = << >> /\ keeps = Append(held, c)
      \/ /\ caches.mode # "streaming" /\ ~(Len(Append(held, c)) <= MaxBuffered)
         /\ gained = Append(held, c) /\ keeps = << >>
  <2>1. LET text == Append(Buffered(caches, op.message), op.chunk)
        IN \/ /\ caches.mode = "streaming" /\ AfterDelta(op).spilled = << op.chunk >>
              /\ Buffered(caches', op.message) = Buffered(caches, op.message)
           \/ /\ caches.mode # "streaming" /\ Len(text) <= MaxBuffered
              /\ AfterDelta(op).spilled = << >>
              /\ Buffered(caches', op.message) = text
           \/ /\ caches.mode # "streaming" /\ ~(Len(text) <= MaxBuffered)
              /\ AfterDelta(op).spilled = text
              /\ Buffered(caches', op.message) = << >>
    BY <1>1, <1>2, BufferOf
  <2> QED BY <1>4, <1>6, <1>7, <2>1
<1>10. gained = << >> => now = had /\ Message(m)' = Message(m) BY <1>6, <1>8 DEF Message
<1>11. gained # << >> => now = had \o gained /\ Message(m)'.state = "streaming" BY <1>6, <1>8
<1>12. << c >> \in Seq(Nat) /\ << c >> # << >> /\ Append(held, c) # << >> BY <1>4, <1>6
<1>13. Range(now) \cup Range(keeps) = Range(had) \cup Range(held) \cup {c}
  <2>1. /\ Range(had \o << c >>) = Range(had) \cup Range(<< c >>)
        /\ Range(<< c >>) = {c} /\ Range(<< >>) = {}
        /\ Range(Append(held, c)) = Range(held) \cup {c} /\ Append(held, c) \in Seq(Nat)
    <3>1. c \in Nat /\ had \in Seq(Nat) /\ held \in Seq(Nat) /\ << c >> \in Seq(Nat)
      BY <1>4, <1>6, <1>12
    <3>2. Range(had \o << c >>) = Range(had) \cup Range(<< c >>) BY <3>1, RangeSays
    <3>3. /\ Range(Append(held, c)) = Range(held) \cup {c} /\ Append(held, c) \in Seq(Nat)
          /\ Range(<< c >>) = {c} /\ Range(<< >>) = {}
      BY <3>1, RangeSays
    <3> QED BY <3>2, <3>3
  <2>2. Range(had \o Append(held, c)) = Range(had) \cup Range(Append(held, c))
    <3>1. c \in Nat /\ had \in Seq(Nat) BY <1>4, <1>6
    <3> QED BY <2>1, <3>1, RangeSays
  <2> QED BY <1>9, <1>10, <1>11, <1>12, <2>1, <2>2
<1>14. Message(m).state # "done" BY <1>2, <1>4 DEF Kept
<1>15. Message(m)'.state # "done" BY <1>10, <1>11, <1>14
<1>16. Kept(m)'
  <2>1. Range(had) \cup Range(held) \cup Coming(m) = 1 .. n BY <1>3, <1>6 DEF Kept
  <2>2. Range(now) \cup Range(keeps) \cup Coming(m)' = 1 .. n BY <1>2, <1>4, <1>13, <2>1
  <2> QED BY <1>1, <1>3, <1>6, <1>15, <2>2 DEF Kept
<1>17. ASSUME scope.modes = {"buffered"}, n <= MaxBuffered PROVE Fresh(m)'
  <2>1. ~Settled(m) BY <1>2 DEF Settled
  <2>2. Fresh(m) BY <1>3, <1>17, <2>1
  <2>3. PICK k \in 0 .. n : Coming(m) = k + 1 .. n /\ held = Whole(k) /\ m \notin DOMAIN thread.messages
    BY <1>3, <1>6, <2>2 DEF Fresh
  <2>4. c = k + 1 /\ Coming(m)' = k + 2 .. n /\ k + 1 \in 0 .. n
    <3>1. \A x, y : x = Head(todo) /\ Chunky(x) /\ x.message = y /\ y \in Messages =>
            \A j \in 0 .. said[y].chunks : Coming(y) = j + 1 .. said[y].chunks =>
              x.chunk = j + 1 /\ Coming(y)' = j + 2 .. said[y].chunks /\ j + 1 \in 0 .. said[y].chunks
      BY StaysRest DEF Flowing
    <3>2. Chunky(op) /\ op = Head(todo) /\ op.message = m BY <1>2
    <3> QED BY <1>3, <1>4, <2>3, <3>1, <3>2
  <2>5. k \in Nat BY <2>3
  <2>6. Append(held, c) = Whole(k + 1) /\ Len(Append(held, c)) = k + 1
    BY <2>3, <2>4, <2>5, WholeParts
  <2>7. caches.mode = "buffered" BY <1>17 DEF Flowing, ModesSound
  <2>8. k + 1 <= MaxBuffered BY <1>1, <1>17, <2>4, <2>5
  <2>9. keeps = Whole(k + 1) /\ gained = << >> BY <1>9, <2>6, <2>7, <2>8
  <2>10. PICK j : j = k + 1 OBVIOUS
  <2>11. j \in 0 .. n /\ keeps = Whole(j) /\ Coming(m)' = j + 1 .. n BY <2>4, <2>5, <2>9, <2>10
  <2>12. m \notin DOMAIN thread'.messages BY <1>8, <2>3, <2>9
  <2> QED BY <1>1, <1>3, <1>6, <2>11, <2>12 DEF Fresh
<1> QED BY <1>1, <1>3, <1>16, <1>17 DEF Stays

(* ... a flush what is kept of an ended message, or else its text, ... *)
LEMMA FlushText ==
  ASSUME Shape, Settling, Flowing, Stays, NEW op, op = Head(todo), caches' = Memory(op),
         thread' = Dispatched(op), op.do = "flush", NEW m \in Messages, m = op.message,
         Kept(m), scope.modes = {"buffered"} /\ said[m].chunks <= MaxBuffered => Fresh(m) \/ Settled(m)
  PROVE  /\ Kept(m)'
         /\ scope.modes = {"buffered"} /\ said[m].chunks <= MaxBuffered => Settled(m)'
<1>1. caches \in Caches /\ thread \in Threads /\ said' = said BY DEF Shape, Stays
<1>2. op \in Operation /\ ~Chunky(op) /\ op = todo[1] /\ 1 \in DOMAIN todo
      /\ \A i \in DOMAIN todo' : i + 1 \in DOMAIN todo /\ todo'[i] = todo[i + 1]
  BY StaysLeft DEF Flowing, Chunky, Shape
<1>3. PICK n \in Nat : n = said[m].chunks /\ m \in Nat /\ n >= 1
  BY SaidParts DEF Flowing, SaidMore
<1>4. Silent(m) /\ op.fallback \in {<< >>, Whole(n)}
  BY <1>2, <1>3 DEF Flowing, TodoAgrees, OperationAgrees
<1>5. Coming(m) = {} BY <1>2, <1>4, SilentRest DEF Flowing, Stays
<1>6. Silent(m)' /\ Coming(m)' = {} BY <1>2, <1>4, <1>5, StaysSame, StaysLeft DEF Flowing
<1>7. PICK had \in Seq(Nat), held \in Seq(Nat), now \in {Message(m)'.text} :
        had = Message(m).text /\ held = Buffered(caches, m) /\ now = Message(m)'.text
  BY <1>1, <1>3, MessageType, BufferType DEF Text
<1>8. PICK gained : gained = FinalText(op) OBVIOUS
<1>9. IF gained = << >> THEN thread' = thread
      ELSE Message(m)' = [text |-> Message(m).text \o gained, state |-> "streaming"]
  BY <1>1, <1>8, TextOf
<1>10. m \notin DOMAIN caches'.buffer /\ Buffered(caches', m) = << >> BY <1>1, <1>2, BufferOf
<1>11. gained = IF held # << >> THEN held ELSE op.fallback BY <1>7, <1>8 DEF FinalText
<1>12. Whole(n) \in Seq(Nat) /\ Range(Whole(n)) = 1 .. n /\ Whole(n) # << >>
       /\ << >> \in Seq(Nat) /\ Range(<< >>) = {}
  BY <1>3, WholeParts, RangeSays
<1>13. gained \in Seq(Nat) BY <1>4, <1>7, <1>11, <1>12
<1>14. gained = << >> => now = had BY <1>7, <1>9 DEF Message
<1>15. gained # << >> => now = had \o gained BY <1>7, <1>9
<1>16. Range(now) = 1 .. n
  <2>1. Range(had) \cup Range(held) = 1 .. n BY <1>3, <1>5, <1>7 DEF Kept
  <2>2. Range(now) = Range(had) \cup Range(gained)
    <3>1. CASE gained = << >> BY <1>12, <1>14, <3>1
    <3>2. CASE gained # << >>
      <4>1. had \in Seq(Nat) BY <1>7
      <4>2. Range(had \o gained) = Range(had) \cup Range(gained) BY <1>13, <4>1, RangeSays
      <4> QED BY <1>15, <3>2, <4>2
    <3> QED BY <3>1, <3>2
  <2>3. CASE held # << >> BY <1>11, <2>1, <2>2, <2>3
  <2>4. CASE held = << >>
    <3>1. Range(had) = 1 .. n BY <1>12, <2>1, <2>4
    <3>2. Range(gained) \in {{}, 1 .. n} BY <1>4, <1>11, <1>12, <2>4
    <3> QED BY <2>2, <3>1, <3>2
  <2> QED BY <2>3, <2>4
<1>17. Kept(m)'
  <2>1. Range(now) \cup Range(<< >>) \cup {} = 1 .. n BY <1>12, <1>16
  <2> QED BY <1>1, <1>3, <1>6, <1>7, <1>10, <2>1 DEF Kept
<1>18. ASSUME scope.modes = {"buffered"}, n <= MaxBuffered PROVE Settled(m)'
  <2>1. now = Whole(n)
    <3>1. CASE Fresh(m)
      <4>1. PICK k \in 0 .. n : Coming(m) = k + 1 .. n /\ held = Whole(k)
                                /\ m \notin DOMAIN thread.messages
        BY <1>3, <1>7, <3>1 DEF Fresh
      <4>2. k = n
        <5>1. k \in Nat /\ k <= n BY <1>3, <4>1
        <5>2. ~(k < n)
          <6> SUFFICES ASSUME k < n PROVE FALSE OBVIOUS
          <6>1. n \in k + 1 .. n BY <1>3, <5>1
          <6> QED BY <1>5, <4>1, <6>1
        <5> QED BY <1>3, <5>1, <5>2
      <4>3. gained = Whole(n) /\ had = << >>
        <5>1. gained = Whole(n) BY <1>11, <1>12, <4>1, <4>2
        <5>2. had = << >> BY <1>7, <4>1 DEF Message, Unknown
        <5> QED BY <5>1, <5>2
      <4> QED BY <1>12, <1>15, <4>3, RangeSays
    <3>2. CASE Settled(m)
      <4>1. m \notin DOMAIN caches.buffer /\ had = Whole(n) BY <1>3, <1>7, <3>2 DEF Settled
      <4>2. held = << >> BY <1>7, <4>1 DEF Buffered
      <4>3. op.fallback = << >> BY <1>2, <3>2 DEF Settled
      <4> QED BY <1>11, <1>14, <4>1, <4>2, <4>3
    <3> QED BY <1>3, <1>18, <3>1, <3>2
  <2>2. \A i \in DOMAIN todo' : todo'[i].do = "flush" => todo'[i].fallback = << >>
    BY FlushOnce DEF Stays
  <2> QED BY <1>1, <1>3, <1>6, <1>7, <1>10, <2>1, <2>2 DEF Settled
<1> QED BY <1>1, <1>3, <1>17, <1>18 DEF Stays

(* ... a completion nothing, ... *)
LEMMA CompleteText ==
  ASSUME Shape, Settling, Flowing, Stays, NEW op, op = Head(todo), caches' = Memory(op),
         thread' = Dispatched(op), op.do = "complete", NEW m \in Messages, m = op.message,
         Kept(m), scope.modes = {"buffered"} /\ said[m].chunks <= MaxBuffered => Fresh(m) \/ Settled(m)
  PROVE  /\ Kept(m)'
         /\ scope.modes = {"buffered"} /\ said[m].chunks <= MaxBuffered => Settled(m)'
<1>1. caches \in Caches /\ thread \in Threads /\ said' = said BY DEF Shape, Stays
<1>2. op \in Operation /\ ~Chunky(op) /\ op = todo[1] /\ 1 \in DOMAIN todo
      /\ \A i \in DOMAIN todo' : i + 1 \in DOMAIN todo /\ todo'[i] = todo[i + 1]
  BY StaysLeft DEF Flowing, Chunky, Shape
<1>3. PICK n \in Nat : n = said[m].chunks /\ m \in Nat /\ n >= 1
  BY SaidParts DEF Flowing, SaidMore
<1>4. Silent(m) /\ m \notin DOMAIN caches.buffer
  BY <1>2 DEF Flowing, TodoAgrees, OperationAgrees
<1>5. Coming(m) = {} BY <1>2, <1>4, SilentRest DEF Flowing, Stays
<1>6. Silent(m)' /\ Coming(m)' = {} BY <1>2, <1>4, <1>5, StaysSame, StaysLeft DEF Flowing
<1>7. caches'.buffer = caches.buffer BY <1>1, <1>2, MemoryIs
<1>8. Message(m)' = [text |-> Message(m).text, state |-> "done"] BY <1>1, TextOf
<1>9. PICK had : had = Message(m).text OBVIOUS
<1>10. Message(m)'.text = had BY <1>8, <1>9
<1>11. Buffered(caches, m) = << >> /\ Buffered(caches', m) = << >> BY <1>4, <1>7 DEF Buffered
<1>12. Kept(m)' BY <1>1, <1>4, <1>5, <1>6, <1>7, <1>9, <1>10, <1>11 DEF Kept
<1>13. ~Fresh(m)
  <2> SUFFICES ASSUME Fresh(m) PROVE FALSE OBVIOUS
  <2>1. PICK k \in 0 .. n : Coming(m) = k + 1 .. n /\ << >> = Whole(k)
    BY <1>3, <1>11 DEF Fresh
  <2>2. k \in Nat /\ ~(k >= 1) BY <1>3, <2>1, WholeParts
  <2>3. n \in k + 1 .. n BY <1>3, <2>2
  <2> QED BY <1>5, <2>1, <2>3
<1>14. ASSUME Settled(m) PROVE Settled(m)'
  <2>1. \A i \in DOMAIN todo' : todo'[i].do = "flush" /\ todo'[i].message = m
                                  => todo'[i].fallback = << >>
    BY <1>2, <1>14 DEF Settled
  <2> QED BY <1>1, <1>4, <1>6, <1>7, <1>9, <1>10, <1>14, <2>1 DEF Settled
<1> QED BY <1>1, <1>3, <1>12, <1>13, <1>14 DEF Stays

(* ... and what is done for others leaves it. *)
LEMMA OtherText ==
  ASSUME Shape, Settling, Flowing, Stays, NEW op, op = Head(todo), caches' = Memory(op),
         thread' = Dispatched(op), NEW m \in Messages, Mine(m), ~said[m].plan,
         op.do \in {"delta", "flush", "complete"} => m # op.message,
         Kept(m), scope.modes = {"buffered"} /\ said[m].chunks <= MaxBuffered => Fresh(m) \/ Settled(m)
  PROVE  /\ Kept(m)'
         /\ scope.modes = {"buffered"} /\ said[m].chunks <= MaxBuffered => Fresh(m)' \/ Settled(m)'
<1>1. caches \in Caches /\ thread \in Threads /\ said' = said /\ scope' = scope BY DEF Shape, Stays
<1>2. op \in Operation /\ op = todo[1] /\ 1 \in DOMAIN todo
      /\ \A i \in DOMAIN todo' : i + 1 \in DOMAIN todo /\ todo'[i] = todo[i + 1]
  BY StaysLeft DEF Flowing, Shape
<1>3. ~(Chunky(op) /\ op.message = m) BY <1>2 DEF Flowing, TodoAgrees, OperationAgrees, Chunky
<1>4. Coming(m)' = Coming(m) BY <1>3, StaysLeft DEF Flowing
<1>5. Message(m)' = Message(m) BY <1>1, <1>2, DispatchedIs
<1>6. m \notin DOMAIN thread.messages => m \notin DOMAIN thread'.messages
  BY <1>1, <1>2, DispatchedIs
<1>7. /\ m \in DOMAIN caches'.buffer <=> m \in DOMAIN caches.buffer
      /\ Buffered(caches', m) = Buffered(caches, m)
  <2>1. CASE op.do \in {"delta", "flush"} BY <1>1, <1>2, <2>1, BufferOf
  <2>2. CASE op.do = "clear"
    <3>1. Exits BY HeadReady, <2>2 DEF Stays
    <3>2. ~Open(m) BY <3>1 DEF Settling, ExitsAlone
    <3>3. m \notin DOMAIN caches.buffer BY <3>2 DEF Open
    <3>4. DOMAIN caches'.buffer \subseteq DOMAIN caches.buffer BY <1>1, <1>2, <2>2, MemoryIs
    <3> QED BY <3>3, <3>4 DEF Buffered
  <2>3. CASE op.do \notin {"delta", "flush", "clear"} BY <1>1, <1>2, <2>3, MemoryIs DEF Buffered
  <2> QED BY <2>1, <2>2, <2>3
<1>8. Silent(m)' <=> Silent(m) BY StaysSame
<1>9. PICK row : row = Message(m) OBVIOUS
<1>10. Kept(m)' BY <1>1, <1>4, <1>5, <1>7, <1>8 DEF Kept
<1>11. Fresh(m) => Fresh(m)' BY <1>1, <1>4, <1>6, <1>7 DEF Fresh
<1>12. ASSUME Settled(m) PROVE Settled(m)'
  <2>1. \A i \in DOMAIN todo' : todo'[i].do = "flush" /\ todo'[i].message = m
                                  => todo'[i].fallback = << >>
    BY <1>2, <1>12 DEF Settled
  <2> QED BY <1>1, <1>4, <1>5, <1>7, <1>8, <1>12, <2>1 DEF Settled
<1> QED BY <1>1, <1>10, <1>11, <1>12

(* An operation that the thread accepts keeps every text. *)
LEMMA PerformText ==
  ASSUME Shape, Settling, Flowing, Stays, NEW op, op = Head(todo), caches' = Memory(op),
         thread' = Dispatched(op), count.failures = 0
  PROVE  TextKept'
<1>1. /\ said' = said /\ scope' = scope /\ Messages' = Messages /\ \A m : Mine(m)' <=> Mine(m)
  BY StaysSame DEF Stays
<1>2. ASSUME NEW m \in Messages, Mine(m), ~said[m].plan
      PROVE  /\ Kept(m)'
             /\ scope.modes = {"buffered"} /\ said[m].chunks <= MaxBuffered => Fresh(m)' \/ Settled(m)'
  <2>1. /\ Kept(m)
        /\ scope.modes = {"buffered"} /\ said[m].chunks <= MaxBuffered => Fresh(m) \/ Settled(m)
    BY <1>2 DEF Flowing, TextKept
  <2>2. CASE op.do = "delta" /\ m = op.message BY <1>2, <2>1, <2>2, DeltaText
  <2>3. CASE op.do = "flush" /\ m = op.message BY <1>2, <2>1, <2>3, FlushText
  <2>4. CASE op.do = "complete" /\ m = op.message BY <1>2, <2>1, <2>4, CompleteText
  <2>5. CASE op.do \in {"delta", "flush", "complete"} => m # op.message
    BY <1>2, <2>1, <2>5, OtherText
  <2> QED BY <2>2, <2>3, <2>4, <2>5
<1> QED BY <1>1, <1>2 DEF TextKept

(* A plan whose turn an operation leaves alone is kept as it was. *)
LEMMA PlanStays ==
  ASSUME Shape, Flowing, Stays, NEW op, op = Head(todo), NEW m \in Messages
  PROVE  /\ \A i \in DOMAIN todo' : todo'[i] # PlanOf(m)
         /\ op # PlanOf(m) /\ Closing(m) => Closing(m)'
         /\ op = PlanOf(m) => Len(todo) = 1 /\ op.do = "upsert"
         /\ Pieces(said[m].turn)' = Pieces(said[m].turn) /\ Coming(m)' = Coming(m)
            /\ op # PlanOf(m) /\ Flows(m) => Flows(m)'
         /\ Coming(m)' = Coming(m) /\ Proposed(m)
            /\ (LastPlan(m) => /\ Pieces(said[m].turn)' = Pieces(said[m].turn)
                               /\ said[m].turn \in DOMAIN thread'.plans
                               /\ thread'.plans[said[m].turn] = thread.plans[said[m].turn])
              => Proposed(m)'
<1>1. op = todo[1] /\ 1 \in DOMAIN todo
      /\ \A i \in DOMAIN todo' :
           i + 1 \in DOMAIN todo /\ todo'[i] = todo[i + 1] /\ Len(todo) # 1
  BY StaysLeft DEF Flowing
<1>2. /\ said' = said /\ (Silent(m)' <=> Silent(m)) /\ (Ending(m)' <=> Ending(m))
      /\ PlanOf(m)' = PlanOf(m) /\ (LastPlan(m)' <=> LastPlan(m))
  BY StaysSame DEF Stays
<1>3. \A i \in DOMAIN todo : todo[i] = PlanOf(m) => Len(todo) = 1
  BY PlanOperation DEF Flowing
<1>4. \A i \in DOMAIN todo' : todo'[i] # PlanOf(m) BY <1>1, <1>3
<1>5. ASSUME op # PlanOf(m), Closing(m) PROVE Closing(m)'
  <2>1. \A i \in DOMAIN todo : Len(todo) = 1 => i = 1 BY DEF Shape
  <2>2. \A i \in DOMAIN todo : todo[i] # PlanOf(m) BY <1>1, <1>3, <1>5, <2>1
  <2>3. Ending(m)' BY <1>2, <1>5, <2>2 DEF Closing
  <2> QED BY <2>3 DEF Closing
<1>6. op = PlanOf(m) => Len(todo) = 1 /\ op.do = "upsert" BY <1>1, <1>3 DEF PlanOf
<1>7. PICK t : t = said[m].turn OBVIOUS
<1>8. ASSUME Pieces(t)' = Pieces(t), Coming(m)' = Coming(m), op # PlanOf(m), Flows(m)
      PROVE  Flows(m)'
  <2>1. PICK k \in 1 .. said[m].chunks :
          Coming(m) = k + 1 .. said[m].chunks /\ Pieces(t) = WholePlan(m, k)
    BY <1>7, <1>8 DEF Flows
  <2>2. Closing(m)' BY <1>5, <1>8 DEF Flows
  <2>3. Pieces(said[m].turn)' = WholePlan(m, k) BY <1>2, <1>7, <1>8, <2>1 DEF Pieces
  <2> QED BY <1>2, <1>8, <2>1, <2>2, <2>3 DEF Flows
<1>9. ASSUME Coming(m)' = Coming(m), Proposed(m),
             LastPlan(m) => /\ Pieces(t)' = Pieces(t)
                            /\ t \in DOMAIN thread'.plans
                            /\ thread'.plans[t] = thread.plans[t]
      PROVE  Proposed(m)'
  BY <1>2, <1>4, <1>7, <1>9 DEF Proposed, Pieces
<1>10. Pieces(said[m].turn)' = Pieces(t)' BY <1>2, <1>7 DEF Pieces
<1> QED BY <1>4, <1>5, <1>6, <1>7, <1>8, <1>9, <1>10

(* Operations that are not of plans keep the plans. *)
LEMMA OtherPlans ==
  ASSUME Shape, Shape', Settling, Flowing, Stays, NEW op, op = Head(todo), caches' = Memory(op),
         thread' = Dispatched(op), op.do \notin {"plan", "upsert", "clear"}, PlansKept
  PROVE  PlansKept'
<1>1. /\ op = todo[1] /\ 1 \in DOMAIN todo /\ op \in Operation /\ caches \in Caches
      /\ thread \in Threads
  BY StaysLeft DEF Flowing, Shape
<1>2. /\ said' = said /\ Messages' = Messages
      /\ \A m : (Mine(m)' <=> Mine(m)) /\ (LastPlan(m)' <=> LastPlan(m))
  BY StaysSame DEF Stays
<1>3. /\ \A t : Pieces(t)' = Pieces(t)
      /\ thread'.plans = thread.plans /\ caches'.plans = caches.plans
  BY <1>1, PlansOf, MemoryIs
<1>4. ASSUME NEW m \in Messages, said[m].plan
      PROVE  /\ Coming(m)' = Coming(m) /\ op # PlanOf(m)
             /\ Pieces(said[m].turn)' = Pieces(said[m].turn)
  <2>1. op.do = "delta" => ~said[op.message].plan
    BY <1>1 DEF Flowing, TodoAgrees, OperationAgrees
  <2>2. ~(Chunky(op) /\ op.message = m) BY <1>4, <2>1 DEF Chunky
  <2>3. Pieces(said[m].turn)' = Pieces(said[m].turn) BY <1>2, <1>3 DEF Pieces
  <2> QED BY <2>2, <2>3, StaysLeft, PlanStays DEF Flowing
<1>5. ASSUME NEW m \in Messages, said[m].plan
      PROVE  /\ Coming(m) = 1 .. said[m].chunks /\ Closing(m)
                  => Coming(m)' = 1 .. said[m].chunks /\ Closing(m)'
             /\ Flows(m) => Flows(m)'
             /\ Proposed(m) => Proposed(m)'
  BY <1>3, <1>4, <1>5, PlanStays DEF Proposed
<1>6. ASSUME NEW m \in Messages, Mine(m), said[m].plan
      PROVE  \/ Coming(m)' = 1 .. said[m].chunks /\ Closing(m)'
             \/ Flows(m)' \/ Proposed(m)'
  BY <1>5, <1>6 DEF PlansKept
<1>7. ASSUME NEW t \in DOMAIN caches.plans, Pieces(t) # << >>
      PROVE  \E m \in Messages : said[m].turn = t /\ said[m].plan /\ (Mine(m) => Flows(m)')
  BY <1>5, <1>7 DEF PlansKept
<1> QED BY <1>2, <1>3, <1>6, <1>7 DEF PlansKept

(* The exit of a process clears nothing of the process the thread has. *)
LEMMA ClearPlans ==
  ASSUME Shape, Shape', Settling, Flowing, Stays, NEW op, op = Head(todo), caches' = Memory(op),
         thread' = Dispatched(op), op.do = "clear", PlansKept
  PROVE  PlansKept'
<1>1. /\ op = todo[1] /\ 1 \in DOMAIN todo /\ op \in Operation /\ caches \in Caches
      /\ thread \in Threads
  BY StaysLeft DEF Flowing, Shape
<1>2. /\ said' = said /\ Messages' = Messages /\ \A m : Mine(m)' <=> Mine(m)
  BY StaysSame DEF Stays
<1>3. \A t : Pieces(t)' = << >> BY <1>1, PlansOf
<1>4. Exits BY <1>1 DEF Exits
<1>5. ASSUME NEW m \in Messages, Mine(m), said[m].plan
      PROVE  Coming(m)' = 1 .. said[m].chunks /\ Closing(m)'
  <2>1. 1 \in Left(m) BY <1>4, <1>5 DEF Flowing, ExitsBefore, Begun
  <2>2. 1 \in Coming(m) BY <2>1 DEF Coming
  <2>3. ~Flows(m)
    <3>1. \A k \in 1 .. said[m].chunks : 1 \notin k + 1 .. said[m].chunks BY SaidParts
    <3> QED BY <2>2, <3>1 DEF Flows
  <2>4. ~Proposed(m) BY <2>2 DEF Proposed
  <2>5. Coming(m) = 1 .. said[m].chunks /\ Closing(m) BY <1>5, <2>3, <2>4 DEF PlansKept
  <2>6. op # PlanOf(m) /\ ~Chunky(op) BY DEF PlanOf, Chunky
  <2>7. Coming(m)' = Coming(m) BY <2>6, StaysLeft DEF Flowing
  <2> QED BY <2>5, <2>6, <2>7, PlanStays
<1> QED BY <1>2, <1>3, <1>5 DEF PlansKept

(* A plan is proposed, by its completion or at the end of its turn, ... *)
LEMMA UpsertPlans ==
  ASSUME Shape, Shape', Settling, Flowing, Stays, NEW op, op = Head(todo), caches' = Memory(op),
         thread' = Dispatched(op), op.do = "upsert", PlansKept
  PROVE  PlansKept'
<1>1. /\ op = todo[1] /\ 1 \in DOMAIN todo /\ op \in Operation /\ caches \in Caches
      /\ thread \in Threads /\ SaidSound /\ WaitingSound
  BY StaysLeft DEF Flowing, Shape, Settling
<1>2. /\ said' = said /\ Messages' = Messages
      /\ \A m : (Mine(m)' <=> Mine(m)) /\ (LastPlan(m)' <=> LastPlan(m))
                /\ (Silent(m)' <=> Silent(m))
  BY StaysSame DEF Stays
<1>3. PICK t : t = op.turn OBVIOUS
<1>4. /\ Pieces(t)' = << >>
      /\ \A u : u # t => Pieces(u)' = Pieces(u)
      /\ IF PlanText(op) = << >> THEN thread'.plans = thread.plans
         ELSE t \in DOMAIN thread'.plans /\ thread'.plans[t] = PlanText(op)
      /\ \A u \in DOMAIN thread.plans : u # t =>
           u \in DOMAIN thread'.plans /\ thread'.plans[u] = thread.plans[u]
  BY <1>1, <1>3, PlansOf
<1>5. ~Chunky(op) BY DEF Chunky
<1>6. \A m : Coming(m)' = Coming(m) BY <1>5, StaysLeft DEF Flowing
<1>7. \A m \in Messages : said[m].chunks \in Nat /\ said[m].chunks >= 1
  BY SaidParts DEF Flowing, SaidMore
<1>8. ASSUME NEW m \in Messages, said[m].turn # t
      PROVE  /\ op # PlanOf(m) /\ Pieces(said[m].turn)' = Pieces(said[m].turn)
             /\ Coming(m) = 1 .. said[m].chunks /\ Closing(m)
                  => Coming(m)' = 1 .. said[m].chunks /\ Closing(m)'
             /\ Flows(m) => Flows(m)'
             /\ Proposed(m) => Proposed(m)'
  <2>1. op # PlanOf(m) BY <1>3, <1>8 DEF PlanOf
  <2>2. Pieces(said[m].turn)' = Pieces(said[m].turn) BY <1>2, <1>4, <1>8 DEF Pieces
  <2>3. Proposed(m) /\ LastPlan(m) =>
          /\ said[m].turn \in DOMAIN thread'.plans
          /\ thread'.plans[said[m].turn] = thread.plans[said[m].turn]
    BY <1>4, <1>8 DEF Proposed
  <2> QED BY <1>6, <2>1, <2>2, <2>3, PlanStays
<1>9. ASSUME NEW m \in Messages, said[m].turn = t, Silent(m), LastPlan(m) =>
               /\ t \in DOMAIN thread'.plans /\ thread'.plans[t] = WholePlan(m, said[m].chunks)
      PROVE  Proposed(m)'
  <2>1. Coming(m)' = {} BY <1>5, <1>6, <1>9, SilentRest DEF Flowing, Stays
  <2>2. \A i \in DOMAIN todo' : todo'[i] # PlanOf(m)' BY StaysSame, PlanStays
  <2>3. Pieces(said[m].turn)' = << >> BY <1>2, <1>4, <1>9 DEF Pieces
  <2> QED BY <1>2, <1>9, <2>1, <2>2, <2>3 DEF Proposed
<1>10. ASSUME NEW m \in Messages, Silent(m), Flows(m)
       PROVE  /\ Pieces(said[m].turn) = WholePlan(m, said[m].chunks)
              /\ WholePlan(m, said[m].chunks) # << >>
  <2>1. Coming(m) = {} BY <1>5, <1>10, SilentRest DEF Flowing, Stays
  <2>2. PICK n \in Nat : n = said[m].chunks /\ n >= 1 BY <1>7
  <2>3. PICK k \in 1 .. n : Coming(m) = k + 1 .. n /\ Pieces(said[m].turn) = WholePlan(m, k)
    BY <1>10, <2>2 DEF Flows
  <2>4. k = n
    <3>1. k \in Nat /\ k <= n BY <2>2, <2>3
    <3>2. ~(k < n) BY <2>1, <2>2, <2>3, <3>1
    <3> QED BY <2>2, <3>1, <3>2
  <2> QED BY <2>2, <2>3, <2>4, WholePlans
<1>11. ASSUME NEW m \in Messages, Silent(m)
       PROVE  Coming(m) # 1 .. said[m].chunks
  <2>1. Coming(m) = {} BY <1>5, <1>11, SilentRest DEF Flowing, Stays
  <2>2. 1 \in 1 .. said[m].chunks BY <1>7
  <2> QED BY <2>1, <2>2
<1>12. ASSUME op.fallback = << >>, Over(t), NEW m \in Messages, said[m].turn = t,
              Flows(m) \/ Proposed(m)
       PROVE  Proposed(m)'
  <2>1. Silent(m) BY <1>1, <1>12, OverSilent
  <2>2. CASE Flows(m)
    <3>1. Pieces(t) = WholePlan(m, said[m].chunks) /\ WholePlan(m, said[m].chunks) # << >>
      BY <1>10, <1>12, <2>1, <2>2
    <3>2. PlanText(op) = WholePlan(m, said[m].chunks) BY <1>3, <3>1 DEF PlanText
    <3> QED BY <1>4, <1>9, <1>12, <2>1, <3>1, <3>2
  <2>3. CASE Proposed(m)
    <3>1. LastPlan(m) => /\ Pieces(t) = << >> /\ t \in DOMAIN thread.plans
                         /\ thread.plans[t] = WholePlan(m, said[m].chunks)
      BY <1>12, <2>3 DEF Proposed
    <3>2. LastPlan(m) => thread'.plans = thread.plans BY <1>3, <1>4, <1>12, <3>1 DEF PlanText
    <3> QED BY <1>9, <1>12, <2>1, <3>1, <3>2
  <2> QED BY <1>12, <2>2, <2>3
<1>13. ASSUME NEW p \in Messages, op = PlanOf(p), said[p].plan, Silent(p), Mine(p),
              NEW m \in Messages, said[m].turn = t, said[m].plan,
              \/ Coming(m) = 1 .. said[m].chunks /\ Closing(m)
              \/ Flows(m) \/ Proposed(m)
       PROVE  \/ Coming(m)' = 1 .. said[m].chunks /\ Closing(m)'
              \/ Proposed(m)'
  <2>1. ~Proposed(p) BY <1>1, <1>13 DEF Proposed
  <2>2. Flows(p) BY <1>11, <1>13, <2>1 DEF PlansKept
  <2>3. said[p].turn = t /\ op.fallback = WholePlan(p, said[p].chunks) BY <1>3, <1>13 DEF PlanOf
  <2>4. Pieces(t) = WholePlan(p, said[p].chunks) /\ WholePlan(p, said[p].chunks) # << >>
    BY <1>10, <1>13, <2>2, <2>3
  <2>5. PlanText(op) = WholePlan(p, said[p].chunks) BY <1>3, <2>4 DEF PlanText
  <2>6. CASE m = p BY <1>4, <1>9, <1>13, <2>4, <2>5, <2>6
  <2>7. CASE m # p
    <3>1. op # PlanOf(m)
      <4> SUFFICES ASSUME op = PlanOf(m) PROVE FALSE OBVIOUS
      <4>1. PlanOf(m) = [do |-> "upsert", turn |-> said[p].turn,
                         fallback |-> WholePlan(p, said[p].chunks)]
        BY <1>13 DEF PlanOf
      <4>2. said[p].turn \in Nat BY SaidParts
      <4>3. PICK k \in Nat : k = said[p].turn BY <4>2
      <4>4. PlanOf(m) = [do |-> "upsert", turn |-> k, fallback |-> WholePlan(p, said[p].chunks)]
        BY <4>1, <4>3
      <4>5. m = p BY <4>4, PlanOfOne DEF Flowing
      <4> QED BY <2>7, <4>5
    <3>2. ~Flows(m)
      <4> SUFFICES ASSUME Flows(m) PROVE FALSE OBVIOUS
      <4>1. PICK k \in 1 .. said[m].chunks : Pieces(t) = WholePlan(m, k) BY <1>13 DEF Flows
      <4>2. k \in Nat /\ k >= 1 BY <1>7
      <4>3. WholePlan(m, k)[1] = << m, 1 >> BY <4>2, WholePlans
      <4>4. PICK n \in Nat : n = said[p].chunks /\ n >= 1 BY <1>7
      <4>5. WholePlan(p, n)[1] = << p, 1 >> BY <4>4, WholePlans
      <4>6. WholePlan(m, k) = WholePlan(p, n) BY <2>4, <4>1, <4>4
      <4>7. << m, 1 >> = << p, 1 >> BY <4>3, <4>5, <4>6
      <4> QED BY <2>7, <4>7
    <3>3. CASE Coming(m) = 1 .. said[m].chunks /\ Closing(m) BY <1>6, <3>1, <3>3, PlanStays
    <3>4. CASE Proposed(m) BY <1>9, <1>13, <2>4, <3>4 DEF Proposed
    <3> QED BY <1>13, <3>2, <3>3, <3>4
  <2> QED BY <2>6, <2>7
<1>14. \/ op.fallback = << >> /\ Over(t)
       \/ \E m \in Messages : op = PlanOf(m) /\ said[m].plan /\ Silent(m)
  BY <1>1, <1>3 DEF Flowing, TodoAgrees, OperationAgrees
<1>15. ASSUME NEW m \in Messages, Mine(m), said[m].plan
       PROVE  \/ Coming(m)' = 1 .. said[m].chunks /\ Closing(m)'
              \/ Flows(m)' \/ Proposed(m)'
  <2>1. \/ Coming(m) = 1 .. said[m].chunks /\ Closing(m)
        \/ Flows(m) \/ Proposed(m)
    BY <1>15 DEF PlansKept
  <2>2. CASE said[m].turn # t BY <1>8, <2>1, <2>2
  <2>3. CASE said[m].turn = t /\ op.fallback = << >> /\ Over(t)
    <3>1. Silent(m) BY <1>1, <2>3, OverSilent
    <3>2. Flows(m) \/ Proposed(m) BY <1>11, <2>1, <3>1
    <3> QED BY <1>12, <2>3, <3>2
  <2>4. ASSUME said[m].turn = t, NEW p \in Messages, op = PlanOf(p), said[p].plan, Silent(p)
        PROVE  \/ Coming(m)' = 1 .. said[m].chunks /\ Closing(m)'
               \/ Proposed(m)'
    <3>1. said[p].turn = said[m].turn BY <1>3, <2>4 DEF PlanOf
    <3>2. Mine(p) BY <1>15, <3>1 DEF Flowing, SaidMore, Mine
    <3> QED BY <1>13, <1>15, <2>1, <2>4, <3>2
  <2> QED BY <1>14, <2>2, <2>3, <2>4
<1>16. ASSUME NEW u \in DOMAIN caches'.plans, Pieces(u)' # << >>
       PROVE  \E m \in Messages : said[m].turn = u /\ said[m].plan /\ (Mine(m) => Flows(m)')
  BY <1>4, <1>8, <1>16 DEF Pieces, PlansKept
<1> QED BY <1>2, <1>15, <1>16 DEF PlansKept

(* A plan and its next piece. *)
LEMMA WholeMore ==
  ASSUME NEW m, NEW k \in Nat
  PROVE  Append(WholePlan(m, k), << m, k + 1 >>) = WholePlan(m, k + 1)
         /\ Append(<< >>, << m, 1 >>) = WholePlan(m, 1)
<1> DEFINE T == {<< m, i >> : i \in Nat}
<1>1. WholePlan(m, k) \in Seq(T) /\ Len(WholePlan(m, k)) = k
      /\ \A i \in 1 .. k : WholePlan(m, k)[i] = << m, i >>
  BY DEF WholePlan
<1>2. WholePlan(m, k + 1) \in Seq(T) /\ Len(WholePlan(m, k + 1)) = k + 1
      /\ \A i \in 1 .. k + 1 : WholePlan(m, k + 1)[i] = << m, i >>
  BY DEF WholePlan
<1>3. << m, k + 1 >> \in T OBVIOUS
<1> HIDE DEF T
<1>4. PICK s, e : s = WholePlan(m, k) /\ e = << m, k + 1 >> OBVIOUS
<1>5. s \in Seq(T) /\ Len(s) = k /\ e \in T BY <1>1, <1>3, <1>4
<1>6. /\ Append(s, e) \in Seq(T) /\ Len(Append(s, e)) = k + 1 /\ Append(s, e)[k + 1] = e
      /\ \A i \in 1 .. k : Append(s, e)[i] = s[i]
  BY <1>5
<1>7. \A i \in 1 .. k + 1 : Append(s, e)[i] = WholePlan(m, k + 1)[i]
  <2> SUFFICES ASSUME NEW i \in 1 .. k + 1 PROVE Append(s, e)[i] = WholePlan(m, k + 1)[i]
    OBVIOUS
  <2>1. CASE i = k + 1 BY <1>2, <1>4, <1>6, <2>1
  <2>2. CASE i # k + 1
    <3>1. i \in 1 .. k BY <2>2
    <3> QED BY <1>1, <1>2, <1>4, <1>6, <3>1
  <2> QED BY <2>1, <2>2
<1>8. Append(s, e) = WholePlan(m, k + 1) BY <1>2, <1>6, <1>7
<1>9. Append(<< >>, << m, 1 >>) = << << m, 1 >> >> OBVIOUS
<1>10. WholePlan(m, 1) = << << m, 1 >> >> BY DEF WholePlan
<1> QED BY <1>4, <1>8, <1>9, <1>10

(* While a chunk of a plan is in hand no other plan of its turn is kept.   *)
LEMMA PlanAlone ==
  ASSUME Shape, Settling, Flowing, todo # << >>, NEW op, op = Head(todo), op.do = "plan",
         NEW p \in Messages, p = op.message, Mine(p),
         NEW q \in Messages, said[q].turn = said[p].turn, said[q].plan, q # p, Mine(q)
  PROVE  ~Flows(q) /\ ~(Proposed(q) /\ LastPlan(q))
<1>1. todo \in Seq(Operation) /\ op = todo[1] /\ 1 \in DOMAIN todo BY DEF Shape
<1>2. Chunky(op) /\ op.do # "upsert" BY DEF Chunky
<1>3. /\ Len(todo) = 1 /\ op.chunk \in 1 .. said[p].chunks /\ said[p].plan
      /\ \A c \in Left(p) : op.chunk < c
  BY <1>1, <1>2 DEF Flowing, TodoAgrees, OperationAgrees
<1>4. PICK c \in Nat : c = op.chunk /\ c >= 1 BY <1>3, SaidParts
<1>5. Begun(p) BY <1>3, <1>4 DEF Begun
<1>6. /\ p \in Nat /\ q \in Nat /\ Len(said) \in Nat /\ p <= Len(said) /\ p >= 1 /\ q >= 1
      /\ said[q].chunks \in Nat
  BY SaidParts
<1>7. q < p \/ p < q BY <1>6
<1>8. ASSUME p < q PROVE ~Begun(q) BY <1>1, <1>2, <1>8 DEF Flowing, Successive
<1>9. ASSUME Flows(q) PROVE FALSE
  <2>1. PICK k \in 1 .. said[q].chunks : Coming(q) = k + 1 .. said[q].chunks
    BY <1>9 DEF Flows
  <2>2. Begun(q) BY <1>6, <2>1 DEF Begun, Coming
  <2>3. q < p BY <1>7, <1>8, <2>2
  <2>4. Unspoken(q) BY <1>5, <2>3 DEF Flowing, Successive
  <2>5. \A i \in DOMAIN todo : todo[i] # PlanOf(q) BY <1>1, <1>2, <1>3 DEF PlanOf
  <2>6. Ending(q) BY <1>9, <2>5 DEF Flows, Closing
  <2>7. ~\E l \in Lines : l.type = "item" /\ l.message = q BY <2>4 DEF Unspoken, Speaks
  <2>8. codex.message # q BY <1>6, <2>3 DEF Flowing, SaidMore, None
  <2>9. p \in q + 1 .. Len(said) BY <1>6, <2>3
  <2> QED BY <2>6, <2>7, <2>8, <2>9 DEF Ending
<1>10. ASSUME Proposed(q), LastPlan(q) PROVE FALSE
  <2>1. Begun(q) BY <1>10 DEF Proposed, Begun, Coming
  <2>2. q < p BY <1>7, <1>8, <2>1
  <2>3. p \in q + 1 .. Len(said) BY <1>6, <2>2
  <2> QED BY <1>3, <1>10, <2>3 DEF LastPlan
<1> QED BY <1>9, <1>10

(* ... and its chunks are collected until then. *)
LEMMA PlanPlans ==
  ASSUME Shape, Shape', Settling, Flowing, Stays, NEW op, op = Head(todo), caches' = Memory(op),
         thread' = Dispatched(op), op.do = "plan", PlansKept
  PROVE  PlansKept'
<1>1. /\ op = todo[1] /\ 1 \in DOMAIN todo /\ op \in Operation /\ caches \in Caches
      /\ thread \in Threads
  BY StaysLeft DEF Flowing, Shape
<1>2. /\ said' = said /\ Messages' = Messages
      /\ \A m : (Mine(m)' <=> Mine(m)) /\ (LastPlan(m)' <=> LastPlan(m))
  BY StaysSame DEF Stays
<1>3. Chunky(op) BY DEF Chunky
<1>4. PICK p \in Messages : p = op.message /\ said[p].plan /\ said[p].turn = op.turn
  BY <1>1, <1>3 DEF Flowing, TodoAgrees, OperationAgrees
<1>5. PICK t, c : t = op.turn /\ c = op.chunk OBVIOUS
<1>6. /\ Pieces(t)' = Append(Pieces(t), << p, c >>)
      /\ \A u : u # t => Pieces(u)' = Pieces(u)
      /\ thread'.plans = thread.plans
  BY <1>1, <1>4, <1>5, PlansOf
<1>7. \A m : m # p => Coming(m)' = Coming(m) BY <1>4, StaysLeft DEF Flowing
<1>8. ASSUME NEW m \in Messages
      PROVE  /\ op # PlanOf(m)
             /\ m # p /\ Coming(m) = 1 .. said[m].chunks /\ Closing(m)
                  => Coming(m)' = 1 .. said[m].chunks /\ Closing(m)'
  BY <1>7, PlanStays DEF PlanOf
<1>9. ASSUME NEW m \in Messages, said[m].turn # t
      PROVE  /\ m # p
             /\ Flows(m) => Flows(m)'
             /\ Proposed(m) => Proposed(m)'
  <2>1. m # p BY <1>4, <1>5, <1>9
  <2>2. Pieces(said[m].turn)' = Pieces(said[m].turn) BY <1>2, <1>6, <1>9 DEF Pieces
  <2>3. Proposed(m) /\ LastPlan(m) =>
          /\ said[m].turn \in DOMAIN thread'.plans
          /\ thread'.plans[said[m].turn] = thread.plans[said[m].turn]
    BY <1>6 DEF Proposed
  <2> QED BY <1>7, <1>8, <2>1, <2>2, <2>3, PlanStays
<1>10. PICK n \in Nat : n = said[p].chunks /\ n >= 1 BY <1>4, SaidParts DEF Flowing, SaidMore
<1>11. \A k \in 0 .. n : Coming(p) = k + 1 .. n =>
         c = k + 1 /\ Coming(p)' = k + 2 .. n /\ k + 1 \in 0 .. n
  <2>1. \A x, y : x = Head(todo) /\ Chunky(x) /\ x.message = y /\ y \in Messages =>
          \A j \in 0 .. said[y].chunks : Coming(y) = j + 1 .. said[y].chunks =>
            x.chunk = j + 1 /\ Coming(y)' = j + 2 .. said[y].chunks /\ j + 1 \in 0 .. said[y].chunks
    BY StaysRest DEF Flowing
  <2> QED BY <1>3, <1>4, <1>5, <1>10, <2>1
<1>12. c \in Coming(p) BY <1>3, <1>4, <1>5, StaysLeft DEF Flowing
<1>13. ASSUME NEW q \in Messages, Mine(p), said[q].turn = t, said[q].plan, q # p
       PROVE  Mine(q) /\ ~Flows(q) /\ ~(Proposed(q) /\ LastPlan(q))
  BY <1>4, <1>5, <1>13, PlanAlone DEF Flowing, SaidMore, Mine, Stays
<1>14. ASSUME NEW k \in 0 .. n, Coming(p) = k + 1 .. n, Closing(p),
              Pieces(t) = IF k = 0 THEN << >> ELSE WholePlan(p, k)
       PROVE  Flows(p)'
  <2>1. c = k + 1 /\ Coming(p)' = k + 2 .. n /\ k + 1 \in 0 .. n BY <1>11, <1>14
  <2>2. Pieces(t)' = WholePlan(p, k + 1)
    <3>1. k \in Nat BY <1>10
    <3>2. Append(WholePlan(p, k), << p, k + 1 >>) = WholePlan(p, k + 1)
          /\ Append(<< >>, << p, 1 >>) = WholePlan(p, 1)
      BY <3>1, WholeMore
    <3>3. CASE k = 0
      <4>1. k + 1 = 1 BY <3>3
      <4> QED BY <1>6, <1>14, <2>1, <3>2, <3>3, <4>1
    <3>4. CASE k # 0 BY <1>6, <1>14, <2>1, <3>2, <3>4
    <3> QED BY <3>3, <3>4
  <2>3. PICK j : j = k + 1 OBVIOUS
  <2>4. j \in 1 .. n /\ Coming(p)' = j + 1 .. n BY <1>10, <2>1, <2>3
  <2>5. Closing(p)' BY <1>8, <1>14, PlanStays
  <2>6. Pieces(said[p].turn)' = WholePlan(p, j)
    <3>1. said'[p].turn = t BY <1>2, <1>4, <1>5
    <3> QED BY <2>2, <2>3, <3>1 DEF Pieces
  <2> QED BY <1>2, <1>10, <2>4, <2>5, <2>6 DEF Flows
<1>15. ASSUME Mine(p) PROVE Flows(p)'
  <2>1. ~Proposed(p) BY <1>12 DEF Proposed
  <2>2. CASE Coming(p) = 1 .. n /\ Closing(p)
    <3>1. Pieces(t) = << >>
      <4> SUFFICES ASSUME Pieces(t) # << >> PROVE FALSE OBVIOUS
      <4>1. t \in DOMAIN caches.plans BY DEF Pieces
      <4>2. PICK q \in Messages : said[q].turn = t /\ said[q].plan /\ (Mine(q) => Flows(q))
        BY <4>1 DEF PlansKept
      <4>3. q = p BY <1>13, <1>15, <4>2
      <4>4. Flows(p) BY <1>15, <4>2, <4>3
      <4>5. PICK k \in 1 .. n : Coming(p) = k + 1 .. n BY <1>10, <4>4 DEF Flows
      <4>6. 1 \in Coming(p) /\ 1 \notin Coming(p) BY <1>10, <2>2, <4>5
      <4> QED BY <4>6
    <3>2. PICK k : k = 0 OBVIOUS
    <3>3. k \in 0 .. n /\ Coming(p) = k + 1 .. n BY <1>10, <2>2, <3>2
    <3> QED BY <1>14, <2>2, <3>1, <3>2, <3>3
  <2>3. CASE Flows(p)
    <3>1. PICK k \in 1 .. n : Coming(p) = k + 1 .. n /\ Pieces(said[p].turn) = WholePlan(p, k)
      BY <1>10, <2>3 DEF Flows
    <3>2. k \in 0 .. n /\ k # 0 BY <1>10, <3>1
    <3>3. Closing(p) BY <2>3 DEF Flows
    <3> QED BY <1>4, <1>5, <1>14, <3>1, <3>2, <3>3
  <2> QED BY <1>4, <1>10, <1>15, <2>1, <2>2, <2>3 DEF PlansKept
<1>16. ASSUME NEW m \in Messages, Mine(m), said[m].plan
       PROVE  \/ Coming(m)' = 1 .. said[m].chunks /\ Closing(m)'
              \/ Flows(m)' \/ Proposed(m)'
  <2>1. \/ Coming(m) = 1 .. said[m].chunks /\ Closing(m)
        \/ Flows(m) \/ Proposed(m)
    BY <1>16 DEF PlansKept
  <2>2. CASE said[m].turn # t BY <1>8, <1>9, <2>1, <2>2
  <2>3. CASE m = p BY <1>15, <1>16, <2>3
  <2>4. CASE said[m].turn = t /\ m # p
    <3>1. Mine(p) BY <1>4, <1>5, <1>16, <2>4 DEF Flowing, SaidMore, Mine
    <3>2. ~Flows(m) /\ ~(Proposed(m) /\ LastPlan(m)) BY <1>13, <1>16, <2>4, <3>1
    <3>3. CASE Coming(m) = 1 .. said[m].chunks /\ Closing(m) BY <1>8, <2>4, <3>3
    <3>4. CASE Proposed(m)
      <4>1. Proposed(m)' BY <1>7, <2>4, <3>2, <3>4, PlanStays
      <4> QED BY <4>1
    <3> QED BY <2>1, <3>2, <3>3, <3>4
  <2> QED BY <2>2, <2>3, <2>4
<1>17. ASSUME NEW u \in DOMAIN caches'.plans, Pieces(u)' # << >>
       PROVE  \E m \in Messages : said[m].turn = u /\ said[m].plan /\ (Mine(m) => Flows(m)')
  <2>1. CASE u = t BY <1>4, <1>5, <1>15, <2>1
  <2>2. CASE u # t BY <1>6, <1>9, <1>17, <2>2 DEF Pieces, PlansKept
  <2> QED BY <2>1, <2>2
<1> QED BY <1>2, <1>16, <1>17 DEF PlansKept

(* An operation keeps what flows, ... *)
LEMMA StaysFlows ==
  ASSUME Shape, Shape', Settling, Flowing, Stays, NEW op, op = Head(todo), caches' = Memory(op),
         thread' = Dispatched(op) \/ thread' = thread, count'.turns = count.turns,
         count'.failures = 0 => count.failures = 0 /\ thread' = Dispatched(op)
  PROVE  Flowing'
<1>1. op \in Operation /\ op = todo[1] /\ 1 \in DOMAIN todo BY StaysLeft DEF Flowing
<1>2. caches \in Caches BY DEF Shape
<1>3. caches'.mode = IF op.do = "mode" THEN op.mode ELSE caches.mode BY <1>1, <1>2, ModeOf
<1>4. op.do = "flush" => op.message \notin DOMAIN caches'.buffer BY <1>1, <1>2, BufferOf
<1>5. \A t : Over(t) => Over(t)' BY OperationMoves DEF Stays
<1>6. TodoAgrees' BY <1>4, <1>5, StaysTodo
<1>7. /\ SaidMore' /\ LinesAgree' /\ InSequence' /\ ModesSound'
      /\ Remaining' /\ Successive' /\ ExitsBefore'
  BY <1>3, StaysKeeps
<1>8. Written' BY StaysWritten
<1>9. ASSUME count'.failures = 0 PROVE TextKept' /\ PlansKept'
  <2>1. count.failures = 0 /\ thread' = Dispatched(op) BY <1>9
  <2>2. PlansKept BY <2>1 DEF Flowing
  <2>3. TextKept' BY <2>1, PerformText
  <2>4. PlansKept'
    <3>1. CASE op.do = "plan" BY <2>1, <2>2, <3>1, PlanPlans
    <3>2. CASE op.do = "upsert" BY <2>1, <2>2, <3>2, UpsertPlans
    <3>3. CASE op.do = "clear" BY <2>1, <2>2, <3>3, ClearPlans
    <3>4. CASE op.do \notin {"plan", "upsert", "clear"} BY <2>1, <2>2, <3>4, OtherPlans
    <3> QED BY <3>1, <3>2, <3>3, <3>4
  <2> QED BY <2>3, <2>4
<1> QED BY <1>6, <1>7, <1>8, <1>9 DEF Flowing

(* ... whether its command is accepted or fails. *)
LEMMA PerformFlows ==
  ASSUME Shape, Shape', Settling, Flowing, Perform \/ DispatchFails
  PROVE  Flowing'
<1>1. PICK op : op = Head(todo) OBVIOUS
<1>2. count \in Counts /\ count.failures \in Nat BY DEF Shape, Counts
<1>3. CASE Perform BY <1>1, <1>3, StaysFlows DEF Perform, codexVars, managerVars, Stays
<1>4. CASE DispatchFails
  <2>1. /\ Stays /\ caches' = Memory(op) /\ thread' = thread /\ Bump("failures")
    BY <1>1, <1>4 DEF DispatchFails, codexVars, managerVars, Stays
  <2>2. count'.turns = count.turns /\ count'.failures = count.failures + 1
    BY <1>2, <2>1 DEF Bump, Counts
  <2>3. count'.failures # 0 BY <1>2, <2>2
  <2> QED BY <1>1, <2>1, <2>2, <2>3, StaysFlows
<1> QED BY <1>3, <1>4

(* Flowing is an invariant. *)
LEMMA FlowsInit == Init => Flowing
<1> SUFFICES ASSUME Init PROVE Flowing OBVIOUS
<1>1. /\ events = << >> /\ pipe = << << >> >> /\ said = << >> /\ todo = << >>
      /\ codex = [process |-> 1, alive |-> TRUE, turn |-> None, message |-> None, waiting |-> None]
      /\ caches = [mode |-> "buffered", buffer |-> << >>, ids |-> << >>, plans |-> << >>]
      /\ thread = [messages |-> << >>, plans |-> << >>, activities |-> << >>, status |-> "ready"]
  BY DEF Init, NewProcess
<1>2. Waiting = {} BY <1>1 DEF Processes, Waiting
<1>3. Messages = {} /\ Lines = {} BY <1>1, <1>2 DEF Messages, Lines
<1>4. /\ codex.message = None /\ caches.mode = "buffered" /\ DOMAIN caches.ids = {}
      /\ DOMAIN caches.buffer = {} /\ DOMAIN caches.plans = {}
      /\ DOMAIN thread.messages = {} /\ DOMAIN todo = {}
  BY <1>1
<1>5. SaidMore /\ LinesAgree /\ InSequence BY <1>2, <1>3, <1>4 DEF SaidMore, LinesAgree, InSequence
<1>6. TodoAgrees /\ ModesSound /\ Written BY <1>3, <1>4 DEF TodoAgrees, ModesSound, Written
<1>7. Remaining /\ Successive /\ ExitsBefore BY <1>3 DEF Remaining, Successive, ExitsBefore
<1>8. TextKept /\ PlansKept BY <1>3, <1>4 DEF TextKept, PlansKept
<1> QED BY <1>5, <1>6, <1>7, <1>8 DEF Flowing

LEMMA FlowsStep ==
  ASSUME Shape, Shape', Settling, Settling', Flowing, [Next]_vars
  PROVE  Flowing'
<1>1. CASE StartTurn \/ OtherTurn \/ Begin \/ Say \/ EndMessage \/ EndTurn \/ Ask \/ Die
  BY <1>1, SayFlows
<1>2. CASE Manager BY <1>2, ManagerFlows DEF Manager
<1>3. CASE Take BY <1>3, TakeFlows
<1>4. CASE Perform \/ DispatchFails BY <1>4, PerformFlows
<1>5. CASE User BY <1>5, UserFlows DEF User
<1>6. CASE TakeAnswer BY <1>6, AnswerFlows
<1>7. CASE TakeStop BY <1>7, StopFlows
<1>8. CASE UNCHANGED vars
  <2>1. /\ UNCHANGED << said, codex, pipe, session, events, count >> /\ Aside
    BY <1>8 DEF vars, codexVars, managerVars, ingestionVars, Aside
  <2>2. SaidSound /\ count.turns \in Nat BY DEF Settling, Shape, Counts
  <2>3. Processes' = Processes BY <2>1 DEF Processes
  <2>4. MoreSaid BY <2>1, <2>2, <2>3, SameSaid
  <2> QED BY <2>1, <2>4, RestFlows
<1> QED BY <1>1, <1>2, <1>3, <1>4, <1>5, <1>6, <1>7, <1>8
        DEF Next, Codex, Manager, Ingestion, User, Reactor

(* MessagesComplete: a message the thread shows as complete has every      *)
(* chunk that codex said of it; buffered throughout and never spilled, it  *)
(* has them in order and once.                                             *)
THEOREM MessagesCompleteHolds == Spec => []MessagesComplete
<1>1. Init => Shape /\ Settling /\ Flowing BY ShapeInit, SettlesInit, FlowsInit
<1>2. Shape /\ Settling /\ Flowing /\ [Next]_vars => (Shape /\ Settling /\ Flowing)'
  BY ShapeStep, SettlesStep, FlowsStep
<1>3. Flowing => MessagesComplete
  <2> SUFFICES ASSUME Flowing, count.failures = 0,
                      NEW m \in Messages, Lives(m), Message(m).state = "done"
               PROVE  /\ Range(Message(m).text) = 1 .. said[m].chunks
                      /\ scope.modes = {"buffered"} /\ said[m].chunks <= MaxBuffered
                           => Message(m).text = Whole(said[m].chunks)
    BY DEF MessagesComplete
  <2>1. m \in DOMAIN thread.messages BY DEF Unknown, Message
  <2>2. Mine(m) /\ ~said[m].plan BY <2>1 DEF Lives, Mine, Flowing, Written
  <2>3. /\ Kept(m)
        /\ scope.modes = {"buffered"} /\ said[m].chunks <= MaxBuffered => Fresh(m) \/ Settled(m)
    BY <2>2 DEF Flowing, TextKept
  <2>4. Coming(m) = {} /\ m \notin DOMAIN caches.buffer BY <2>3 DEF Kept
  <2>5. Range(Buffered(caches, m)) = {} BY <2>4 DEF Buffered, Range
  <2>6. Range(Message(m).text) = 1 .. said[m].chunks BY <2>3, <2>4, <2>5 DEF Kept
  <2>7. ~Fresh(m) BY <2>1 DEF Fresh
  <2> QED BY <2>3, <2>6, <2>7 DEF Settled
<1> QED BY <1>1, <1>2, <1>3, PTL DEF Spec

(* PlanKept: the plan a turn shows when it is over is the last one codex   *)
(* proposed, complete.                                                     *)
THEOREM PlanKeptHolds == Spec => []PlanKept
<1>1. Init => Shape /\ Settling /\ Flowing BY ShapeInit, SettlesInit, FlowsInit
<1>2. Shape /\ Settling /\ Flowing /\ [Next]_vars => (Shape /\ Settling /\ Flowing)'
  BY ShapeStep, SettlesStep, FlowsStep
<1>3. Shape /\ Settling /\ Flowing => PlanKept
  <2> SUFFICES ASSUME Shape, Settling, Flowing, count.failures = 0, todo = << >>,
                      NEW m \in Messages, Lives(m), LastPlan(m), said[m].turn \in finished
               PROVE  /\ said[m].turn \in DOMAIN thread.plans
                      /\ thread.plans[said[m].turn] = WholePlan(m, said[m].chunks)
    BY DEF PlanKept
  <2>1. PICK t : t = said[m].turn OBVIOUS
  <2>2. SaidSound /\ WaitingSound /\ FinishedOver /\ said[m].chunks \in Nat /\ said[m].chunks >= 1
    BY SaidParts DEF Settling, Flowing, SaidMore
  <2>3. Over(t) /\ t \notin DOMAIN caches.plans BY <2>1, <2>2 DEF FinishedOver
  <2>4. Silent(m) BY <2>1, <2>2, <2>3, OverSilent
  <2>5. Coming(m) = {}
    <3>1. DOMAIN todo = {} OBVIOUS
    <3>2. Left(m) = {} BY <2>4 DEF Left, Silent, Unspoken, Speaks
    <3> QED BY <3>1, <3>2 DEF Coming, InHand
  <2>6. 1 .. said[m].chunks # {} BY <2>2
  <2>7. ~Flows(m) BY <2>1, <2>2, <2>3 DEF Pieces, WholePlan, Flows
  <2>8. Mine(m) /\ said[m].plan BY DEF Lives, Mine, LastPlan
  <2>9. Proposed(m) BY <2>5, <2>6, <2>7, <2>8 DEF Flowing, PlansKept
  <2> QED BY <2>9 DEF Proposed
<1> QED BY <1>1, <1>2, <1>3, PTL DEF Spec

=============================================================================
