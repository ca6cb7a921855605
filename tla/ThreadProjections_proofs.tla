---------------------- MODULE ThreadProjections_proofs ----------------------
(***************************************************************************)
(* Proofs about the projections of a thread, for any number of turns,      *)
(* messages, requests and commands: first the turn and approval rows, then *)
(* filtered lists, and with them the checkpoints in memory and the revert. *)
(***************************************************************************)
EXTENDS ThreadProjections, FiniteSetTheorems, TLAPS

(* The part of TypeOK that the turn rows need. *)
TurnTable ==
  /\ DOMAIN turns \subseteq Turns
  /\ \A t \in DOMAIN turns : turns[t] \in TurnRow
  /\ pendingStart \in UserMessages \cup {NoMessage}

(* Only messages sent to start a turn are starters, and the pending one    *)
(* has not been used.                                                      *)
StartersRequested ==
  /\ pendingStart # NoMessage => pendingStart \in requested
  /\ \A t \in DOMAIN turns : turns[t].starter # NoMessage => turns[t].starter \in requested

IInv == TurnTable /\ StartersRequested /\ TurnCountsUnique /\ StartedOnce

-----------------------------------------------------------------------------
(* What the actions do to the turn rows, as far as the invariant goes.     *)

(* No row gets a count or a starter. *)
RowsKept ==
  /\ pendingStart' = pendingStart \/ pendingStart' = NoMessage
  /\ \A t \in DOMAIN turns' :
       IF t \in DOMAIN turns
       THEN turns'[t].count = turns[t].count /\ turns'[t].starter = turns[t].starter
       ELSE turns'[t].count = NoCount /\ turns'[t].starter = NoMessage

(* Actions that only keep rows, or drop some, preserve the invariant. *)
LEMMA KeptRowsPreserve ==
  ASSUME IInv, TurnTable', RowsKept, requested' = requested
  PROVE  IInv'
<1>1. StartersRequested'
  BY DEF IInv, StartersRequested, RowsKept, TurnTable
<1>2. TurnCountsUnique'
  BY DEF IInv, TurnCountsUnique, RowsKept
<1>3. StartedOnce'
  BY DEF IInv, StartedOnce, RowsKept, StartersRequested
<1> QED BY <1>1, <1>2, <1>3 DEF IInv

(* A message that is sent may open a turn row or settle one. *)
LEMMA SendMessageKeepsRows ==
  ASSUME IInv, NEW m \in Messages, NEW t \in Turns \cup {NoTurn}, NEW streaming \in BOOLEAN,
         SendMessage(m, t, streaming)
  PROVE  /\ DOMAIN turns' \subseteq Turns
         /\ \A u \in DOMAIN turns' : turns'[u] \in TurnRow
         /\ \A u \in DOMAIN turns' :
              IF u \in DOMAIN turns
              THEN turns'[u].count = turns[u].count /\ turns'[u].starter = turns[u].starter
              ELSE turns'[u].count = NoCount /\ turns'[u].starter = NoMessage
<1>1. CASE m \in AssistantMessages /\ t # NoTurn
  <2>1. turns' = Upsert(turns, t, TurnAfterMessage(m, t, streaming))
    BY <1>1 DEF SendMessage
  <2>2. t \in DOMAIN turns =>
          LET row == TurnAfterMessage(m, t, streaming)
          IN row \in TurnRow /\ row.count = turns[t].count /\ row.starter = turns[t].starter
    BY <1>1 DEF TurnAfterMessage, TurnRow, TurnState, IInv, TurnTable
  <2>3. t \notin DOMAIN turns =>
          LET row == TurnAfterMessage(m, t, streaming)
          IN row \in TurnRow /\ row.count = NoCount /\ row.starter = NoMessage
    BY <1>1 DEF TurnAfterMessage, TurnRow, TurnState
  <2> QED BY <1>1, <2>1, <2>2, <2>3 DEF Upsert, IInv, TurnTable
<1>2. CASE ~(m \in AssistantMessages /\ t # NoTurn)
  BY <1>2 DEF SendMessage, IInv, TurnTable
<1> QED BY <1>1, <1>2

-----------------------------------------------------------------------------
(* A new message to start a turn replaces the pending one and is nobody's  *)
(* starter yet.                                                            *)
LEMMA TurnStartStep ==
  ASSUME IInv, NEW m \in UserMessages, TurnStart(m)
  PROVE  IInv'
<1>1. /\ DOMAIN turns' \subseteq Turns
      /\ \A u \in DOMAIN turns' : turns'[u] \in TurnRow
      /\ \A u \in DOMAIN turns' :
           IF u \in DOMAIN turns
           THEN turns'[u].count = turns[u].count /\ turns'[u].starter = turns[u].starter
           ELSE turns'[u].count = NoCount /\ turns'[u].starter = NoMessage
  BY SendMessageKeepsRows DEF TurnStart, Messages
<1>2. pendingStart' = m /\ requested' = requested \cup {m} /\ m \notin requested
  BY DEF TurnStart
<1>3. TurnTable'
  BY <1>1, <1>2 DEF TurnTable
<1>4. StartersRequested'
  BY <1>1, <1>2 DEF StartersRequested, IInv
<1>5. TurnCountsUnique'
  BY <1>1 DEF TurnCountsUnique, IInv
<1>6. StartedOnce'
  BY <1>1, <1>2 DEF StartedOnce, StartersRequested, IInv
<1> QED BY <1>3, <1>4, <1>5, <1>6 DEF IInv

(* The turn that runs takes the pending message, which is used up. *)
LEMMA SessionRunningStep ==
  ASSUME IInv, NEW t \in Turns, SessionRunning(t)
  PROVE  IInv'
<1>1. /\ turns' = Upsert(turns, t, TurnAfterSession(t))
      /\ pendingStart' = NoMessage /\ requested' = requested
  BY DEF SessionRunning
<1>2. /\ TurnAfterSession(t) \in TurnRow
      /\ TurnAfterSession(t).count = IF t \in DOMAIN turns THEN turns[t].count ELSE NoCount
      /\ TurnAfterSession(t).starter =
           IF t \in DOMAIN turns /\ turns[t].starter # NoMessage THEN turns[t].starter
           ELSE pendingStart
  BY DEF TurnAfterSession, TurnRow, TurnState, IInv, TurnTable
<1>3. TurnTable'
  BY <1>1, <1>2 DEF Upsert, TurnTable, IInv
<1>4. StartersRequested'
  BY <1>1, <1>2 DEF Upsert, StartersRequested, IInv
<1>5. TurnCountsUnique'
  BY <1>1, <1>2 DEF Upsert, TurnCountsUnique, IInv
<1>6. StartedOnce'
  <2>1. SUFFICES ASSUME NEW u \in DOMAIN turns', NEW v \in DOMAIN turns',
                        turns'[u].starter # NoMessage, turns'[v].starter = turns'[u].starter
                 PROVE  v = u
    BY <1>1 DEF StartedOnce
  <2>2. ASSUME NEW x \in DOMAIN turns', x # t
        PROVE  x \in DOMAIN turns /\ turns'[x] = turns[x]
    BY <1>1, <2>2 DEF Upsert
  <2>3. turns'[t] = TurnAfterSession(t)
    BY <1>1 DEF Upsert
  <2>4. CASE u # t /\ v # t
    BY <2>1, <2>2, <2>4 DEF StartedOnce, IInv
  <2>5. CASE u = t /\ v # t
    BY <1>2, <2>1, <2>2, <2>3, <2>5 DEF StartedOnce, IInv
  <2>6. CASE u # t /\ v = t
    BY <1>2, <2>1, <2>2, <2>3, <2>6 DEF StartedOnce, IInv
  <2> QED BY <2>4, <2>5, <2>6
<1> QED BY <1>3, <1>4, <1>5, <1>6 DEF IInv

(* The completed turn takes its count from whichever turn had it. *)
LEMMA DiffCompletedStep ==
  ASSUME IInv, NEW t \in Turns, NEW n \in Count, NEW failed \in BOOLEAN,
         NEW m \in AssistantMessages, DiffCompleted(t, n, failed, m)
  PROVE  IInv'
<1> DEFINE row == [state |-> IF failed THEN "error" ELSE "completed",
                   starter |-> IF t \in DOMAIN turns THEN turns[t].starter ELSE NoMessage,
                   assistant |-> m, ended |-> TRUE, count |-> n]
<1>1. /\ turns' = Upsert(ClearConflict(t, n), t, row)
      /\ pendingStart' = pendingStart /\ requested' = requested
  BY DEF DiffCompleted
<1>2. row \in TurnRow /\ row.count = n
      /\ row.starter = IF t \in DOMAIN turns THEN turns[t].starter ELSE NoMessage
  BY DEF TurnRow, TurnState, IInv, TurnTable
<1> HIDE DEF row
<1>3. DOMAIN turns' = DOMAIN turns \cup {t} /\ turns'[t] = row
  BY <1>1 DEF Upsert, ClearConflict
<1>4. ASSUME NEW u \in DOMAIN turns, u # t
      PROVE  /\ turns'[u] \in TurnRow
             /\ turns'[u].starter = turns[u].starter
             /\ turns'[u].count = IF turns[u].count = n THEN NoCount ELSE turns[u].count
  <2>1. turns'[u] = ClearConflict(t, n)[u]
    BY <1>1, <1>4 DEF Upsert, ClearConflict
  <2>2. turns[u] \in TurnRow
    BY DEF IInv, TurnTable
  <2> QED BY <1>4, <2>1, <2>2 DEF ClearConflict, TurnRow
<1>5. TurnTable'
  BY <1>1, <1>2, <1>3, <1>4 DEF TurnTable, IInv
<1>6. StartersRequested'
  BY <1>1, <1>2, <1>3, <1>4 DEF StartersRequested, IInv
<1>7. TurnCountsUnique'
  BY <1>2, <1>3, <1>4 DEF TurnCountsUnique, IInv, NoCount, Count
<1>8. StartedOnce'
  BY <1>1, <1>2, <1>3, <1>4 DEF StartedOnce, IInv
<1> QED BY <1>5, <1>6, <1>7, <1>8 DEF IInv

LEMMA InterruptStep ==
  ASSUME IInv, NEW t \in Turns, InterruptRequested(t)
  PROVE  IInv'
<1> DEFINE row == IF t \in DOMAIN turns THEN [turns[t] EXCEPT !.state = "interrupted", !.ended = TRUE]
                  ELSE [state |-> "interrupted", starter |-> NoMessage, assistant |-> NoMessage,
                        ended |-> TRUE, count |-> NoCount]
<1>1. turns' = Upsert(turns, t, row) /\ pendingStart' = pendingStart /\ requested' = requested
  BY DEF InterruptRequested
<1>2. /\ row \in TurnRow
      /\ IF t \in DOMAIN turns THEN row.count = turns[t].count /\ row.starter = turns[t].starter
         ELSE row.count = NoCount /\ row.starter = NoMessage
  BY DEF TurnRow, TurnState, IInv, TurnTable
<1> HIDE DEF row
<1>3. TurnTable' /\ RowsKept
  BY <1>1, <1>2 DEF Upsert, TurnTable, RowsKept, IInv
<1> QED BY <1>1, <1>3, KeptRowsPreserve

LEMMA RevertStep ==
  ASSUME IInv, NEW n \in Count \cup {0}, Reverted(n)
  PROVE  IInv'
<1>1. /\ turns' = KeepRows(turns, KeptTurns(turns, n))
      /\ pendingStart' = NoMessage /\ requested' = requested
  BY DEF Reverted, RevertTables
<1>2. TurnTable' /\ RowsKept
  BY <1>1 DEF KeepRows, TurnTable, RowsKept, IInv
<1> QED BY <1>1, <1>2, KeptRowsPreserve

(* The remaining actions send a message at most. *)
LEMMA MessageStep ==
  ASSUME IInv, NEW m \in Messages, NEW t \in Turns \cup {NoTurn}, NEW streaming \in BOOLEAN,
         SendMessage(m, t, streaming), pendingStart' = pendingStart, requested' = requested
  PROVE  IInv'
<1>1. TurnTable' /\ RowsKept
  BY SendMessageKeepsRows DEF TurnTable, RowsKept, IInv
<1> QED BY <1>1, KeptRowsPreserve

LEMMA UnchangedStep ==
  ASSUME IInv, UNCHANGED <<turns, pendingStart, requested>>
  PROVE  IInv'
BY DEF IInv, TurnTable, StartersRequested, TurnCountsUnique, StartedOnce

LEMMA InitIInv == Init => IInv
BY DEF Init, IInv, TurnTable, StartersRequested, TurnCountsUnique, StartedOnce

LEMMA StepIInv == IInv /\ [Next]_vars => IInv'
<1> SUFFICES ASSUME IInv, [Next]_vars PROVE IInv'
  OBVIOUS
<1>1. CASE \E m \in UserMessages : TurnStart(m)
  BY <1>1, TurnStartStep
<1>2. CASE \E m \in UserMessages, t \in Turns \cup {NoTurn} : ImportMessage(m, t)
  BY <1>2, MessageStep DEF ImportMessage, Messages
<1>3. CASE \E m \in AssistantMessages, t \in Turns \cup {NoTurn}, streaming \in BOOLEAN :
             AssistantMessage(m, t, streaming)
  BY <1>3, MessageStep DEF AssistantMessage, Messages
<1>4. CASE \E t \in Turns : SessionRunning(t) \/ InterruptRequested(t)
  BY <1>4, SessionRunningStep, InterruptStep
<1>5. CASE \E t \in Turns, n \in Count, failed \in BOOLEAN, m \in AssistantMessages :
             DiffCompleted(t, n, failed, m)
  BY <1>5, DiffCompletedStep
<1>6. CASE \E p \in Plans, t \in Turns \cup {NoTurn} : PlanUpserted(p, t)
  BY <1>6, UnchangedStep DEF PlanUpserted
<1>7. CASE \E a \in Activities, t \in Turns \cup {NoTurn}, r \in Requests \cup {NoRequest},
              resolves \in BOOLEAN : ActivityAppended(a, t, r, resolves)
  BY <1>7, UnchangedStep DEF ActivityAppended
<1>8. CASE \E r \in Requests : ApprovalResponded(r)
  BY <1>8, UnchangedStep DEF ApprovalResponded
<1>9. CASE \E n \in Count \cup {0} : Reverted(n)
  BY <1>9, RevertStep
<1>10. CASE UNCHANGED vars
  BY <1>10, UnchangedStep DEF vars, tables
<1> QED BY <1>1, <1>2, <1>3, <1>4, <1>5, <1>6, <1>7, <1>8, <1>9, <1>10 DEF Next

LEMMA InductiveInvariant == Spec => []IInv
BY InitIInv, StepIInv, PTL DEF Spec

(* Two turns never share a checkpoint turn count in the table, although    *)
(* two writers number them independently (clearCheckpointTurnConflict).    *)
THEOREM TurnCountsUniqueHolds == Spec => []TurnCountsUnique
<1>1. IInv => TurnCountsUnique
  BY DEF IInv
<1> QED BY <1>1, InductiveInvariant, PTL

(* A message starts one turn at most, and none while it is pending.        *)
THEOREM StartedOnceHolds == Spec => []StartedOnce
<1>1. IInv => StartedOnce
  BY DEF IInv
<1> QED BY <1>1, InductiveInvariant, PTL

-----------------------------------------------------------------------------
Over(state) == state \in {"completed", "error"}

(* What a step does to the state of a turn that stays. *)
StateStep(t) ==
  /\ Over(turns[t].state) => Over(turns'[t].state) \/ InterruptRequested(t)
  /\ turns[t].state = "interrupted" /\ turns'[t].state = "running" => SessionRunning(t)

LEMMA SameState ==
  ASSUME NEW t, turns'[t].state = turns[t].state
  PROVE  StateStep(t)
BY DEF StateStep, Over

LEMMA SettledStep ==
  ASSUME TurnTable, Next, NEW t \in DOMAIN turns, t \in DOMAIN turns'
  PROVE  StateStep(t)
<1>0. turns[t] \in TurnRow
  BY DEF TurnTable
<1>1. ASSUME NEW m \in Messages, NEW u \in Turns \cup {NoTurn}, NEW streaming \in BOOLEAN,
             SendMessage(m, u, streaming)
      PROVE  StateStep(t)
  <2>1. turns'[t] = turns[t] \/ turns'[t] = TurnAfterMessage(m, t, streaming)
    BY <1>1 DEF SendMessage, Upsert
  <2>2. LET new == TurnAfterMessage(m, t, streaming).state
        IN  new = turns[t].state \/ (new = "completed" /\ turns[t].state # "interrupted")
    BY <1>0 DEF TurnAfterMessage, TurnRow
  <2> QED BY <2>1, <2>2 DEF StateStep, Over
<1>2. CASE \E m \in UserMessages : TurnStart(m)
  BY <1>1, <1>2 DEF TurnStart, Messages
<1>3. CASE \E m \in UserMessages, u \in Turns \cup {NoTurn} : ImportMessage(m, u)
  BY <1>1, <1>3 DEF ImportMessage, Messages
<1>4. CASE \E m \in AssistantMessages, u \in Turns \cup {NoTurn}, streaming \in BOOLEAN :
             AssistantMessage(m, u, streaming)
  BY <1>1, <1>4 DEF AssistantMessage, Messages
<1>5. ASSUME NEW u \in Turns, SessionRunning(u)
      PROVE  StateStep(t)
  <2>1. CASE u = t
    <3>1. turns'[t] = TurnAfterSession(t)
      BY <1>5, <2>1 DEF SessionRunning, Upsert
    <3>2. Over(turns[t].state) => Over(TurnAfterSession(t).state)
      BY <1>0 DEF TurnAfterSession, TurnRow, Over
    <3> QED BY <1>5, <2>1, <3>1, <3>2 DEF StateStep
  <2>2. CASE u # t
    <3>1. turns'[t] = turns[t]
      BY <1>5, <2>2 DEF SessionRunning, Upsert
    <3> QED BY <3>1, SameState
  <2> QED BY <2>1, <2>2
<1>6. ASSUME NEW u \in Turns, InterruptRequested(u)
      PROVE  StateStep(t)
  <2>1. CASE u = t
    <3>1. turns'[t] = [turns[t] EXCEPT !.state = "interrupted", !.ended = TRUE]
      BY <1>6, <2>1 DEF InterruptRequested, Upsert
    <3>2. turns'[t].state = "interrupted"
      BY <1>0, <3>1 DEF TurnRow
    <3> QED BY <1>6, <2>1, <3>2 DEF StateStep
  <2>2. CASE u # t
    <3>1. turns'[t] = turns[t]
      BY <1>6, <2>2 DEF InterruptRequested, Upsert
    <3> QED BY <3>1, SameState
  <2> QED BY <2>1, <2>2
<1>7. ASSUME NEW u \in Turns, NEW n \in Count, NEW failed \in BOOLEAN,
             NEW m \in AssistantMessages, DiffCompleted(u, n, failed, m)
      PROVE  StateStep(t)
  <2>1. ClearConflict(u, n)[t].state = turns[t].state
    BY <1>0 DEF ClearConflict, TurnRow
  <2>2. Over(turns'[t].state) \/ turns'[t].state = turns[t].state
    BY <1>7, <2>1 DEF DiffCompleted, Upsert, ClearConflict, Over
  <2> QED BY <2>2 DEF StateStep, Over
<1>8. CASE \E n \in Count \cup {0} : Reverted(n)
  <2>1. turns'[t] = turns[t]
    BY <1>8 DEF Reverted, RevertTables, KeepRows
  <2> QED BY <2>1, SameState
<1>9. ASSUME UNCHANGED turns
      PROVE  StateStep(t)
  BY <1>9, SameState
<1> QED BY <1>2, <1>3, <1>4, <1>5, <1>6, <1>7, <1>8, <1>9
        DEF Next, PlanUpserted, ActivityAppended, ApprovalResponded

(* A turn that was shown as completed or failed stays so, in whatever order *)
(* the reports about it are projected, until a request to interrupt names  *)
(* it; and only a session shows an interrupted turn as running again.      *)
THEOREM SettledStaysSettledHolds == Spec => SettledStaysSettled
<1>1. IInv /\ [Next]_vars =>
        [\A t \in DOMAIN turns \cap DOMAIN turns' :
           /\ turns[t].state \in {"completed", "error"} =>
                turns'[t].state \in {"completed", "error"} \/ InterruptRequested(t)
           /\ turns[t].state = "interrupted" /\ turns'[t].state = "running" =>
                SessionRunning(t)]_vars
  BY SettledStep DEF IInv, StateStep, Over
<1> QED BY <1>1, InductiveInvariant, PTL DEF Spec, SettledStaysSettled

(* An answered request stays answered: rows of projection_pending_approvals *)
(* are never dropped and never reopened by a late activity.                *)
THEOREM AnsweredStaysAnsweredHolds == Spec => AnsweredStaysAnswered
<1> DEFINE Answered(s) == s \in DOMAIN approvals' /\ (IsResolved(s) => IsResolved(s)')
<1>1. ASSUME NEW r \in Requests, NEW row, NEW s \in DOMAIN approvals,
             approvals' = Upsert(approvals, r, row),
             IsResolved(r) => row.status = "resolved"
      PROVE  Answered(s)
  BY <1>1 DEF Upsert, IsResolved
<1>2. ASSUME NEW r, NEW t PROVE Resolved(r, t).status = "resolved"
  BY DEF Resolved
<1>3. ASSUME Next, NEW s \in DOMAIN approvals
      PROVE  Answered(s)
  <2>1. CASE \E a \in Activities, t \in Turns \cup {NoTurn}, r \in Requests \cup {NoRequest},
                resolves \in BOOLEAN : ActivityAppended(a, t, r, resolves)
    <3>1. PICK a \in Activities, t \in Turns \cup {NoTurn}, r \in Requests \cup {NoRequest},
               resolves \in BOOLEAN : ActivityAppended(a, t, r, resolves)
      BY <2>1
    <3>2. CASE r = NoRequest
      BY <3>1, <3>2 DEF ActivityAppended, IsResolved
    <3>3. CASE r \in Requests /\ r # NoRequest
      <4>1. approvals' = Upsert(approvals, r, ApprovalAfterActivity(r, t, resolves))
        BY <3>1, <3>3 DEF ActivityAppended
      <4>2. IsResolved(r) => ApprovalAfterActivity(r, t, resolves).status = "resolved"
        BY <1>2 DEF ApprovalAfterActivity, IsResolved
      <4> QED BY <1>1, <3>3, <4>1, <4>2
    <3> QED BY <3>2, <3>3
  <2>2. CASE \E r \in Requests : ApprovalResponded(r)
    BY <1>1, <1>2, <2>2 DEF ApprovalResponded
  <2>3. ASSUME UNCHANGED approvals
        PROVE  Answered(s)
    BY <2>3 DEF IsResolved
  <2> QED BY <1>3, <2>1, <2>2, <2>3 DEF Next, TurnStart, ImportMessage, AssistantMessage,
             SessionRunning, InterruptRequested, DiffCompleted, PlanUpserted, Reverted, RevertTables
<1>4. [Next]_vars =>
        [\A r \in DOMAIN approvals : r \in DOMAIN approvals' /\ (IsResolved(r) => IsResolved(r)')]_vars
  BY <1>3
<1> QED BY <1>4, PTL DEF Spec, AnsweredStaysAnswered

-----------------------------------------------------------------------------
(* Filtered lists. *)

(* Every set of numbers has a least one. *)
LEMMA LeastNat ==
  ASSUME NEW S \in SUBSET Nat, S # {}
  PROVE  \E m \in S : \A k \in S : m <= k
<1> DEFINE T == {0 .. n : n \in S}
<1>1. T \subseteq FiniteSubsetsOf(Nat)
  <2> SUFFICES ASSUME NEW n \in S PROVE 0 .. n \in SUBSET Nat /\ IsFiniteSet(0 .. n)
    BY Zenon DEF FiniteSubsetsOf
  <2> QED BY FS_Interval, SMT
<1>2. T # {} OBVIOUS
<1>3. IsWellFoundedOn(StrictSubsetOrdering(Nat), FiniteSubsetsOf(Nat))
  BY FS_StrictSubsetOrderingWellFounded
<1>4. \E x \in T : \A y \in T : <<y, x>> \notin StrictSubsetOrdering(Nat)
  BY <1>1, <1>2, <1>3, WFMin
<1>5. PICK m \in S : \A k \in S : <<0 .. k, 0 .. m>> \notin StrictSubsetOrdering(Nat)
  BY <1>4
<1> SUFFICES ASSUME NEW k \in S, k < m PROVE FALSE OBVIOUS
<1>6. <<0 .. k, 0 .. m>> \in StrictSubsetOrdering(Nat) BY DEF StrictSubsetOrdering
<1> QED BY <1>5, <1>6

(* Induction, for a property that is given by the set of its numbers. *)
LEMMA Induction ==
  ASSUME NEW S, 0 \in S, \A n \in Nat : n \in S => n + 1 \in S
  PROVE  Nat \subseteq S
<1> SUFFICES ASSUME Nat \ S # {} PROVE FALSE OBVIOUS
<1>1. PICK m \in Nat \ S : \A k \in Nat \ S : m <= k BY LeastNat
<1> QED BY <1>1

(* The lists a filter builds up, place by place. *)
KeepNext(list, places, n, before) ==
  IF n \in places THEN Append(before, list[n]) ELSE before

Keeps(list, places, m, g) ==
  g = [n \in 0 .. m |-> IF n = 0 THEN << >> ELSE KeepNext(list, places, n, g[n - 1])]

(* They exist for every length, by induction. *)
LEMMA KeepsExists ==
  ASSUME NEW list, NEW places
  PROVE  \A m \in Nat : \E g : Keeps(list, places, m, g)
<1> DEFINE S == {m \in Nat : \E g : Keeps(list, places, m, g)}
<1>1. 0 \in S
  <2>1. Keeps(list, places, 0, [n \in 0 .. 0 |-> << >>]) BY DEF Keeps
  <2> QED BY <2>1
<1>2. ASSUME NEW m \in Nat, m \in S PROVE m + 1 \in S
  <2>1. PICK g : Keeps(list, places, m, g) BY <1>2
  <2> DEFINE last == KeepNext(list, places, m + 1, g[m])
             h == [n \in 0 .. m + 1 |-> IF n = m + 1 THEN last ELSE g[n]]
  <2>2. ASSUME NEW n \in 0 .. m + 1
        PROVE  h[n] = IF n = 0 THEN << >> ELSE KeepNext(list, places, n, h[n - 1])
    <3>1. CASE n = m + 1
      <4>1. h[n - 1] = g[m] BY <3>1
      <4> QED BY <3>1, <4>1
    <3>2. CASE n \in 0 .. m /\ n # 0
      <4>1. g[n] = KeepNext(list, places, n, g[n - 1]) BY <2>1, <3>2 DEF Keeps
      <4>2. h[n] = g[n] /\ h[n - 1] = g[n - 1] BY <3>2
      <4> QED BY <3>2, <4>1, <4>2
    <3>3. CASE n = 0 BY <2>1, <3>3 DEF Keeps
    <3> QED BY <3>1, <3>2, <3>3
  <2> DEFINE goal == [n \in 0 .. m + 1 |-> IF n = 0 THEN << >> ELSE KeepNext(list, places, n, h[n - 1])]
  <2>3. h = goal BY <2>2
  <2>4. Keeps(list, places, m + 1, h) BY <2>3 DEF Keeps
  <2> QED BY <2>4
<1> HIDE DEF S
<1>3. Nat \subseteq S BY <1>1, <1>2, Induction
<1> QED BY <1>3 DEF S

(* A filter goes through the list place by place. *)
LEMMA KeepEquation ==
  ASSUME NEW T, NEW list \in Seq(T), NEW places
  PROVE  \E g : /\ Keep(list, places) = g[Len(list)] /\ g[0] = << >>
               /\ \A n \in Nat : n < Len(list) => g[n + 1] = KeepNext(list, places, n + 1, g[n])
<1> DEFINE g == CHOOSE h : Keeps(list, places, Len(list), h)
<1>1. Len(list) \in Nat OBVIOUS
<1>2. Keeps(list, places, Len(list), g) BY <1>1, KeepsExists
<1>3. Keep(list, places) = g[Len(list)] BY DEF Keep, Keeps, KeepNext
<1> HIDE DEF g
<1>4. g[0] = << >> BY <1>1, <1>2 DEF Keeps
<1>5. ASSUME NEW n \in Nat, n < Len(list) PROVE g[n + 1] = KeepNext(list, places, n + 1, g[n])
  <2>1. n + 1 \in 0 .. Len(list) /\ n + 1 # 0 /\ (n + 1) - 1 = n BY <1>1, <1>5
  <2>2. g[n + 1] = KeepNext(list, places, n + 1, g[(n + 1) - 1]) BY <1>2, <2>1 DEF Keeps
  <2> QED BY <2>1, <2>2
<1> QED BY <1>3, <1>4, <1>5

(* What appending does to a list. *)
LEMMA AppendParts ==
  ASSUME NEW T, NEW s \in Seq(T), NEW e \in T
  PROVE  LET r == Append(s, e)
         IN /\ r \in Seq(T) /\ Len(r) = Len(s) + 1 /\ DOMAIN r = DOMAIN s \cup {Len(s) + 1}
            /\ r[Len(s) + 1] = e /\ \A k \in DOMAIN s : r[k] = s[k]
OBVIOUS

(* A filter keeps what stands at its places, all of it and in its order. *)
KeptFrom(list, places, n, s, f) ==
  /\ f \in [1 .. Len(s) -> {i \in places : i \in 1 .. n}]
  /\ \A k \in 1 .. Len(s) : s[k] = list[f[k]]
  /\ \A k, l \in 1 .. Len(s) : k < l => f[k] < f[l]
  /\ \A i \in 1 .. n : i \in places => \E k \in 1 .. Len(s) : f[k] = i

LEMMA KeepMap ==
  ASSUME NEW T, NEW list \in Seq(T), NEW places
  PROVE  /\ Keep(list, places) \in Seq(T)
         /\ \E f : KeptFrom(list, places, Len(list), Keep(list, places), f)
<1>1. PICK g : /\ Keep(list, places) = g[Len(list)] /\ g[0] = << >>
               /\ \A n \in Nat : n < Len(list) => g[n + 1] = KeepNext(list, places, n + 1, g[n])
  BY KeepEquation
<1> DEFINE S == {n \in Nat : n <= Len(list) =>
                   g[n] \in Seq(T) /\ \E f : KeptFrom(list, places, n, g[n], f)}
<1>2. 0 \in S
  <2>1. KeptFrom(list, places, 0, << >>, << >>) BY DEF KeptFrom
  <2>2. << >> \in Seq(T) OBVIOUS
  <2> QED BY <1>1, <2>1, <2>2
<1>3. ASSUME NEW n \in Nat, n \in S PROVE n + 1 \in S
  <2> SUFFICES ASSUME n + 1 <= Len(list)
               PROVE  g[n + 1] \in Seq(T) /\ \E f : KeptFrom(list, places, n + 1, g[n + 1], f)
    OBVIOUS
  <2>1. g[n] \in Seq(T) /\ \E f : KeptFrom(list, places, n, g[n], f) BY <1>3
  <2>2. PICK f : KeptFrom(list, places, n, g[n], f) BY <2>1
  <2>3. g[n + 1] = KeepNext(list, places, n + 1, g[n]) /\ n + 1 \in DOMAIN list BY <1>1
  <2> DEFINE s == g[n]
             L == Len(s)
  <2>4. s \in Seq(T) /\ L \in Nat BY <2>1
  <2>5. CASE n + 1 \notin places
    <3>1. g[n + 1] = s BY <2>3, <2>5 DEF KeepNext
    <3>2. KeptFrom(list, places, n + 1, s, f) BY <2>2, <2>5 DEF KeptFrom
    <3> QED BY <2>1, <3>1, <3>2
  <2>6. CASE n + 1 \in places
    <3> DEFINE r == Append(s, list[n + 1])
               h == [k \in 1 .. L + 1 |-> IF k = L + 1 THEN n + 1 ELSE f[k]]
    <3>1. g[n + 1] = r BY <2>3, <2>6 DEF KeepNext
    <3>2. /\ r \in Seq(T) /\ Len(r) = L + 1 /\ r[L + 1] = list[n + 1]
          /\ \A k \in 1 .. L : r[k] = s[k]
      BY <2>3, <2>4
    <3> HIDE DEF s, L, r
    <3>3. /\ f \in [1 .. L -> {i \in places : i \in 1 .. n}]
          /\ \A k \in 1 .. L : s[k] = list[f[k]]
          /\ \A k, l \in 1 .. L : k < l => f[k] < f[l]
          /\ \A i \in 1 .. n : i \in places => \E k \in 1 .. L : f[k] = i
      BY <2>2 DEF KeptFrom, s, L
    <3>4. h \in [1 .. Len(r) -> {i \in places : i \in 1 .. n + 1}]
      BY <2>4, <2>6, <3>2, <3>3
    <3>5. \A k \in 1 .. Len(r) : r[k] = list[h[k]] BY <2>4, <3>2, <3>3
    <3>6. \A k, l \in 1 .. Len(r) : k < l => h[k] < h[l] BY <2>4, <3>2, <3>3
    <3>7. ASSUME NEW i \in 1 .. n + 1, i \in places PROVE \E k \in 1 .. Len(r) : h[k] = i
      <4>1. CASE i = n + 1
        <5>1. L + 1 \in 1 .. Len(r) /\ h[L + 1] = i BY <2>4, <3>2, <4>1
        <5> QED BY <5>1
      <4>2. CASE i \in 1 .. n
        <5>1. PICK k \in 1 .. L : f[k] = i BY <3>3, <3>7, <4>2
        <5>2. k \in 1 .. Len(r) /\ h[k] = i BY <2>4, <3>2, <5>1
        <5> QED BY <5>2
      <4> QED BY <4>1, <4>2
    <3> HIDE DEF h
    <3>8. KeptFrom(list, places, n + 1, r, h) BY <3>4, <3>5, <3>6, <3>7 DEF KeptFrom
    <3> QED BY <3>1, <3>2, <3>8
  <2> QED BY <2>5, <2>6
<1> HIDE DEF S
<1>4. Nat \subseteq S BY <1>2, <1>3, Induction
<1>5. Len(list) \in Nat OBVIOUS
<1> QED BY <1>1, <1>4, <1>5 DEF S

(* Concatenated lists. *)
LEMMA ConcatParts ==
  ASSUME NEW T, NEW a \in Seq(T), NEW b \in Seq(T)
  PROVE  /\ a \o b \in Seq(T) /\ Len(a \o b) = Len(a) + Len(b)
         /\ \A k \in 1 .. Len(a) : (a \o b)[k] = a[k]
         /\ \A k \in 1 .. Len(b) : (a \o b)[Len(a) + k] = b[k]
OBVIOUS

(* The last elements of a list. *)
LEMMA LastOfParts ==
  ASSUME NEW T, NEW rows \in Seq(T), NEW n \in Nat
  PROVE  /\ LastOf(rows, n) \in Seq(T)
         /\ Len(rows) <= n => LastOf(rows, n) = rows
         /\ \E d \in Nat : /\ Len(rows) = Len(LastOf(rows, n)) + d
                           /\ \A k \in 1 .. Len(LastOf(rows, n)) : LastOf(rows, n)[k] = rows[k + d]
<1>1. CASE Len(rows) <= n
  <2>1. LastOf(rows, n) = rows BY <1>1 DEF LastOf
  <2>2. Len(rows) = Len(rows) + 0 /\ \A k \in 1 .. Len(rows) : rows[k] = rows[k + 0] OBVIOUS
  <2> QED BY <2>1, <2>2
<1>2. CASE ~(Len(rows) <= n)
  <2> DEFINE d == Len(rows) - n
             s == SubSeq(rows, Len(rows) - n + 1, Len(rows))
  <2>1. LastOf(rows, n) = s BY <1>2 DEF LastOf
  <2>2. d \in Nat /\ Len(rows) \in Nat BY <1>2
  <2>3. s \in Seq(T) /\ Len(s) = n /\ \A k \in 1 .. n : s[k] = rows[k + d] BY <1>2
  <2> HIDE DEF s
  <2>4. Len(rows) = Len(s) + d /\ \A k \in 1 .. Len(s) : s[k] = rows[k + d] BY <2>2, <2>3
  <2> HIDE DEF d
  <2> QED BY <1>2, <2>1, <2>2, <2>3, <2>4
<1> QED BY <1>1, <1>2

-----------------------------------------------------------------------------
(* The lists of the projections: a message has one row, and the checkpoints *)
(* of the in-memory model are in order of their counts, one for a turn.    *)
Unique(rows) == \A i, j \in 1 .. Len(rows) : rows[i].id = rows[j].id => i = j

Sorted(list) ==
  \A i, j \in 1 .. Len(list) : i < j => list[i].count <= list[j].count /\ list[i].turn # list[j].turn

ListsOK ==
  /\ messages \in Seq(MessageRow) /\ Unique(messages)
  /\ memMessages \in Seq(MessageRow) /\ Unique(memMessages)
  /\ memCheckpoints \in Seq(Checkpoint) /\ Sorted(memCheckpoints)

(* A filter leaves one row for a message, and checkpoints in order. *)
LEMMA KeepUnique ==
  ASSUME NEW rows \in Seq(MessageRow), Unique(rows), NEW places
  PROVE  Keep(rows, places) \in Seq(MessageRow) /\ Unique(Keep(rows, places))
<1> DEFINE s == Keep(rows, places)
<1>1. s \in Seq(MessageRow) BY KeepMap
<1>2. PICK f : KeptFrom(rows, places, Len(rows), s, f) BY KeepMap
<1> HIDE DEF s
<1>3. ASSUME NEW i \in 1 .. Len(s), NEW j \in 1 .. Len(s), s[i].id = s[j].id PROVE i = j
  <2>1. f[i] \in 1 .. Len(rows) /\ f[j] \in 1 .. Len(rows) /\ s[i] = rows[f[i]] /\ s[j] = rows[f[j]]
    BY <1>2 DEF KeptFrom
  <2>2. f[i] = f[j] BY <1>3, <2>1 DEF Unique
  <2>3. ~(i < j) /\ ~(j < i) BY <1>2, <2>1, <2>2 DEF KeptFrom
  <2>4. Len(s) \in Nat BY <1>1
  <2> QED BY <2>3, <2>4
<1>4. Unique(s) BY <1>3 DEF Unique
<1> QED BY <1>1, <1>4 DEF s

LEMMA KeepSorted ==
  ASSUME NEW list \in Seq(Checkpoint), Sorted(list), NEW places
  PROVE  Keep(list, places) \in Seq(Checkpoint) /\ Sorted(Keep(list, places))
<1> DEFINE s == Keep(list, places)
<1>1. s \in Seq(Checkpoint) BY KeepMap
<1>2. PICK f : KeptFrom(list, places, Len(list), s, f) BY KeepMap
<1> HIDE DEF s
<1>3. ASSUME NEW i \in 1 .. Len(s), NEW j \in 1 .. Len(s), i < j
      PROVE  s[i].count <= s[j].count /\ s[i].turn # s[j].turn
  <2>1. f[i] \in 1 .. Len(list) /\ f[j] \in 1 .. Len(list) /\ s[i] = list[f[i]] /\ s[j] = list[f[j]]
    BY <1>2 DEF KeptFrom
  <2>2. f[i] < f[j] BY <1>2, <1>3 DEF KeptFrom
  <2> QED BY <2>1, <2>2 DEF Sorted
<1>4. Sorted(s) BY <1>3 DEF Sorted
<1> QED BY <1>1, <1>4 DEF s

(* So does the cut to the last ones. *)
LEMMA LastUnique ==
  ASSUME NEW rows \in Seq(MessageRow), Unique(rows), NEW n \in Nat
  PROVE  LastOf(rows, n) \in Seq(MessageRow) /\ Unique(LastOf(rows, n))
<1> DEFINE s == LastOf(rows, n)
<1>1. s \in Seq(MessageRow) BY LastOfParts
<1>2. PICK d \in Nat : Len(rows) = Len(s) + d /\ \A k \in 1 .. Len(s) : s[k] = rows[k + d]
  BY LastOfParts
<1> HIDE DEF s
<1>3. Len(s) \in Nat BY <1>1
<1>4. ASSUME NEW i \in 1 .. Len(s), NEW j \in 1 .. Len(s), s[i].id = s[j].id PROVE i = j
  <2>1. i + d \in 1 .. Len(rows) /\ j + d \in 1 .. Len(rows) BY <1>2, <1>3
  <2>2. i + d = j + d BY <1>2, <1>4, <2>1 DEF Unique
  <2> QED BY <1>3, <2>2
<1> QED BY <1>1, <1>4 DEF Unique, s

LEMMA LastSorted ==
  ASSUME NEW list \in Seq(Checkpoint), Sorted(list), NEW n \in Nat
  PROVE  LastOf(list, n) \in Seq(Checkpoint) /\ Sorted(LastOf(list, n))
<1> DEFINE s == LastOf(list, n)
<1>1. s \in Seq(Checkpoint) BY LastOfParts
<1>2. PICK d \in Nat : Len(list) = Len(s) + d /\ \A k \in 1 .. Len(s) : s[k] = list[k + d]
  BY LastOfParts
<1> HIDE DEF s
<1>3. Len(s) \in Nat BY <1>1
<1>4. ASSUME NEW i \in 1 .. Len(s), NEW j \in 1 .. Len(s), i < j
      PROVE  s[i].count <= s[j].count /\ s[i].turn # s[j].turn
  <2>1. i + d \in 1 .. Len(list) /\ j + d \in 1 .. Len(list) /\ i + d < j + d BY <1>2, <1>3, <1>4
  <2> QED BY <1>2, <2>1 DEF Sorted
<1> QED BY <1>1, <1>4 DEF Sorted, s

(* A row takes the place of the one with its id, or comes last. *)
LEMMA UpsertUnique ==
  ASSUME NEW rows \in Seq(MessageRow), Unique(rows), NEW row \in MessageRow
  PROVE  UpsertInOrder(rows, row) \in Seq(MessageRow) /\ Unique(UpsertInOrder(rows, row))
<1> DEFINE n == Len(rows)
<1>1. n \in Nat /\ DOMAIN rows = 1 .. n OBVIOUS
<1>2. CASE Positions(rows, row.id) = {}
  <2> DEFINE s == Append(rows, row)
  <2>1. UpsertInOrder(rows, row) = s BY <1>2 DEF UpsertInOrder
  <2>2. s \in Seq(MessageRow) /\ Len(s) = n + 1 /\ s[n + 1] = row /\ \A k \in 1 .. n : s[k] = rows[k]
    OBVIOUS
  <2>3. \A k \in 1 .. n : rows[k].id # row.id BY <1>1, <1>2 DEF Positions
  <2> HIDE DEF s, n
  <2>4. Unique(s) BY <1>1, <2>2, <2>3 DEF Unique, n
  <2> QED BY <2>1, <2>2, <2>4
<1>3. CASE Positions(rows, row.id) # {}
  <2> DEFINE s == [i \in DOMAIN rows |-> IF rows[i].id = row.id THEN row ELSE rows[i]]
  <2>1. UpsertInOrder(rows, row) = s BY <1>3 DEF UpsertInOrder
  <2>2. s \in Seq(MessageRow) /\ Len(s) = n BY <1>1
  <2>3. \A k \in 1 .. n : s[k].id = rows[k].id BY <1>1
  <2> HIDE DEF s
  <2>4. Unique(s) BY <2>2, <2>3 DEF Unique
  <2> QED BY <2>1, <2>2, <2>4
<1> QED BY <1>2, <1>3

(* Checkpoints of different turns are no more than there are turns. *)
LEMMA SortedShort ==
  ASSUME NEW list \in Seq(Checkpoint), Sorted(list)
  PROVE  Len(list) <= Cardinality(Turns)
<1>1. Len(list) \in Nat /\ DOMAIN list = 1 .. Len(list) OBVIOUS
<1>2. IsFiniteSet(1 .. Len(list)) /\ Cardinality(1 .. Len(list)) = Len(list)
  BY <1>1, FS_Interval
<1>3. IsFiniteSet(Turns) /\ Cardinality(Turns) \in Nat BY ProjectionAssumption, FS_CardinalityType
<1> SUFFICES ASSUME Cardinality(Turns) < Len(list) PROVE FALSE BY <1>1, <1>3
<1> DEFINE f == [k \in 1 .. Len(list) |-> list[k].turn]
<1>4. f \in [1 .. Len(list) -> Turns]
  <2>1. \A k \in 1 .. Len(list) : list[k] \in Checkpoint BY <1>1
  <2>2. \A k \in 1 .. Len(list) : list[k].turn \in Turns BY <2>1 DEF Checkpoint
  <2> QED BY <2>2
<1>5. \E i, j \in 1 .. Len(list) : i # j /\ f[i] = f[j]
  <2> HIDE DEF f
  <2> QED BY <1>2, <1>3, <1>4, FS_PigeonHole
<1>6. PICK i, j \in 1 .. Len(list) : i # j /\ list[i].turn = list[j].turn BY <1>5
<1>7. i < j \/ j < i BY <1>1, <1>6
<1> QED BY <1>6, <1>7 DEF Sorted

(* What a completed diff does to the in-memory checkpoints. *)
LEMMA InsertSorted ==
  ASSUME NEW list \in Seq(Checkpoint), Sorted(list), NEW t \in Turns, NEW n \in Count
  PROVE  LET new == [turn |-> t, count |-> n]
             s == InsertCheckpoint(list, t, n)
         IN /\ s \in Seq(Checkpoint) /\ Sorted(s)
            /\ Cardinality(Turns) <= MaxThreadCheckpoints =>
                 /\ \E k \in 1 .. Len(s) : s[k] = new
                 /\ \A i \in 1 .. Len(list) : list[i].turn # t => \E k \in 1 .. Len(s) : s[k] = list[i]
<1> DEFINE new == [turn |-> t, count |-> n]
           upTo == {i \in DOMAIN list : list[i].turn # t /\ list[i].count <= n}
           after == {i \in DOMAIN list : list[i].turn # t /\ list[i].count > n}
           a == Keep(list, upTo)
           c == Keep(list, after)
           N == Len(list)
           A == Len(a)
           C == Len(c)
<1>1. N \in Nat /\ DOMAIN list = 1 .. N OBVIOUS
<1>2. \A i \in 1 .. N : list[i].count \in Nat /\ list[i].turn \in Turns
  <2>1. \A i \in 1 .. N : list[i] \in Checkpoint BY <1>1
  <2> QED BY <2>1 DEF Checkpoint, Count
<1>3. n \in Nat BY ProjectionAssumption DEF Count
<1>4. a \in Seq(Checkpoint) /\ Sorted(a) /\ c \in Seq(Checkpoint) /\ Sorted(c)
  <2> HIDE DEF upTo, after
  <2> QED BY KeepSorted
<1>5. PICK f : KeptFrom(list, upTo, N, a, f)
  <2> HIDE DEF upTo
  <2> QED BY KeepMap
<1>6. PICK g : KeptFrom(list, after, N, c, g)
  <2> HIDE DEF after
  <2> QED BY KeepMap
<1>7. A \in Nat /\ C \in Nat BY <1>4
<1>8. \A k \in 1 .. A : f[k] \in 1 .. N /\ f[k] \in upTo /\ a[k] = list[f[k]] BY <1>5 DEF KeptFrom
<1>9. \A k \in 1 .. C : g[k] \in 1 .. N /\ g[k] \in after /\ c[k] = list[g[k]] BY <1>6 DEF KeptFrom
<1>10. \A k \in 1 .. A : a[k].turn # t /\ a[k].count <= n BY <1>8
<1>11. \A k \in 1 .. C : c[k].turn # t /\ n <= c[k].count BY <1>2, <1>3, <1>9
<1>12. ASSUME NEW k \in 1 .. A, NEW l \in 1 .. C
       PROVE  a[k].turn # c[l].turn /\ a[k].count <= c[l].count
  <2>1. f[k] # g[l]
    <3>1. list[f[k]].count <= n /\ list[g[l]].count > n BY <1>8, <1>9
    <3> QED BY <1>2, <1>3, <1>8, <1>9, <3>1
  <2>2. f[k] < g[l] \/ g[l] < f[k] BY <1>8, <1>9, <2>1
  <2>3. list[f[k]].turn # list[g[l]].turn BY <1>8, <1>9, <2>2 DEF Sorted
  <2>4. a[k] = list[f[k]] /\ c[l] = list[g[l]] BY <1>8, <1>9
  <2>5. a[k].count \in Nat /\ c[l].count \in Nat BY <1>2, <1>8, <1>9
  <2>6. a[k].count <= n /\ n <= c[l].count BY <1>10, <1>11
  <2>7. a[k].turn # c[l].turn BY <2>3, <2>4
  <2> HIDE DEF a, c
  <2> QED BY <1>3, <2>5, <2>6, <2>7
<1>13. new \in Checkpoint /\ new.turn = t /\ new.count = n BY DEF Checkpoint
<1> DEFINE ab == a \o <<new>>
           s == ab \o c
           S == Len(s)
<1> HIDE DEF a, c, new, upTo, after, A, C, N
<1>14. /\ <<new>> \in Seq(Checkpoint) /\ Len(<<new>>) = 1 /\ <<new>>[1] = new BY <1>13
<1>15. /\ ab \in Seq(Checkpoint) /\ Len(ab) = A + 1 /\ ab[A + 1] = new
       /\ \A k \in 1 .. A : ab[k] = a[k]
  BY <1>4, <1>14, ConcatParts DEF A
<1> HIDE DEF ab
<1>16. /\ s \in Seq(Checkpoint) /\ S = A + 1 + C /\ s[A + 1] = new
       /\ \A k \in 1 .. A : s[k] = a[k]
       /\ \A k \in 1 .. C : s[A + 1 + k] = c[k]
  <2>1. /\ s \in Seq(Checkpoint) /\ S = A + 1 + C
        /\ \A k \in 1 .. A + 1 : s[k] = ab[k]
        /\ \A k \in 1 .. C : s[A + 1 + k] = c[k]
    <3>1. /\ ab \o c \in Seq(Checkpoint) /\ Len(ab \o c) = Len(ab) + Len(c)
          /\ \A k \in 1 .. Len(ab) : (ab \o c)[k] = ab[k]
          /\ \A k \in 1 .. Len(c) : (ab \o c)[Len(ab) + k] = c[k]
      <4>1. ab \in Seq(Checkpoint) /\ c \in Seq(Checkpoint) BY <1>4, <1>15
      <4> QED BY <4>1
    <3> HIDE DEF s
    <3>2. s = ab \o c BY DEF s
    <3> QED BY <1>15, <3>1, <3>2 DEF C, S
  <2>2. A + 1 \in 1 .. A + 1 /\ \A k \in 1 .. A : k \in 1 .. A + 1 BY <1>7
  <2>3. s[A + 1] = new BY <1>15, <2>1, <2>2
  <2>4. \A k \in 1 .. A : s[k] = a[k] BY <1>15, <2>1, <2>2
  <2> QED BY <2>1, <2>3, <2>4
<1> HIDE DEF s, S
<1>17. Sorted(s)
  <2> SUFFICES ASSUME NEW i \in 1 .. S, NEW j \in 1 .. S, i < j
               PROVE  s[i].count <= s[j].count /\ s[i].turn # s[j].turn
    BY DEF Sorted, S
  <2>1. CASE j \in 1 .. A
    <3>1. i \in 1 .. A BY <1>7, <1>16, <2>1
    <3>2. a[i].count <= a[j].count /\ a[i].turn # a[j].turn BY <1>4, <2>1, <3>1 DEF Sorted, A
    <3> QED BY <1>16, <2>1, <3>1, <3>2
  <2>2. CASE j = A + 1
    <3>1. i \in 1 .. A BY <1>7, <1>16, <2>2
    <3> QED BY <1>10, <1>13, <1>16, <2>2, <3>1
  <2>3. CASE j > A + 1
    <3>1. j - (A + 1) \in 1 .. C /\ s[j] = c[j - (A + 1)]
      <4>1. j - (A + 1) \in 1 .. C /\ A + 1 + (j - (A + 1)) = j BY <1>7, <1>16, <2>3
      <4> QED BY <1>16, <4>1
    <3>2. CASE i \in 1 .. A BY <1>12, <1>16, <3>1, <3>2
    <3>3. CASE i = A + 1 BY <1>11, <1>13, <1>16, <3>1, <3>3
    <3>4. CASE i > A + 1
      <4>1. i - (A + 1) \in 1 .. C /\ s[i] = c[i - (A + 1)]
        <5>1. i - (A + 1) \in 1 .. C /\ A + 1 + (i - (A + 1)) = i BY <1>7, <1>16, <3>4
        <5> QED BY <1>16, <5>1
      <4>2. i - (A + 1) < j - (A + 1) BY <1>7
      <4> QED BY <1>4, <3>1, <4>1, <4>2 DEF Sorted, C
    <3> QED BY <1>7, <3>2, <3>3, <3>4
  <2> QED BY <1>7, <2>1, <2>2, <2>3
<1>18. InsertCheckpoint(list, t, n) = LastOf(s, MaxThreadCheckpoints)
  BY DEF InsertCheckpoint, s, ab, a, c, upTo, after, new
<1>19. ASSUME NEW i \in 1 .. N, list[i].turn # t PROVE \E k \in 1 .. S : s[k] = list[i]
  <2>1. CASE i \in upTo
    <3>1. PICK k \in 1 .. A : f[k] = i BY <1>5, <2>1 DEF KeptFrom, A
    <3>2. k \in 1 .. S /\ s[k] = list[i] BY <1>7, <1>8, <1>16, <3>1
    <3> QED BY <3>2
  <2>2. CASE i \in after
    <3>1. PICK k \in 1 .. C : g[k] = i BY <1>6, <2>2 DEF KeptFrom, C
    <3>2. A + 1 + k \in 1 .. S BY <1>7, <1>16
    <3>3. s[A + 1 + k] = c[k] /\ c[k] = list[i] BY <1>9, <1>16, <3>1
    <3> QED BY <3>2, <3>3
  <2> QED BY <1>1, <1>2, <1>3, <1>19, <2>1, <2>2 DEF upTo, after
<1>20. \E k \in 1 .. S : s[k] = new
  <2>1. A + 1 \in 1 .. S BY <1>7, <1>16
  <2> QED BY <1>16, <2>1
<1>21. MaxThreadCheckpoints \in Nat BY ProjectionAssumption
<1>22. LastOf(s, MaxThreadCheckpoints) \in Seq(Checkpoint) /\ Sorted(LastOf(s, MaxThreadCheckpoints))
  BY <1>16, <1>17, <1>21, LastSorted
<1>23. ASSUME Cardinality(Turns) <= MaxThreadCheckpoints PROVE LastOf(s, MaxThreadCheckpoints) = s
  <2>1. S <= Cardinality(Turns) /\ S \in Nat BY <1>16, <1>17, SortedShort DEF S
  <2>2. Cardinality(Turns) \in Nat BY ProjectionAssumption, FS_CardinalityType
  <2>3. S <= MaxThreadCheckpoints BY <1>21, <1>23, <2>1, <2>2
  <2> QED BY <1>16, <1>21, <2>3, LastOfParts DEF S
<1> QED BY <1>18, <1>19, <1>20, <1>22, <1>23 DEF N, S, new

-----------------------------------------------------------------------------
(* What a revert makes of the messages: it drops none of a kept turn and    *)
(* none a kept turn points to, and of the others it keeps those without a  *)
(* turn at most.                                                           *)
LEMMA RetainParts ==
  ASSUME NEW rows \in Seq(MessageRow), Unique(rows), NEW kept, NEW pointed, NEW n
  PROVE  LET s == RetainMessages(rows, kept, pointed, n)
         IN /\ s \in Seq(MessageRow) /\ Unique(s)
            /\ \A k \in 1 .. Len(s) : s[k].id \in pointed \/ s[k].turn \in kept \cup {NoTurn}
            /\ \A i \in 1 .. Len(rows) : rows[i].id \in pointed \/ rows[i].turn \in kept
                                           => \E k \in 1 .. Len(s) : s[k] = rows[i]
<1> DEFINE retained(r) == r.id \in pointed \/ r.turn \in kept
           missing(Role) == n - Cardinality({i \in DOMAIN rows : rows[i].id \in Role /\ retained(rows[i])})
           spare(Role) == {i \in DOMAIN rows : /\ rows[i].id \in Role
                                               /\ ~retained(rows[i])
                                               /\ rows[i].turn \in kept \cup {NoTurn}}
           fallback(Role) == {i \in spare(Role) :
                                Cardinality({j \in spare(Role) : j < i}) < missing(Role)}
           left == {j \in DOMAIN rows : retained(rows[j])}
                     \cup fallback(UserMessages) \cup fallback(AssistantMessages)
           keep == {rows[i].id : i \in left}
           places == {i \in DOMAIN rows : rows[i].id \in keep}
           s == Keep(rows, places)
<1>1. RetainMessages(rows, kept, pointed, n) = s BY DEF RetainMessages
<1>2. DOMAIN rows = 1 .. Len(rows) OBVIOUS
<1>3. \A i \in left : /\ i \in DOMAIN rows
                      /\ rows[i].id \in pointed \/ rows[i].turn \in kept \cup {NoTurn}
  <2> HIDE DEF missing
  <2> QED OBVIOUS
<1>4. \A i \in DOMAIN rows : rows[i].id \in pointed \/ rows[i].turn \in kept => i \in left
  <2> HIDE DEF fallback
  <2> QED OBVIOUS
<1> HIDE DEF left
<1>5. \A i \in places : i \in DOMAIN rows /\ \E j \in left : rows[i].id = rows[j].id OBVIOUS
<1>6. \A i \in left : i \in DOMAIN rows => i \in places OBVIOUS
<1> HIDE DEF places
<1>7. s \in Seq(MessageRow) /\ Unique(s) BY KeepUnique
<1>8. PICK f : KeptFrom(rows, places, Len(rows), s, f) BY KeepMap
<1> HIDE DEF s
<1>9. ASSUME NEW k \in 1 .. Len(s)
      PROVE  s[k].id \in pointed \/ s[k].turn \in kept \cup {NoTurn}
  <2>1. f[k] \in 1 .. Len(rows) /\ f[k] \in places /\ s[k] = rows[f[k]] BY <1>8 DEF KeptFrom
  <2>2. PICK j \in left : rows[f[k]].id = rows[j].id BY <1>5, <2>1
  <2>3. f[k] = j BY <1>2, <1>3, <2>1, <2>2 DEF Unique
  <2> QED BY <1>3, <2>1, <2>3
<1>10. ASSUME NEW i \in 1 .. Len(rows), rows[i].id \in pointed \/ rows[i].turn \in kept
       PROVE  \E k \in 1 .. Len(s) : s[k] = rows[i]
  <2>1. i \in places BY <1>2, <1>4, <1>6, <1>10
  <2>2. PICK k \in 1 .. Len(s) : f[k] = i BY <1>8, <2>1 DEF KeptFrom
  <2> QED BY <1>8, <2>2 DEF KeptFrom
<1> QED BY <1>1, <1>7, <1>9, <1>10

-----------------------------------------------------------------------------
(* Every turn with a count has its checkpoint in memory. *)
Agree ==
  \A t \in DOMAIN turns : turns[t].count # NoCount =>
    \E i \in 1 .. Len(memCheckpoints) : memCheckpoints[i] = [turn |-> t, count |-> turns[t].count]

MemInv == ListsOK /\ (Cardinality(Turns) <= MaxThreadCheckpoints => Agree)

(* No row gets a count. *)
CountsKept ==
  \A t \in DOMAIN turns' :
    IF t \in DOMAIN turns THEN turns'[t].count = turns[t].count ELSE turns'[t].count = NoCount

(* Actions that neither give a count nor touch the checkpoints. *)
LEMMA AgreeKept ==
  ASSUME Agree, CountsKept, memCheckpoints' = memCheckpoints
  PROVE  Agree'
BY DEF Agree, CountsKept

LEMMA UnchangedLists ==
  ASSUME MemInv, CountsKept, UNCHANGED <<messages, memory>>
  PROVE  MemInv'
<1>1. ListsOK' BY DEF MemInv, ListsOK, Unique, Sorted, memory
<1>2. ASSUME Cardinality(Turns) <= MaxThreadCheckpoints PROVE Agree'
  BY <1>2, AgreeKept DEF MemInv, memory
<1> QED BY <1>1, <1>2 DEF MemInv

(* A message takes the place of its earlier row, in both lists. *)
LEMMA SendMessageLists ==
  ASSUME MemInv, IInv, NEW m \in Messages, NEW t \in Turns \cup {NoTurn},
         NEW streaming \in BOOLEAN, SendMessage(m, t, streaming),
         memCheckpoints' = memCheckpoints
  PROVE  MemInv'
<1> DEFINE row == MessageOf(m, t, streaming)
<1>1. row \in MessageRow BY DEF MessageOf, MessageRow
<1>2. /\ messages' = UpsertInOrder(messages, row)
      /\ memMessages' = LastOf(UpsertInOrder(memMessages, row), MaxThreadMessages)
  BY DEF SendMessage, RememberMessage
<1> HIDE DEF row
<1>3. MaxThreadMessages \in Nat BY ProjectionAssumption
<1>4. messages' \in Seq(MessageRow) /\ Unique(messages')
  BY <1>1, <1>2, UpsertUnique DEF MemInv, ListsOK
<1>5. memMessages' \in Seq(MessageRow) /\ Unique(memMessages')
  <2>1. /\ UpsertInOrder(memMessages, row) \in Seq(MessageRow)
        /\ Unique(UpsertInOrder(memMessages, row))
    BY <1>1, UpsertUnique DEF MemInv, ListsOK
  <2> QED BY <1>2, <1>3, <2>1, LastUnique
<1>6. ListsOK' BY <1>4, <1>5 DEF MemInv, ListsOK, Unique, Sorted
<1>7. CountsKept BY SendMessageKeepsRows DEF CountsKept
<1> QED BY <1>6, <1>7, AgreeKept DEF MemInv

(* A completed diff clears the count it takes, and adds its checkpoint.    *)
LEMMA DiffCompletedLists ==
  ASSUME MemInv, IInv, NEW t \in Turns, NEW n \in Count, NEW failed \in BOOLEAN,
         NEW m \in AssistantMessages, DiffCompleted(t, n, failed, m)
  PROVE  MemInv'
<1> DEFINE new == [turn |-> t, count |-> n]
<1>1. /\ messages' = messages /\ memMessages' = memMessages
      /\ memCheckpoints' = InsertCheckpoint(memCheckpoints, t, n)
  BY DEF DiffCompleted
<1>2. /\ DOMAIN turns' = DOMAIN turns \cup {t} /\ turns'[t].count = n
      /\ \A u \in DOMAIN turns : u # t =>
           turns'[u].count = IF turns[u].count = n THEN NoCount ELSE turns[u].count
  <2>1. /\ DOMAIN turns' = DOMAIN turns \cup {t} /\ turns'[t].count = n
        /\ \A u \in DOMAIN turns : u # t => turns'[u] = ClearConflict(t, n)[u]
    BY DEF DiffCompleted, Upsert, ClearConflict
  <2>2. \A u \in DOMAIN turns : turns[u] \in TurnRow BY DEF IInv, TurnTable
  <2> QED BY <2>1, <2>2 DEF ClearConflict, TurnRow
<1>3. /\ memCheckpoints' \in Seq(Checkpoint) /\ Sorted(memCheckpoints')
      /\ Cardinality(Turns) <= MaxThreadCheckpoints =>
           /\ \E k \in 1 .. Len(memCheckpoints') : memCheckpoints'[k] = new
           /\ \A i \in 1 .. Len(memCheckpoints) : memCheckpoints[i].turn # t
                => \E k \in 1 .. Len(memCheckpoints') : memCheckpoints'[k] = memCheckpoints[i]
  <2> DEFINE s == InsertCheckpoint(memCheckpoints, t, n)
  <2>1. memCheckpoints \in Seq(Checkpoint) /\ Sorted(memCheckpoints) BY DEF MemInv, ListsOK
  <2>2. /\ s \in Seq(Checkpoint) /\ Sorted(s)
        /\ Cardinality(Turns) <= MaxThreadCheckpoints =>
             /\ \E k \in 1 .. Len(s) : s[k] = new
             /\ \A i \in 1 .. Len(memCheckpoints) : memCheckpoints[i].turn # t
                  => \E k \in 1 .. Len(s) : s[k] = memCheckpoints[i]
    BY <2>1, InsertSorted, Zenon
  <2> HIDE DEF s
  <2>3. memCheckpoints' = s BY <1>1 DEF s
  <2> QED BY <2>2, <2>3 DEF Sorted
<1>4. ListsOK' BY <1>1, <1>3 DEF MemInv, ListsOK, Unique, Sorted
<1>5. ASSUME Cardinality(Turns) <= MaxThreadCheckpoints,
             NEW u \in DOMAIN turns', turns'[u].count # NoCount
      PROVE  \E i \in 1 .. Len(memCheckpoints') :
               memCheckpoints'[i] = [turn |-> u, count |-> turns'[u].count]
  <2>1. CASE u = t BY <1>2, <1>3, <1>5, <2>1
  <2>2. CASE u # t
    <3>1. u \in DOMAIN turns /\ turns'[u].count = turns[u].count BY <1>2, <1>5, <2>2
    <3>2. PICK i \in 1 .. Len(memCheckpoints) :
            memCheckpoints[i] = [turn |-> u, count |-> turns[u].count]
      BY <1>5, <3>1 DEF MemInv, Agree
    <3> QED BY <1>3, <1>5, <2>2, <3>1, <3>2
  <2> QED BY <2>1, <2>2
<1> QED BY <1>4, <1>5 DEF MemInv, Agree

(* A revert keeps the checkpoints of the turns it keeps. *)
LEMMA RevertLists ==
  ASSUME MemInv, IInv, NEW n \in Count \cup {0}, Reverted(n)
  PROVE  MemInv'
<1> DEFINE upTo == {i \in DOMAIN memCheckpoints : memCheckpoints[i].count <= n}
<1>1. /\ \E kept, pointed : messages' = RetainMessages(messages, kept, pointed, n)
      /\ \E kept, pointed : memMessages' = RetainMessages(memMessages, kept, pointed, n)
      /\ memCheckpoints' = Keep(memCheckpoints, upTo)
      /\ turns' = KeepRows(turns, KeptTurns(turns, n))
  BY DEF Reverted, RevertTables, RevertMemory
<1>2. messages' \in Seq(MessageRow) /\ Unique(messages')
  BY <1>1, RetainParts DEF MemInv, ListsOK
<1>3. memMessages' \in Seq(MessageRow) /\ Unique(memMessages')
  BY <1>1, RetainParts DEF MemInv, ListsOK
<1>4. memCheckpoints \in Seq(Checkpoint) /\ Sorted(memCheckpoints) BY DEF MemInv, ListsOK
<1>5. memCheckpoints' \in Seq(Checkpoint) /\ Sorted(memCheckpoints')
  <2> HIDE DEF upTo
  <2> QED BY <1>1, <1>4, KeepSorted
<1>6. ListsOK' BY <1>2, <1>3, <1>5 DEF ListsOK, Unique, Sorted
<1>7. PICK f : KeptFrom(memCheckpoints, upTo, Len(memCheckpoints), memCheckpoints', f)
  <2> HIDE DEF upTo
  <2> QED BY <1>1, <1>4, KeepMap
<1>8. ASSUME Agree, NEW t \in DOMAIN turns', turns'[t].count # NoCount
      PROVE  \E i \in 1 .. Len(memCheckpoints') :
               memCheckpoints'[i] = [turn |-> t, count |-> turns'[t].count]
  <2>1. /\ t \in DOMAIN turns /\ turns'[t] = turns[t] /\ turns[t].count <= n
    BY <1>1, <1>8 DEF KeepRows, KeptTurns
  <2>2. PICK i \in 1 .. Len(memCheckpoints) :
          memCheckpoints[i] = [turn |-> t, count |-> turns[t].count]
    BY <1>8, <2>1 DEF Agree
  <2>3. i \in upTo BY <1>4, <2>1, <2>2
  <2>4. PICK k \in 1 .. Len(memCheckpoints') : f[k] = i BY <1>7, <2>2, <2>3 DEF KeptFrom
  <2>5. memCheckpoints'[k] = memCheckpoints[i] BY <1>7, <2>4 DEF KeptFrom
  <2> QED BY <2>1, <2>2, <2>5
<1>9. Agree => Agree' BY <1>8 DEF Agree
<1> QED BY <1>6, <1>9 DEF MemInv

LEMMA InitMemInv == Init => MemInv
BY DEF Init, MemInv, ListsOK, Unique, Sorted, Agree

LEMMA StepMemInv == IInv /\ MemInv /\ [Next]_vars => MemInv'
<1> SUFFICES ASSUME IInv, MemInv, [Next]_vars PROVE MemInv'
  OBVIOUS
<1>1. CASE \E m \in UserMessages : TurnStart(m)
  BY <1>1, SendMessageLists DEF TurnStart, Messages
<1>2. CASE \E m \in UserMessages, t \in Turns \cup {NoTurn} : ImportMessage(m, t)
  BY <1>2, SendMessageLists DEF ImportMessage, Messages
<1>3. CASE \E m \in AssistantMessages, t \in Turns \cup {NoTurn}, streaming \in BOOLEAN :
             AssistantMessage(m, t, streaming)
  BY <1>3, SendMessageLists DEF AssistantMessage, Messages
<1>4. ASSUME NEW t \in Turns, SessionRunning(t) \/ InterruptRequested(t)
      PROVE  MemInv'
  <2>1. \A u \in DOMAIN turns : turns[u] \in TurnRow BY DEF IInv, TurnTable
  <2>2. CASE SessionRunning(t)
    <3>1. TurnAfterSession(t).count = IF t \in DOMAIN turns THEN turns[t].count ELSE NoCount
      BY <2>1 DEF TurnAfterSession, TurnRow
    <3>2. turns' = Upsert(turns, t, TurnAfterSession(t)) BY <2>2 DEF SessionRunning
    <3>3. CountsKept BY <3>1, <3>2 DEF CountsKept, Upsert
    <3> QED BY <2>2, <3>3, UnchangedLists DEF SessionRunning
  <2>3. CASE InterruptRequested(t)
    <3> DEFINE row == IF t \in DOMAIN turns
                      THEN [turns[t] EXCEPT !.state = "interrupted", !.ended = TRUE]
                      ELSE [state |-> "interrupted", starter |-> NoMessage,
                            assistant |-> NoMessage, ended |-> TRUE, count |-> NoCount]
    <3>1. row.count = IF t \in DOMAIN turns THEN turns[t].count ELSE NoCount
      BY <2>1 DEF TurnRow
    <3>2. turns' = Upsert(turns, t, row) BY <2>3 DEF InterruptRequested
    <3> HIDE DEF row
    <3>3. CountsKept BY <3>1, <3>2 DEF CountsKept, Upsert
    <3> QED BY <2>3, <3>3, UnchangedLists DEF InterruptRequested
  <2> QED BY <1>4, <2>2, <2>3
<1>5. CASE \E t \in Turns, n \in Count, failed \in BOOLEAN, m \in AssistantMessages :
             DiffCompleted(t, n, failed, m)
  BY <1>5, DiffCompletedLists
<1>6. ASSUME UNCHANGED <<turns, messages, memMessages, memCheckpoints>>
      PROVE  MemInv'
  BY <1>6 DEF MemInv, ListsOK, Unique, Sorted, Agree
<1>7. CASE \E n \in Count \cup {0} : Reverted(n)
  BY <1>7, RevertLists
<1>8. CASE \E p \in Plans, t \in Turns \cup {NoTurn} : PlanUpserted(p, t)
  BY <1>6, <1>8 DEF PlanUpserted
<1>9. CASE \E a \in Activities, t \in Turns \cup {NoTurn}, r \in Requests \cup {NoRequest},
              resolves \in BOOLEAN : ActivityAppended(a, t, r, resolves)
  BY <1>6, <1>9 DEF ActivityAppended
<1>10. CASE \E r \in Requests : ApprovalResponded(r)
  BY <1>6, <1>10 DEF ApprovalResponded, memory
<1>11. CASE UNCHANGED vars
  BY <1>6, <1>11 DEF vars, tables, memory
<1> QED BY <1>1, <1>2, <1>3, <1>4, <1>5, <1>7, <1>8, <1>9, <1>10, <1>11 DEF Next

LEMMA MemInvariant == Spec => []MemInv
BY InitMemInv, StepMemInv, InductiveInvariant, PTL DEF Spec

(* Every checkpoint the client is shown is in the in-memory model of the   *)
(* reactors, under its count and in its order, as long as a thread has no  *)
(* more turns than the model keeps checkpoints.                            *)
THEOREM CheckpointsAgreeHolds == Spec => []CheckpointsAgree
<1>1. ASSUME MemInv PROVE CheckpointsAgree
  <2>1. memCheckpoints \in Seq(Checkpoint) /\ Sorted(memCheckpoints) BY <1>1 DEF MemInv, ListsOK
  <2>2. DOMAIN memCheckpoints = 1 .. Len(memCheckpoints) BY <2>1
  <2> QED BY <1>1, <2>1, <2>2 DEF CheckpointsAgree, MemInv, Agree, Sorted
<1> QED BY <1>1, MemInvariant, PTL

-----------------------------------------------------------------------------
(* What a revert leaves of the removed turns. *)
LEMMA RevertLeavesNothing ==
  ASSUME ListsOK, NEW n \in Count \cup {0}, Reverted(n)
  PROVE  NothingLeft
<1> DEFINE kept == KeptTurns(turns, n)
           pointed == {turns[t].starter : t \in kept} \cup {turns[t].assistant : t \in kept}
           upTo == {i \in DOMAIN memCheckpoints : memCheckpoints[i].count <= n}
           memKept == {memCheckpoints[i].turn : i \in upTo}
<1>1. /\ turns' = KeepRows(turns, kept)
      /\ plans' = RetainByTurn(plans, kept) /\ activities' = RetainByTurn(activities, kept)
      /\ messages' = RetainMessages(messages, kept, pointed, n)
      /\ memCheckpoints' = Keep(memCheckpoints, upTo)
      /\ memPlans' = RetainByTurn(memPlans, memKept)
      /\ memActivities' = RetainByTurn(memActivities, memKept)
      /\ memMessages' = RetainMessages(memMessages, memKept, {}, n)
  BY DEF Reverted, RevertTables, RevertMemory
<1>2. DOMAIN turns' = kept /\ \A t \in kept : turns'[t] = turns[t]
  BY <1>1 DEF KeepRows, KeptTurns
<1>3. \A i \in 1 .. Len(messages') : messages'[i].id \in pointed \/ messages'[i].turn \in kept \cup {NoTurn}
  <2> HIDE DEF kept, pointed
  <2> QED BY <1>1, RetainParts DEF ListsOK
<1>4. \A i \in 1 .. Len(memMessages') : memMessages'[i].turn \in memKept \cup {NoTurn}
  <2> HIDE DEF memKept
  <2> QED BY <1>1, RetainParts DEF ListsOK
<1>5. memKept \subseteq {memCheckpoints'[i].turn : i \in DOMAIN memCheckpoints'}
  <2> SUFFICES ASSUME NEW i \in upTo
               PROVE  \E k \in DOMAIN memCheckpoints' : memCheckpoints'[k].turn = memCheckpoints[i].turn
    OBVIOUS
  <2>1. memCheckpoints \in Seq(Checkpoint) BY DEF ListsOK
  <2>2. i \in 1 .. Len(memCheckpoints) BY <2>1
  <2> HIDE DEF upTo
  <2>3. memCheckpoints' \in Seq(Checkpoint) BY <1>1, <2>1, KeepMap
  <2>4. PICK f : KeptFrom(memCheckpoints, upTo, Len(memCheckpoints), memCheckpoints', f)
    BY <1>1, <2>1, KeepMap
  <2>5. PICK k \in 1 .. Len(memCheckpoints') : f[k] = i BY <2>2, <2>4 DEF KeptFrom
  <2>6. memCheckpoints'[k] = memCheckpoints[i] BY <2>4, <2>5 DEF KeptFrom
  <2> QED BY <2>3, <2>5, <2>6
<1>6. messages' \in Seq(MessageRow) /\ memMessages' \in Seq(MessageRow)
  <2> HIDE DEF kept, pointed, memKept
  <2> QED BY <1>1, RetainParts DEF ListsOK
<1>7. DOMAIN messages' = 1 .. Len(messages') /\ DOMAIN memMessages' = 1 .. Len(memMessages')
  BY <1>6
<1> DEFINE gone == Turns \ DOMAIN turns'
           memGone == Turns \ {memCheckpoints'[i].turn : i \in DOMAIN memCheckpoints'}
<1>8. NoTurn \notin gone /\ NoTurn \notin memGone BY ProjectionAssumption
<1>9. gone \cap kept = {} /\ memGone \cap memKept = {} BY <1>2, <1>5
<1> HIDE DEF gone, memGone, kept, memKept
<1>10. LeftOver(plans', gone) = {} /\ LeftOver(activities', gone) = {}
  BY <1>1, <1>8, <1>9 DEF LeftOver, RetainByTurn, KeepRows
<1>11. LeftOver(memPlans', memGone) = {} /\ LeftOver(memActivities', memGone) = {}
  BY <1>1, <1>8, <1>9 DEF LeftOver, RetainByTurn, KeepRows
<1>12. ASSUME NEW i \in DOMAIN messages', messages'[i].turn \in gone
       PROVE  \E t \in DOMAIN turns' : messages'[i].id \in {turns'[t].starter, turns'[t].assistant}
  <2>1. messages'[i].id \in pointed BY <1>3, <1>7, <1>8, <1>9, <1>12
  <2> QED BY <1>2, <2>1
<1>13. \A i \in DOMAIN memMessages' : memMessages'[i].turn \notin memGone
  BY <1>4, <1>7, <1>8, <1>9
<1> QED BY <1>10, <1>11, <1>12, <1>13 DEF NothingLeft, gone, memGone

(* What a revert keeps of the turns it goes back to. *)
LEMMA RevertLosesNothing ==
  ASSUME ListsOK, NEW n \in Count \cup {0}, Reverted(n)
  PROVE  NothingLost(n)
<1> DEFINE kept == KeptTurns(turns, n)
           pointed == {turns[t].starter : t \in kept} \cup {turns[t].assistant : t \in kept}
<1>1. /\ turns' = KeepRows(turns, kept)
      /\ plans' = RetainByTurn(plans, kept) /\ activities' = RetainByTurn(activities, kept)
      /\ messages' = RetainMessages(messages, kept, pointed, n)
  BY DEF Reverted, RevertTables
<1>2. DOMAIN messages = 1 .. Len(messages) BY DEF ListsOK
<1>3. messages' \in Seq(MessageRow)
      /\ \A i \in 1 .. Len(messages) : messages[i].id \in pointed \/ messages[i].turn \in kept
           => \E k \in 1 .. Len(messages') : messages'[k] = messages[i]
  <2> HIDE DEF kept, pointed
  <2> QED BY <1>1, RetainParts DEF ListsOK
<1>4. DOMAIN messages' = 1 .. Len(messages') BY <1>3
<1> SUFFICES ASSUME NEW t \in DOMAIN turns, turns[t].count \in 1 .. n
             PROVE  /\ t \in DOMAIN turns' /\ turns'[t] = turns[t]
                    /\ \A i \in DOMAIN messages : messages[i].turn = t \/ messages[i].id = turns[t].starter
                         => \E j \in DOMAIN messages' : messages'[j] = messages[i]
                    /\ \A p \in DOMAIN plans : plans[p] = t => p \in DOMAIN plans'
                    /\ \A a \in DOMAIN activities : activities[a] = t => a \in DOMAIN activities'
  BY DEF NothingLost
<1>5. t \in kept
  <2>1. n \in Nat BY ProjectionAssumption DEF Count
  <2> QED BY <2>1 DEF KeptTurns, NoCount
<1>6. turns[t].starter \in pointed BY <1>5
<1> HIDE DEF kept, pointed
<1> QED BY <1>1, <1>2, <1>3, <1>4, <1>5, <1>6 DEF KeepRows, RetainByTurn

(* A revert leaves nothing of the later turns, in the tables and in memory, *)
(* and loses nothing of the earlier ones, whatever was sent, planned or    *)
(* completed before it.                                                    *)
THEOREM RevertIsExactHolds == Spec => RevertIsExact
<1>1. MemInv /\ [Next]_vars =>
        [\A n \in Count \cup {0} : Reverted(n) => NothingLeft /\ NothingLost(n)]_vars
  BY RevertLeavesNothing, RevertLosesNothing DEF MemInv
<1> QED BY <1>1, MemInvariant, PTL DEF Spec, RevertIsExact

-----------------------------------------------------------------------------
(* Tables stay tables when a row is written or rows are dropped. *)
LEMMA TableOf ==
  ASSUME NEW keys, NEW Row, NEW rows, rows = [k \in DOMAIN rows |-> rows[k]],
         DOMAIN rows \subseteq keys, \A k \in DOMAIN rows : rows[k] \in Row
  PROVE  rows \in Tables(keys, Row)
<1>1. rows \in [DOMAIN rows -> Row] OBVIOUS
<1> QED BY <1>1 DEF Tables

LEMMA UpsertTable ==
  ASSUME NEW keys, NEW Row, NEW rows \in Tables(keys, Row), NEW key \in keys, NEW row \in Row
  PROVE  Upsert(rows, key, row) \in Tables(keys, Row)
<1>1. PICK S \in SUBSET keys : rows \in [S -> Row] BY DEF Tables
<1>2. S \cup {key} \in SUBSET keys /\ Upsert(rows, key, row) \in [S \cup {key} -> Row]
  BY <1>1 DEF Upsert
<1> QED BY <1>2 DEF Tables

LEMMA RetainTable ==
  ASSUME NEW keys, NEW Row, NEW rows \in Tables(keys, Row), NEW kept
  PROVE  RetainByTurn(rows, kept) \in Tables(keys, Row)
<1>1. PICK S \in SUBSET keys : rows \in [S -> Row] BY DEF Tables
<1> DEFINE left == {k \in DOMAIN rows : rows[k] \in kept \cup {NoTurn}}
<1>2. left \in SUBSET keys /\ RetainByTurn(rows, kept) \in [left -> Row]
  BY <1>1 DEF RetainByTurn, KeepRows
<1> QED BY <1>2 DEF Tables

(* What TypeOK says beside TurnTable and ListsOK. *)
Typed ==
  /\ turns = [t \in DOMAIN turns |-> turns[t]]
  /\ plans \in Tables(Plans, Turns \cup {NoTurn})
  /\ activities \in Tables(Activities, Turns \cup {NoTurn})
  /\ approvals \in Tables(Requests, ApprovalRow)
  /\ requested \subseteq UserMessages
  /\ events \in 0 .. MaxEvents

LEMMA InitTyped == Init => Typed
<1> SUFFICES ASSUME Init PROVE Typed OBVIOUS
<1>2. ASSUME NEW keys, NEW Row PROVE << >> \in Tables(keys, Row)
  <2>1. << >> \in [{} -> Row] /\ {} \in SUBSET keys OBVIOUS
  <2> QED BY <2>1, Zenon DEF Tables
<1>1. << >> = [k \in DOMAIN << >> |-> << >>[k]] OBVIOUS
<1>3. 0 \in 0 .. MaxEvents BY ProjectionAssumption
<1> QED BY <1>1, <1>2, <1>3 DEF Init, Typed

LEMMA StepTyped == IInv /\ Typed /\ [Next]_vars => Typed'
<1> SUFFICES ASSUME IInv, Typed, [Next]_vars PROVE Typed'
  OBVIOUS
<1>0. CASE UNCHANGED vars
  BY <1>0 DEF Typed, vars, tables
<1> SUFFICES ASSUME Next PROVE Typed' BY <1>0
<1> DEFINE IsTable(rows) == rows = [k \in DOMAIN rows |-> rows[k]]
<1>1. \A rows, key, row : IsTable(Upsert(rows, key, row)) BY DEF Upsert
<1>2. \A rows, keys : IsTable(KeepRows(rows, keys)) BY DEF KeepRows
<1>3. IsTable(turns) BY DEF Typed
<1>4. Tick => events' \in 0 .. MaxEvents BY ProjectionAssumption DEF Tick, Typed
<1>5. ASSUME NEW m, NEW t, NEW streaming, SendMessage(m, t, streaming) PROVE IsTable(turns')
  BY <1>1, <1>3, <1>5 DEF SendMessage
<1> HIDE DEF IsTable
<1>6. /\ Tick
      /\ requested' \subseteq UserMessages
      /\ IsTable(turns')
  <2>1. CASE \E m \in UserMessages : TurnStart(m)
    BY <1>5, <2>1 DEF TurnStart, Typed
  <2>2. CASE \E m \in UserMessages, t \in Turns \cup {NoTurn} : ImportMessage(m, t)
    BY <1>5, <2>2 DEF ImportMessage, Typed
  <2>3. CASE \E m \in AssistantMessages, t \in Turns \cup {NoTurn}, streaming \in BOOLEAN :
               AssistantMessage(m, t, streaming)
    BY <1>5, <2>3 DEF AssistantMessage, Typed
  <2>4. CASE \E t \in Turns : SessionRunning(t) \/ InterruptRequested(t)
    BY <1>1, <2>4 DEF SessionRunning, InterruptRequested, Typed
  <2>5. CASE \E t \in Turns, n \in Count, failed \in BOOLEAN, m \in AssistantMessages :
               DiffCompleted(t, n, failed, m)
    BY <1>1, <2>5 DEF DiffCompleted, Typed
  <2>6. CASE \E n \in Count \cup {0} : Reverted(n)
    BY <1>2, <2>6 DEF Reverted, RevertTables, Typed
  <2>7. CASE \/ \E p \in Plans, t \in Turns \cup {NoTurn} : PlanUpserted(p, t)
             \/ \E a \in Activities, t \in Turns \cup {NoTurn}, r \in Requests \cup {NoRequest},
                  resolves \in BOOLEAN : ActivityAppended(a, t, r, resolves)
             \/ \E r \in Requests : ApprovalResponded(r)
    BY <1>3, <2>7 DEF PlanUpserted, ActivityAppended, ApprovalResponded, Typed
  <2> QED BY <2>1, <2>2, <2>3, <2>4, <2>5, <2>6, <2>7 DEF Next
<1>7. plans' \in Tables(Plans, Turns \cup {NoTurn})
  <2>1. CASE \E p \in Plans, t \in Turns \cup {NoTurn} : PlanUpserted(p, t)
    BY <2>1, UpsertTable DEF PlanUpserted, Typed
  <2>2. CASE \E n \in Count \cup {0} : Reverted(n)
    <3>1. \E kept : plans' = RetainByTurn(plans, kept) BY <2>2 DEF Reverted, RevertTables
    <3> QED BY <3>1, RetainTable DEF Typed
  <2>3. UNCHANGED plans => plans' \in Tables(Plans, Turns \cup {NoTurn}) BY DEF Typed
  <2> QED BY <2>1, <2>2, <2>3 DEF Next, TurnStart, ImportMessage, AssistantMessage, SessionRunning,
             InterruptRequested, DiffCompleted, ActivityAppended, ApprovalResponded
<1>9. \A r \in DOMAIN approvals : approvals[r] \in ApprovalRow
  BY DEF Typed, Tables
<1>10. \A r : \A t \in Turns \cup {NoTurn} : Resolved(r, t) \in ApprovalRow
  BY <1>9 DEF Resolved, ApprovalRow
<1>8. /\ activities' \in Tables(Activities, Turns \cup {NoTurn})
      /\ approvals' \in Tables(Requests, ApprovalRow)
  <2>1. CASE \E a \in Activities, t \in Turns \cup {NoTurn}, r \in Requests \cup {NoRequest},
                resolves \in BOOLEAN : ActivityAppended(a, t, r, resolves)
    <3>1. PICK a \in Activities, t \in Turns \cup {NoTurn}, r \in Requests \cup {NoRequest},
               resolves \in BOOLEAN : ActivityAppended(a, t, r, resolves)
      BY <2>1
    <3>2. activities' \in Tables(Activities, Turns \cup {NoTurn})
      BY <3>1, UpsertTable DEF ActivityAppended, Typed
    <3>3. ApprovalAfterActivity(r, t, resolves) \in ApprovalRow
      BY <1>9, <1>10 DEF ApprovalAfterActivity, ApprovalRow, IsResolved
    <3>4. approvals' \in Tables(Requests, ApprovalRow)
      BY <3>1, <3>3, UpsertTable DEF ActivityAppended, Typed
    <3> QED BY <3>2, <3>4
  <2>2. CASE \E r \in Requests : ApprovalResponded(r)
    BY <1>10, <2>2, UpsertTable DEF ApprovalResponded, Typed
  <2>3. CASE \E n \in Count \cup {0} : Reverted(n)
    <3>1. (\E kept : activities' = RetainByTurn(activities, kept)) /\ approvals' = approvals
      BY <2>3 DEF Reverted, RevertTables
    <3> QED BY <3>1, RetainTable DEF Typed
  <2>4. UNCHANGED <<activities, approvals>> =>
          /\ activities' \in Tables(Activities, Turns \cup {NoTurn})
          /\ approvals' \in Tables(Requests, ApprovalRow)
    BY DEF Typed
  <2> QED BY <2>1, <2>2, <2>3, <2>4 DEF Next, TurnStart, ImportMessage, AssistantMessage,
             SessionRunning, InterruptRequested, DiffCompleted, PlanUpserted
<1> QED BY <1>4, <1>6, <1>7, <1>8 DEF Typed, IsTable

(* The tables and the in-memory thread keep their shape. *)
THEOREM TypesHold == Spec => []TypeOK
<1>1. Spec => []Typed BY InitTyped, StepTyped, InductiveInvariant, PTL DEF Spec
<1>2. ASSUME IInv, MemInv, Typed PROVE TypeOK
  <2>1. turns \in Tables(Turns, TurnRow) BY <1>2, TableOf DEF IInv, TurnTable, Typed
  <2> QED BY <1>2, <2>1 DEF TypeOK, IInv, TurnTable, MemInv, ListsOK, Typed
<1> QED BY <1>1, <1>2, InductiveInvariant, MemInvariant, PTL
=============================================================================
