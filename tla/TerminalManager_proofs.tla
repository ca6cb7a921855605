------------------------- MODULE TerminalManager_proofs -------------------------
(***************************************************************************)
(* What is shown of the terminals is what runs in them, for any number of  *)
(* terminals, threads, sessions and processes and any limit.               *)
(*                                                                         *)
(* Sessions and processes refer to each other: a session has a process     *)
(* exactly while it is shown as running, that process lives, was not       *)
(* stopped, tells this session of its exit and runs in its terminal; and a *)
(* process nobody listens to is the process of no session.  The handlers   *)
(* are made of a few operations on one record of state, and a lemma for    *)
(* each of these (touch, unlist, evict, stop, close all) says which parts  *)
(* it keeps.  How many sessions an eviction leaves follows from the order  *)
(* in which they were updated: every set of them has an oldest one, and    *)
(* all others in what is kept are later than it.                           *)
(***************************************************************************)
EXTENDS TerminalManager, FiniteSetTheorems, TLAPS

(* The records the handlers work on. *)
States == [table     : [Terminals -> Nat],
           sessions  : Seq(Session),
           older     : SUBSET (Terminals \X Terminals),
           processes : Seq(Process),
           polling   : BOOLEAN]

(* The terminals of the table. *)
ShownIn(s) == {t \in Terminals : s.table[t] # None}

(* updatedAt orders the terminals of the table: every set of them has an   *)
(* oldest one.                                                             *)
Ordered(s) ==
  /\ \A t \in Terminals : <<t, t>> \notin s.older
  /\ \A S \in SUBSET ShownIn(s) :
       S # {} => \E m \in S : \A k \in S \ {m} : <<m, k>> \in s.older

(* The table leads to a session of its terminal. *)
TableKnown(s) ==
  \A t \in ShownIn(s) : s.table[t] \in DOMAIN s.sessions /\ s.sessions[s.table[t]].terminal = t

(* Process p lives and nobody stopped it. *)
Runs(s, p) == s.processes[p].alive /\ ~s.processes[p].stopped

(* A session has a process exactly while it is running; that process       *)
(* lives,                                                                  *)
(* listens to it, and was measured if the session is busy.                 *)
SessionsTrue(s) ==
  \A n \in DOMAIN s.sessions :
    LET p == s.sessions[n].process
    IN /\ s.sessions[n].status = "running" <=> p # None
       /\ s.sessions[n].busy => p # None
       /\ p # None => /\ p \in DOMAIN s.processes /\ Runs(s, p)
                      /\ s.processes[p].listener = n
                      /\ s.processes[p].terminal = s.sessions[n].terminal
                      /\ s.sessions[n].busy => s.processes[p].measured

(* Whom a process listens to has it; a timer waits for stopped ones only. *)
ListenersTrue(s) ==
  \A p \in DOMAIN s.processes :
    LET n == s.processes[p].listener
    IN /\ n # None => n \in DOMAIN s.sessions /\ s.sessions[n].process = p
       /\ s.processes[p].timer => s.processes[p].stopped

Linked(s) == TableKnown(s) /\ SessionsTrue(s) /\ ListenersTrue(s)

(* No more inactive sessions than the limit. *)
Bounded(s) == Cardinality(Inactive(s)) <= retained

(* What every handler leaves behind. *)
Good(s) == s \in States /\ Linked(s) /\ Ordered(s) /\ Bounded(s)

(* The limit is never reached, so no session is evicted. *)
Roomy == retained >= Cardinality(Terminals)

(* Every process that runs is the one of its terminal's session. *)
Reach(s) == \A p \in DOMAIN s.processes : Runs(s, p) =>
              LET n == s.table[s.processes[p].terminal]
              IN n # None /\ s.sessions[n].process = p

-----------------------------------------------------------------------------
(* Sets of terminals are finite. *)
LEMMA CountTerminals ==
  ASSUME NEW S \in SUBSET Terminals
  PROVE  IsFiniteSet(S) /\ Cardinality(S) \in Nat /\ Cardinality(S) <= Cardinality(Terminals)
BY FS_Subset, FS_CardinalityType, TerminalAssumption, Zenon

LEMMA BoundsNat == MaxSessions \in Nat /\ MaxProcesses \in Nat /\ None \in 0 .. MaxSessions /\ None \in 0 .. MaxProcesses
<1>1. MaxSessions \in Nat /\ MaxProcesses \in Nat BY TerminalAssumption
<1> QED BY <1>1 DEF None

Emptied(q, st) == [q EXCEPT !.status = st, !.process = None, !.busy = FALSE]

LEMMA Blank ==
  ASSUME NEW q \in Session, NEW st \in {"starting", "exited", "error"}
  PROVE  LET b == Emptied(q, st)
         IN /\ b \in Session /\ b.terminal = q.terminal /\ b.process = None
            /\ b.status = st /\ b.busy = FALSE
BY BoundsNat DEF Session, Emptied

LEMMA Killed ==
  ASSUME NEW q \in Process
  PROVE  LET b == [q EXCEPT !.listener = None, !.stopped = TRUE, !.timer = TRUE]
         IN /\ b \in Process /\ b.terminal = q.terminal /\ b.listener = None
            /\ b.stopped = TRUE /\ b.timer = TRUE /\ b.measured = q.measured
BY BoundsNat DEF Process

LEMMA StateParts ==
  ASSUME NEW s \in States
  PROVE  /\ s.table \in [Terminals -> Nat] /\ s.sessions \in Seq(Session)
         /\ s.older \in SUBSET (Terminals \X Terminals)
         /\ s.processes \in Seq(Process) /\ s.polling \in BOOLEAN
         /\ \A n \in DOMAIN s.sessions : s.sessions[n] \in Session /\ s.sessions[n].terminal \in Terminals
         /\ \A p \in DOMAIN s.processes : s.processes[p] \in Process /\ s.processes[p].terminal \in Terminals
<1>1. /\ s.table \in [Terminals -> Nat] /\ s.sessions \in Seq(Session)
      /\ s.older \in SUBSET (Terminals \X Terminals)
      /\ s.processes \in Seq(Process) /\ s.polling \in BOOLEAN
  BY DEF States
<1>2. \A n \in DOMAIN s.sessions : s.sessions[n] \in Session BY <1>1
<1>3. \A p \in DOMAIN s.processes : s.processes[p] \in Process BY <1>1
<1> QED BY <1>1, <1>2, <1>3 DEF Session, Process

LEMMA OlderFields ==
  ASSUME NEW s \in States, NEW new \in SUBSET (Terminals \X Terminals)
  PROVE  LET r == [s EXCEPT !.older = new]
         IN /\ r \in States /\ r.older = new
            /\ r.table = s.table /\ r.sessions = s.sessions
            /\ r.processes = s.processes /\ r.polling = s.polling
BY DEF States

(* Touch changes the order only. *)
LEMMA TouchFields ==
  ASSUME NEW s \in States, NEW n \in DOMAIN s.sessions
  PROVE  /\ Touch(s, n) \in States
         /\ Touch(s, n).table = s.table /\ Touch(s, n).sessions = s.sessions
         /\ Touch(s, n).processes = s.processes /\ Touch(s, n).polling = s.polling
         /\ s.table[s.sessions[n].terminal] = n =>
              Touch(s, n).older =
                {e \in s.older : s.sessions[n].terminal \notin {e[1], e[2]}}
                  \cup {k \in Terminals \ {s.sessions[n].terminal} : s.table[k] # None}
                         \X {s.sessions[n].terminal}
<1> DEFINE t == s.sessions[n].terminal
           new == {e \in s.older : t \notin {e[1], e[2]}}
                    \cup {k \in Terminals \ {t} : s.table[k] # None} \X {t}
<1>1. t \in Terminals /\ s.older \in SUBSET (Terminals \X Terminals) BY StateParts
<1>2. Touch(s, n) = IF s.table[t] = n THEN [s EXCEPT !.older = new] ELSE s BY DEF Touch
<1>3. new \in SUBSET (Terminals \X Terminals)
  <2> HIDE DEF t
  <2> QED BY <1>1
<1> HIDE DEF new
<1>4. CASE s.table[t] = n
  <2>1. /\ Touch(s, n) \in States /\ Touch(s, n).older = new
        /\ Touch(s, n).table = s.table /\ Touch(s, n).sessions = s.sessions
        /\ Touch(s, n).processes = s.processes /\ Touch(s, n).polling = s.polling
    BY <1>2, <1>3, <1>4, OlderFields
  <2> QED BY <2>1, Zenon DEF new
<1>5. CASE s.table[t] # n BY <1>2, <1>5
<1> QED BY <1>4, <1>5

(* The touched terminal becomes the last one; the others need only be in   *)
(* order                                                                   *)
(* among themselves.                                                       *)
LEMMA TouchOrdered ==
  ASSUME NEW s \in States, NEW n \in DOMAIN s.sessions,
         s.table[s.sessions[n].terminal] = n,
         \A t \in Terminals : <<t, t>> \notin s.older,
         \A S \in SUBSET (ShownIn(s) \ {s.sessions[n].terminal}) :
           S # {} => \E m \in S : \A k \in S \ {m} : <<m, k>> \in s.older
  PROVE  Ordered(Touch(s, n))
<1> DEFINE t == s.sessions[n].terminal
           r == Touch(s, n)
<1>1. t \in Terminals BY StateParts
<1>2. r.older = {e \in s.older : t \notin {e[1], e[2]}}
                  \cup {k \in Terminals \ {t} : s.table[k] # None} \X {t}
  BY TouchFields
<1>3. ShownIn(r) = ShownIn(s) BY TouchFields DEF ShownIn
<1>6. \A S \in SUBSET (ShownIn(s) \ {t}) :
        S # {} => \E m \in S : \A k \in S \ {m} : <<m, k>> \in s.older
  OBVIOUS
<1> HIDE DEF t, r
<1>4. \A k \in Terminals : <<k, k>> \notin r.older
  BY <1>1, <1>2
<1>5. ASSUME NEW S \in SUBSET ShownIn(s), S # {}
      PROVE  \E m \in S : \A k \in S \ {m} : <<m, k>> \in r.older
  <2>1. CASE S \ {t} = {}
    BY <2>1, <1>5
  <2>2. CASE S \ {t} # {}
    <3>1. PICK m \in S \ {t} : \A k \in (S \ {t}) \ {m} : <<m, k>> \in s.older
      BY <2>2, <1>6
    <3>2. \A k \in (S \ {t}) \ {m} : <<m, k>> \in r.older BY <3>1, <1>2
    <3>3. <<m, t>> \in r.older BY <1>2, <3>1 DEF ShownIn
    <3> QED BY <3>1, <3>2, <3>3
  <2> QED BY <2>1, <2>2
<1> QED BY <1>3, <1>4, <1>5 DEF Ordered, r

LEMMA TouchKeepsOrder ==
  ASSUME NEW s \in States, NEW n \in DOMAIN s.sessions, Ordered(s)
  PROVE  Ordered(Touch(s, n))
<1>1. CASE s.table[s.sessions[n].terminal] = n
  BY <1>1, TouchOrdered DEF Ordered
<1>2. CASE s.table[s.sessions[n].terminal] # n
  BY <1>2 DEF Touch
<1> QED BY <1>1, <1>2

(* Unlist changes the table and the order only, ... *)
LEMMA UnlistFields ==
  ASSUME NEW s \in States, NEW gone \in SUBSET Terminals
  PROVE  /\ Unlist(s, gone) \in States
         /\ Unlist(s, gone).table = [t \in Terminals |-> IF t \in gone THEN None ELSE s.table[t]]
         /\ Unlist(s, gone).sessions = s.sessions
         /\ Unlist(s, gone).processes = s.processes /\ Unlist(s, gone).polling = s.polling
         /\ Unlist(s, gone).older = {e \in s.older : {e[1], e[2]} \cap gone = {}}
BY DEF Unlist, States, None

LEMMA UnlistPoints ==
  ASSUME NEW s \in States, NEW gone \in SUBSET Terminals
  PROVE  /\ \A t \in gone : Unlist(s, gone).table[t] = None
         /\ \A t \in Terminals \ gone : Unlist(s, gone).table[t] = s.table[t]
         /\ \A t, k \in Terminals \ gone : <<t, k>> \in s.older => <<t, k>> \in Unlist(s, gone).older
         /\ Unlist(s, gone).older \subseteq s.older
<1> DEFINE r == Unlist(s, gone)
<1>1. r.table = [t \in Terminals |-> IF t \in gone THEN None ELSE s.table[t]] BY UnlistFields
<1>2. r.older = {e \in s.older : {e[1], e[2]} \cap gone = {}} BY UnlistFields
<1> HIDE DEF r
<1>3. \A t \in gone : r.table[t] = None BY <1>1
<1>4. \A t \in Terminals \ gone : r.table[t] = s.table[t] BY <1>1
<1>5. \A t, k \in Terminals \ gone : <<t, k>> \in s.older => <<t, k>> \in r.older
  <2> SUFFICES ASSUME NEW t \in Terminals \ gone, NEW k \in Terminals \ gone, <<t, k>> \in s.older
               PROVE  {<<t, k>>[1], <<t, k>>[2]} \cap gone = {}
    BY <1>2
  <2> QED OBVIOUS
<1>6. r.older \subseteq s.older BY <1>2
<1> QED BY <1>3, <1>4, <1>5, <1>6 DEF r

(* ... and keeps the order, ... *)
LEMMA UnlistOrdered ==
  ASSUME NEW s \in States, NEW gone \in SUBSET Terminals, Ordered(s)
  PROVE  Ordered(Unlist(s, gone))
<1> DEFINE r == Unlist(s, gone)
<1>0. /\ \A t \in gone : r.table[t] = None
      /\ \A t \in Terminals \ gone : r.table[t] = s.table[t]
      /\ \A t, k \in Terminals \ gone : <<t, k>> \in s.older => <<t, k>> \in r.older
      /\ r.older \subseteq s.older
  BY UnlistPoints
<1> HIDE DEF r
<1>1. ShownIn(r) = ShownIn(s) \ gone BY <1>0 DEF ShownIn
<1>2. ASSUME NEW S \in SUBSET ShownIn(r), S # {}
      PROVE  \E m \in S : \A k \in S \ {m} : <<m, k>> \in r.older
  <2>1. PICK m \in S : \A k \in S \ {m} : <<m, k>> \in s.older
    BY <1>1, <1>2 DEF Ordered
  <2>2. S \subseteq Terminals \ gone BY <1>1, <1>2 DEF ShownIn
  <2> QED BY <2>1, <2>2, <1>0
<1>3. Ordered(r) BY <1>0, <1>2 DEF Ordered
<1> QED BY <1>3 DEF r

(* ... the links between sessions and processes, ... *)
LEMMA UnlistKeeps ==
  ASSUME NEW s \in States, NEW gone \in SUBSET Terminals, Linked(s)
  PROVE  Linked(Unlist(s, gone))
<1> DEFINE r == Unlist(s, gone)
<1>0. /\ \A t \in gone : r.table[t] = None
      /\ \A t \in Terminals \ gone : r.table[t] = s.table[t]
  BY UnlistPoints
<1>1. r.sessions = s.sessions /\ r.processes = s.processes BY UnlistFields
<1> HIDE DEF r
<1>2. TableKnown(r) BY <1>0, <1>1 DEF Linked, TableKnown, ShownIn
<1>3. SessionsTrue(r) BY <1>1 DEF Linked, SessionsTrue, Runs
<1>4. ListenersTrue(r) BY <1>1 DEF Linked, ListenersTrue
<1> QED BY <1>2, <1>3, <1>4 DEF Linked, r

LEMMA UnlistInactive ==
  ASSUME NEW s \in States, NEW gone \in SUBSET Terminals
  PROVE  Inactive(Unlist(s, gone)) = Inactive(s) \ gone
<1> DEFINE r == Unlist(s, gone)
<1>0. /\ \A t \in gone : r.table[t] = None
      /\ \A t \in Terminals \ gone : r.table[t] = s.table[t]
  BY UnlistPoints
<1>1. r.sessions = s.sessions BY UnlistFields
<1> HIDE DEF r
<1>2. Inactive(r) = Inactive(s) \ gone BY <1>0, <1>1 DEF Inactive
<1> QED BY <1>2 DEF r

(* ... and the bound. *)
LEMMA UnlistBounded ==
  ASSUME NEW s \in States, NEW gone \in SUBSET Terminals, Bounded(s), retained \in Nat
  PROVE  Bounded(Unlist(s, gone))
<1>1. Inactive(s) \in SUBSET Terminals BY DEF Inactive
<1>2. Cardinality(Inactive(s) \ gone) <= Cardinality(Inactive(s))
  BY <1>1, CountTerminals, FS_Subset
<1>3. Cardinality(Inactive(s)) \in Nat /\ Cardinality(Inactive(s) \ gone) \in Nat
  BY <1>1, CountTerminals
<1> QED BY <1>2, <1>3, UnlistInactive DEF Bounded

(* Eviction takes sessions from the table, and none while there is room. *)
LEMMA EvictUnlists ==
  ASSUME NEW s \in States
  PROVE  \E gone \in SUBSET Terminals : Evict(s) = Unlist(s, gone) /\ (Roomy /\ Ordered(s) /\ retained \in Nat => gone = {})
<1> DEFINE gone == {t \in Inactive(s) : Cardinality(Later(s, t)) >= retained}
<1>1. gone \in SUBSET Terminals BY DEF Inactive
<1>2. ASSUME Roomy, Ordered(s), retained \in Nat, NEW t \in gone PROVE FALSE
  <2>1. Later(s, t) \in SUBSET (Terminals \ {t}) /\ t \in Terminals
    BY <1>1, <1>2 DEF Later, Inactive, Ordered
  <2>2. IsFiniteSet(Terminals \ {t}) /\ Cardinality(Terminals \ {t}) = Cardinality(Terminals) - 1
    BY <2>1, FS_RemoveElement, TerminalAssumption
  <2>3. Cardinality(Later(s, t)) <= Cardinality(Terminals \ {t})
    BY <2>1, <2>2, FS_Subset
  <2>4. Cardinality(Terminals) \in Nat /\ Cardinality(Later(s, t)) \in Nat
    BY <2>1, CountTerminals
  <2> QED BY <1>2, <2>2, <2>3, <2>4 DEF Roomy
<1> QED BY <1>1, <1>2 DEF Evict

(* Eviction restores the bound: the oldest of what is kept has all the     *)
(* others                                                                  *)
(* later than itself.                                                      *)
LEMMA EvictBounded ==
  ASSUME NEW s \in States, Ordered(s), retained \in Nat
  PROVE  Bounded(Evict(s))
<1> DEFINE gone == {t \in Inactive(s) : Cardinality(Later(s, t)) >= retained}
           kept == Inactive(s) \ gone
<1>1. gone \in SUBSET Terminals /\ kept \in SUBSET Terminals /\ kept \in SUBSET ShownIn(s)
  BY DEF Inactive, ShownIn
<1>2. Inactive(Evict(s)) = kept BY <1>1, UnlistInactive DEF Evict
<1>3. CASE kept = {} BY <1>2, <1>3, FS_EmptySet DEF Bounded
<1>4. CASE kept # {}
  <2>1. PICK m \in kept : \A k \in kept \ {m} : <<m, k>> \in s.older
    BY <1>1, <1>4 DEF Ordered
  <2>2. kept \ {m} \subseteq Later(s, m) /\ Later(s, m) \in SUBSET Terminals
    BY <2>1 DEF Later, Inactive
  <2>3. /\ Cardinality(kept \ {m}) <= Cardinality(Later(s, m))
        /\ Cardinality(kept \ {m}) = Cardinality(kept) - 1
    BY <1>1, <2>1, <2>2, CountTerminals, FS_Subset, FS_RemoveElement
  <2>4. Cardinality(Later(s, m)) \in Nat /\ Cardinality(kept) \in Nat
    BY <1>1, <2>2, CountTerminals
  <2>5. Cardinality(Later(s, m)) < retained BY <2>1, <2>4
  <2> QED BY <1>2, <2>3, <2>4, <2>5 DEF Bounded
<1> QED BY <1>3, <1>4

-----------------------------------------------------------------------------
(* The shape of what the handlers do to a state. *)

(* From s to r no session but n has changed, and n has no process. *)
SameBut(s, r, n) ==
  /\ DOMAIN r.sessions = DOMAIN s.sessions
  /\ \A k \in DOMAIN s.sessions \ {n} : r.sessions[k] = s.sessions[k]
  /\ r.sessions[n].terminal = s.sessions[n].terminal
  /\ r.sessions[n].process = None

(* Idle takes the process from one session. *)
LEMMA IdleFields ==
  ASSUME NEW s \in States, NEW n \in DOMAIN s.sessions,
         NEW st \in {"starting", "exited", "error"}
  PROVE  /\ Idle(s, n, st) \in States
         /\ SameBut(s, Idle(s, n, st), n)
         /\ Idle(s, n, st).sessions[n].status = st /\ ~Idle(s, n, st).sessions[n].busy
         /\ Idle(s, n, st).table = s.table
         /\ Idle(s, n, st).processes = s.processes /\ Idle(s, n, st).polling = s.polling
         /\ Ordered(s) => Ordered(Idle(s, n, st))
<1> DEFINE q == Emptied(s.sessions[n], st)
           m == [s EXCEPT !.sessions[n] = q]
<1>1. s.sessions \in Seq(Session) /\ s.sessions[n] \in Session BY StateParts
<1>2. /\ q \in Session /\ q.terminal = s.sessions[n].terminal /\ q.process = None
      /\ q.status = st /\ q.busy = FALSE
  BY <1>1, Blank
<1>3. Idle(s, n, st) = Touch(m, n) BY DEF Idle, Emptied
<1> HIDE DEF q
<1>4. [s.sessions EXCEPT ![n] = q] \in Seq(Session) BY <1>1, <1>2
<1>5. /\ m \in States /\ m.sessions = [s.sessions EXCEPT ![n] = q]
      /\ m.table = s.table /\ m.processes = s.processes /\ m.polling = s.polling
      /\ m.older = s.older
  BY <1>4 DEF States
<1> HIDE DEF m
<1>6. n \in DOMAIN m.sessions BY <1>5
<1>7. Ordered(s) => Ordered(m) BY <1>5 DEF Ordered, ShownIn
<1>8. SameBut(s, m, n) /\ m.sessions[n] = q BY <1>1, <1>2, <1>5 DEF SameBut
<1> QED BY <1>2, <1>3, <1>5, <1>6, <1>7, <1>8, TouchFields, TouchKeepsOrder DEF SameBut

(* A session whose process is taken from it. *)
LEMMA Released ==
  ASSUME NEW s \in States, NEW r \in States, Linked(s), NEW n \in DOMAIN s.sessions,
         SameBut(s, r, n), r.sessions[n].status # "running", ~r.sessions[n].busy,
         r.table = s.table,
         DOMAIN r.processes = DOMAIN s.processes,
         \A p \in DOMAIN s.processes :
           IF p = s.sessions[n].process
           THEN r.processes[p].listener = None /\ (r.processes[p].timer => r.processes[p].stopped)
           ELSE r.processes[p] = s.processes[p]
  PROVE  Linked(r)
<1>1. TableKnown(r) BY DEF Linked, TableKnown, ShownIn, SameBut
<1>2. SessionsTrue(r)
  <2> SUFFICES ASSUME NEW k \in DOMAIN s.sessions
               PROVE  LET p == r.sessions[k].process
                      IN /\ r.sessions[k].status = "running" <=> p # None
                         /\ r.sessions[k].busy => p # None
                         /\ p # None => /\ p \in DOMAIN r.processes /\ Runs(r, p)
                                        /\ r.processes[p].listener = k
                                        /\ r.processes[p].terminal = r.sessions[k].terminal
                                        /\ r.sessions[k].busy => r.processes[p].measured
    BY DEF SessionsTrue, SameBut
  <2>1. CASE k = n BY <2>1 DEF SameBut
  <2>2. CASE k # n
    <3>1. s.sessions[k].process # None => s.sessions[k].process # s.sessions[n].process
      BY <2>2 DEF Linked, SessionsTrue
    <3> QED BY <2>2, <3>1 DEF Linked, SessionsTrue, SameBut, Runs
  <2> QED BY <2>1, <2>2
<1>3. ListenersTrue(r)
  <2> SUFFICES ASSUME NEW p \in DOMAIN s.processes
               PROVE  /\ r.processes[p].listener # None =>
                           /\ r.processes[p].listener \in DOMAIN r.sessions
                           /\ r.sessions[r.processes[p].listener].process = p
                      /\ r.processes[p].timer => r.processes[p].stopped
    BY DEF ListenersTrue
  <2>1. CASE p = s.sessions[n].process BY <2>1
  <2>2. CASE p # s.sessions[n].process BY <2>2 DEF Linked, ListenersTrue, SameBut
  <2> QED BY <2>1, <2>2
<1> QED BY <1>1, <1>2, <1>3 DEF Linked

(* Sessions may have left the table, and none while there is room. *)
Shrunk(s, r) ==
  /\ \A t \in Terminals : r.table[t] \in {None, s.table[t]}
  /\ Roomy => r.table = s.table

LEMMA EvictEffect ==
  ASSUME NEW s \in States, Linked(s), Ordered(s), retained \in Nat
  PROVE  LET r == Evict(s)
         IN /\ r \in States /\ Linked(r) /\ Ordered(r) /\ Bounded(r) /\ Shrunk(s, r)
            /\ r.sessions = s.sessions /\ r.processes = s.processes
<1>1. PICK gone \in SUBSET Terminals : Evict(s) = Unlist(s, gone) /\ (Roomy => gone = {})
  BY EvictUnlists
<1>2. \A t \in Terminals : Evict(s).table[t] \in {None, s.table[t]} BY <1>1, UnlistPoints
<1>3. Evict(s) \in States /\ Evict(s).sessions = s.sessions /\ Evict(s).processes = s.processes
  <2>1. /\ Unlist(s, gone) \in States /\ Unlist(s, gone).sessions = s.sessions
        /\ Unlist(s, gone).processes = s.processes
    BY UnlistFields
  <2> QED BY <1>1, <2>1
<1>4. Roomy => Evict(s).table = s.table
  <2> SUFFICES ASSUME Roomy PROVE Evict(s).table = s.table OBVIOUS
  <2>1. \A t \in Terminals : Evict(s).table[t] = s.table[t] BY <1>1, UnlistPoints
  <2>2. Evict(s).table \in [Terminals -> Nat] /\ s.table \in [Terminals -> Nat]
    BY <1>3, StateParts
  <2> QED BY <2>1, <2>2
<1> QED BY <1>1, <1>2, <1>3, <1>4, UnlistKeeps, UnlistOrdered, EvictBounded DEF Shrunk

LEMMA PollingEffect ==
  ASSUME NEW s \in States
  PROVE  LET r == UpdatePolling(s)
         IN /\ r \in States /\ r.sessions = s.sessions /\ r.processes = s.processes
            /\ r.table = s.table /\ r.older = s.older
            /\ (Linked(s) => Linked(r)) /\ (Ordered(s) => Ordered(r)) /\ (Bounded(s) => Bounded(r))
<1> DEFINE r == UpdatePolling(s)
<1>1. /\ r \in States /\ r.sessions = s.sessions /\ r.processes = s.processes
      /\ r.table = s.table /\ r.older = s.older
  BY DEF UpdatePolling, States
<1> HIDE DEF r
<1>2. Linked(s) => Linked(r)
  BY <1>1 DEF Linked, TableKnown, SessionsTrue, ListenersTrue, ShownIn, Runs
<1>3. Ordered(s) => Ordered(r) BY <1>1 DEF Ordered, ShownIn
<1>4. Bounded(s) => Bounded(r)
  <2>1. Inactive(r) = Inactive(s) BY <1>1 DEF Inactive
  <2> QED BY <2>1 DEF Bounded
<1> QED BY <1>1, <1>2, <1>3, <1>4 DEF r

-----------------------------------------------------------------------------
(* What stopProcess makes of a state. *)
Stopped(s, r, n) ==
  /\ r \in States /\ Linked(r) /\ Ordered(r) /\ (Bounded(s) => Bounded(r))
  /\ SameBut(s, r, n) /\ Shrunk(s, r)
  /\ DOMAIN r.processes = DOMAIN s.processes
  /\ \A p \in DOMAIN s.processes :
       /\ r.processes[p].terminal = s.processes[p].terminal
       /\ Runs(r, p) => Runs(s, p) /\ p # s.sessions[n].process
       /\ s.processes[p].measured => r.processes[p].measured

(* stopProcess leaves a good state, whoever calls it. *)
LEMMA StopEffect ==
  ASSUME NEW s \in States, Linked(s), Ordered(s), retained \in Nat, NEW n \in DOMAIN s.sessions
  PROVE  Stopped(s, Stop(s, n), n)
<1> DEFINE p == s.sessions[n].process
           idle == Idle(s, n, "exited")
           deaf == [idle EXCEPT !.processes[p].listener = None]
           dead == Kill(deaf, p)
<1>1. CASE p = None
  <2>1. Stop(s, n) = s BY <1>1 DEF Stop
  <2>2. \A q \in DOMAIN s.processes : q # p
    BY <1>1, StateParts DEF None
  <2>3. Shrunk(s, s) BY DEF Shrunk
  <2>4. SameBut(s, s, n) BY <1>1 DEF SameBut
  <2> QED BY <2>1, <2>2, <2>3, <2>4 DEF Stopped
<1>2. CASE p # None
  <2>1. Stop(s, n) = UpdatePolling(Evict(dead)) BY <1>2 DEF Stop
  <2>2. /\ idle \in States /\ SameBut(s, idle, n) /\ idle.sessions[n].status # "running"
        /\ ~idle.sessions[n].busy /\ idle.table = s.table
        /\ idle.processes = s.processes /\ Ordered(idle)
    BY IdleFields
  <2>3. p \in DOMAIN s.processes /\ s.processes[p] \in Process /\ s.processes \in Seq(Process)
    BY <1>2, StateParts DEF Linked, SessionsTrue
  <2>4. dead = [idle EXCEPT !.processes =
                  [s.processes EXCEPT ![p] = [@ EXCEPT !.listener = None, !.stopped = TRUE, !.timer = TRUE]]]
    BY <2>2, <2>3 DEF Kill, States
  <2> DEFINE c == [s.processes[p] EXCEPT !.listener = None, !.stopped = TRUE, !.timer = TRUE]
             ps == [s.processes EXCEPT ![p] = c]
  <2>5. /\ c \in Process /\ c.listener = None /\ c.stopped = TRUE /\ c.timer = TRUE
        /\ c.terminal = s.processes[p].terminal /\ c.measured = s.processes[p].measured
    BY <2>3, Killed
  <2> HIDE DEF idle, deaf
  <2>6. dead = [idle EXCEPT !.processes = ps] BY <2>4
  <2> HIDE DEF dead, c
  <2>7. ps \in Seq(Process) BY <2>3, <2>5
  <2>8. /\ dead \in States /\ dead.processes = ps /\ dead.table = s.table
        /\ dead.sessions = idle.sessions /\ dead.older = idle.older
    BY <2>2, <2>6, <2>7 DEF States
  <2>9. SameBut(s, dead, n) /\ dead.sessions[n].status # "running" /\ ~dead.sessions[n].busy
    BY <2>2, <2>8 DEF SameBut
  <2>10. /\ DOMAIN dead.processes = DOMAIN s.processes
         /\ \A q \in DOMAIN s.processes :
              IF q = p THEN dead.processes[q] = c ELSE dead.processes[q] = s.processes[q]
    BY <2>3, <2>8
  <2>11. Linked(dead) BY <2>5, <2>8, <2>9, <2>10, Released
  <2>12. Ordered(dead) BY <2>2, <2>8 DEF Ordered, ShownIn
  <2> DEFINE e == Evict(dead)
             r == UpdatePolling(e)
  <2>13. /\ e \in States /\ Linked(e) /\ Ordered(e) /\ Bounded(e) /\ Shrunk(dead, e)
         /\ e.sessions = dead.sessions /\ e.processes = dead.processes
    BY <2>8, <2>11, <2>12, EvictEffect
  <2> HIDE DEF e
  <2>14. /\ r \in States /\ r.sessions = e.sessions /\ r.processes = e.processes
         /\ r.table = e.table /\ Linked(r) /\ Ordered(r) /\ Bounded(r)
    BY <2>13, PollingEffect
  <2>15. Stop(s, n) = r BY <2>1 DEF e
  <2> HIDE DEF r, p
  <2>16. SameBut(s, r, n) BY <2>9, <2>13, <2>14 DEF SameBut
  <2>17. Shrunk(s, r) BY <2>8, <2>13, <2>14 DEF Shrunk
  <2>18. /\ DOMAIN r.processes = DOMAIN s.processes
         /\ \A q \in DOMAIN s.processes :
              /\ r.processes[q].terminal = s.processes[q].terminal
              /\ Runs(r, q) => Runs(s, q) /\ q # p
              /\ s.processes[q].measured => r.processes[q].measured
    BY <2>5, <2>10, <2>13, <2>14 DEF Runs
  <2> QED BY <2>14, <2>15, <2>16, <2>17, <2>18 DEF Stopped, p
<1> QED BY <1>1, <1>2

(* Nothing that runs gets out of reach when a session is stopped. *)
LEMMA StopKeepsReach ==
  ASSUME NEW s \in States, NEW r, NEW n \in DOMAIN s.sessions, Linked(s), Roomy,
         Stopped(s, r, n), Reach(s)
  PROVE  Reach(r)
<1> SUFFICES ASSUME NEW p \in DOMAIN s.processes, Runs(r, p)
             PROVE  LET k == r.table[r.processes[p].terminal]
                    IN k # None /\ r.sessions[k].process = p
  BY DEF Reach, Stopped
<1> DEFINE k == s.table[s.processes[p].terminal]
<1>1. Runs(s, p) /\ p # s.sessions[n].process BY DEF Stopped
<1>2. k # None /\ s.sessions[k].process = p BY <1>1 DEF Reach
<1>3. s.processes[p].terminal \in Terminals BY StateParts
<1>4. k \in DOMAIN s.sessions BY <1>2, <1>3 DEF Linked, TableKnown, ShownIn
<1>5. r.table[r.processes[p].terminal] = k BY DEF Stopped, Shrunk
<1>6. r.sessions[k] = s.sessions[k] BY <1>1, <1>2, <1>4 DEF Stopped, SameBut
<1> QED BY <1>2, <1>5, <1>6

-----------------------------------------------------------------------------
(* Sessions that are closed one after the other. *)

(* Every set of numbers has a least one. *)
LEMMA LeastNat ==
  ASSUME NEW S \in SUBSET Nat, S # {}
  PROVE  \E m \in S : \A k \in S : m <= k
<1> DEFINE T == {0 .. n : n \in S}
<1>1. T \subseteq FiniteSubsetsOf(Nat)
  <2> SUFFICES ASSUME NEW n \in S PROVE 0 .. n \in SUBSET Nat /\ IsFiniteSet(0 .. n)
    BY Zenon DEF FiniteSubsetsOf
  <2> QED BY FS_Interval, SMT
<1>2. T # {} OBVIOUS
<1>3. IsWellFoundedOn(StrictSubsetOrdering(Nat), FiniteSubsetsOf(Nat))
  BY FS_StrictSubsetOrderingWellFounded
<1>4. \E x \in T : \A y \in T : <<y, x>> \notin StrictSubsetOrdering(Nat)
  BY <1>1, <1>2, <1>3, WFMin
<1>5. PICK m \in S : \A k \in S : <<0 .. k, 0 .. m>> \notin StrictSubsetOrdering(Nat)
  BY <1>4
<1> SUFFICES ASSUME NEW k \in S, k < m PROVE FALSE OBVIOUS
<1>6. <<0 .. k, 0 .. m>> \in StrictSubsetOrdering(Nat) BY DEF StrictSubsetOrdering
<1> QED BY <1>5, <1>6

(* Induction, for a property that is given by the set of its numbers. *)
LEMMA Induction ==
  ASSUME NEW S, 0 \in S, \A n \in Nat : n \in S => n + 1 \in S
  PROVE  Nat \subseteq S
<1> SUFFICES ASSUME Nat \ S # {} PROVE FALSE OBVIOUS
<1>1. PICK m \in Nat \ S : \A k \in Nat \ S : m <= k BY LeastNat
<1> QED BY <1>1

(* One turn of the loop that closes sessions, and g the states it goes     *)
(* through.                                                                *)
CloseNext(s, x, n, closing) ==
  IF n \in closing THEN Unlist(Stop(x, n), {s.sessions[n].terminal}) ELSE x

ClosesAll(s, closing, m, g) ==
  g = [n \in 0 .. m |-> IF n = 0 THEN s ELSE CloseNext(s, g[n - 1], n, closing)]

(* These states exist, for every number of turns, ... *)
LEMMA CloseAllExists ==
  ASSUME NEW s, NEW closing
  PROVE  \A m \in Nat : \E g : ClosesAll(s, closing, m, g)
<1> DEFINE S == {m \in Nat : \E g : ClosesAll(s, closing, m, g)}
<1>1. 0 \in S
  <2>1. ClosesAll(s, closing, 0, [n \in 0 .. 0 |-> s]) BY DEF ClosesAll
  <2> QED BY <2>1
<1>2. ASSUME NEW m \in Nat, m \in S PROVE m + 1 \in S
  <2>1. PICK g : ClosesAll(s, closing, m, g) BY <1>2
  <2> DEFINE last == CloseNext(s, g[m], m + 1, closing)
             h == [n \in 0 .. m + 1 |-> IF n = m + 1 THEN last ELSE g[n]]
  <2>2. ASSUME NEW n \in 0 .. m + 1
        PROVE  h[n] = IF n = 0 THEN s ELSE CloseNext(s, h[n - 1], n, closing)
    <3>1. CASE n = m + 1
      <4>1. h[n - 1] = g[m] BY <3>1
      <4> QED BY <3>1, <4>1
    <3>2. CASE n \in 0 .. m /\ n # 0
      <4>1. g[n] = CloseNext(s, g[n - 1], n, closing) BY <2>1, <3>2 DEF ClosesAll
      <4>2. h[n] = g[n] /\ h[n - 1] = g[n - 1] BY <3>2
      <4> QED BY <3>2, <4>1, <4>2
    <3>3. CASE n = 0 BY <2>1, <3>3 DEF ClosesAll
    <3> QED BY <3>1, <3>2, <3>3
  <2> DEFINE goal == [n \in 0 .. m + 1 |-> IF n = 0 THEN s ELSE CloseNext(s, h[n - 1], n, closing)]
  <2>3. h = goal BY <2>2
  <2>4. ClosesAll(s, closing, m + 1, h) BY <2>3 DEF ClosesAll
  <2> QED BY <2>4
<1> HIDE DEF S
<1>3. Nat \subseteq S BY <1>1, <1>2, Induction
<1> QED BY <1>3 DEF S

(* ... so CloseAll is the last of them. *)
LEMMA CloseAllEquation ==
  ASSUME NEW s \in States, NEW closing
  PROVE  \E g : /\ CloseAll(s, closing) = g[Len(s.sessions)] /\ g[0] = s
               /\ \A n \in 1 .. Len(s.sessions) : g[n] = CloseNext(s, g[n - 1], n, closing)
<1> DEFINE N == Len(s.sessions)
           g == CHOOSE h : ClosesAll(s, closing, N, h)
<1>1. N \in Nat BY StateParts
<1>2. ClosesAll(s, closing, N, g) BY <1>1, CloseAllExists
<1>3. CloseAll(s, closing) = g[N] BY DEF CloseAll, ClosesAll, CloseNext
<1> HIDE DEF g
<1>4. g[0] = s BY <1>1, <1>2 DEF ClosesAll
<1>5. \A n \in 1 .. N : g[n] = CloseNext(s, g[n - 1], n, closing) BY <1>1, <1>2 DEF ClosesAll
<1> QED BY <1>3, <1>4, <1>5

(* What closing some of the sessions of s makes of it. *)
Closed(s, x, closing) ==
  /\ x \in States /\ Linked(x) /\ Ordered(x) /\ (Bounded(s) => Bounded(x))
  /\ DOMAIN x.sessions = DOMAIN s.sessions
  /\ \A k \in DOMAIN s.sessions :
       /\ x.sessions[k].terminal = s.sessions[k].terminal
       /\ s.sessions[k].process = None => x.sessions[k].process = None
  /\ \A t \in Terminals :
       /\ x.table[t] \in {None, s.table[t]}
       /\ Roomy /\ (\A n \in closing : s.sessions[n].terminal # t) => x.table[t] = s.table[t]
  /\ DOMAIN x.processes = DOMAIN s.processes
  /\ \A p \in DOMAIN s.processes :
       /\ x.processes[p].terminal = s.processes[p].terminal
       /\ s.processes[p].measured => x.processes[p].measured
  /\ Roomy /\ Reach(s) => Reach(x)

(* One more session closed is still a closing of sessions, ... *)
LEMMA CloseNextEffect ==
  ASSUME NEW s \in States, NEW x, NEW closing \in SUBSET DOMAIN s.sessions, retained \in Nat,
         NEW n \in DOMAIN s.sessions,
         \A k \in closing : s.table[s.sessions[k].terminal] \in {None, k},
         Closed(s, x, closing)
  PROVE  Closed(s, CloseNext(s, x, n, closing), closing)
<1>1. CASE n \notin closing BY <1>1 DEF CloseNext
<1>2. CASE n \in closing
  <2> DEFINE t == s.sessions[n].terminal
             y == Stop(x, n)
             z == Unlist(y, {t})
  <2>1. CloseNext(s, x, n, closing) = z BY <1>2 DEF CloseNext
  <2>2. n \in DOMAIN x.sessions /\ x \in States /\ Linked(x) /\ Ordered(x) BY DEF Closed
  <2>3. Stopped(x, y, n) BY <2>2, StopEffect
  <2>4. t \in Terminals BY StateParts
  <2> HIDE DEF y, t
  <2>5. y \in States /\ Linked(y) /\ Ordered(y) /\ (Bounded(x) => Bounded(y)) BY <2>3 DEF Stopped
  <2>6. /\ z \in States /\ z.sessions = y.sessions /\ z.processes = y.processes
        /\ Linked(z) /\ Ordered(z) /\ (Bounded(y) => Bounded(z))
    <3>1. {t} \in SUBSET Terminals BY <2>4
    <3>2. z \in States /\ z.sessions = y.sessions /\ z.processes = y.processes
      BY <2>5, <3>1, UnlistFields
    <3> QED BY <2>5, <3>1, <3>2, UnlistKeeps, UnlistOrdered, UnlistBounded
  <2>7. z.table[t] = None /\ \A u \in Terminals \ {t} : z.table[u] = y.table[u]
    <3>1. {t} \in SUBSET Terminals BY <2>4
    <3> QED BY <2>5, <3>1, UnlistPoints
  <2> HIDE DEF z
  <2>8. /\ DOMAIN z.sessions = DOMAIN s.sessions
        /\ \A k \in DOMAIN s.sessions :
             /\ z.sessions[k].terminal = s.sessions[k].terminal
             /\ s.sessions[k].process = None => z.sessions[k].process = None
    BY <2>3, <2>6 DEF Closed, Stopped, SameBut
  <2>9. ASSUME NEW u \in Terminals
        PROVE  /\ z.table[u] \in {None, s.table[u]}
               /\ Roomy /\ (\A k \in closing : s.sessions[k].terminal # u) => z.table[u] = s.table[u]
    <3>1. CASE u = t BY <1>2, <2>7, <3>1 DEF t
    <3>2. CASE u # t BY <2>3, <2>7, <3>2 DEF Closed, Stopped, Shrunk
    <3> QED BY <3>1, <3>2
  <2>10. /\ DOMAIN z.processes = DOMAIN s.processes
         /\ \A p \in DOMAIN s.processes :
              /\ z.processes[p].terminal = s.processes[p].terminal
              /\ s.processes[p].measured => z.processes[p].measured
    BY <2>3, <2>6 DEF Closed, Stopped
  <2>11. ASSUME Roomy, Reach(s) PROVE Reach(z)
    <3>1. Reach(x) BY <2>11 DEF Closed
    <3>2. Reach(y) BY <2>2, <2>3, <2>11, <3>1, StopKeepsReach
    <3>3. y.sessions[n].process = None BY <2>3 DEF Stopped, SameBut
    <3>4. y.table[t] \in {None, n}
      BY <1>2, <2>3, <2>4 DEF Closed, Stopped, Shrunk, t
    <3> SUFFICES ASSUME NEW p \in DOMAIN z.processes, Runs(z, p)
                 PROVE  LET k == z.table[z.processes[p].terminal]
                        IN k # None /\ z.sessions[k].process = p
      BY DEF Reach
    <3>5. p \in DOMAIN y.processes /\ Runs(y, p) /\ p # None
      BY <2>5, <2>6, StateParts DEF Runs, None
    <3>6. y.processes[p].terminal \in Terminals BY <2>5, <3>5, StateParts
    <3>7. y.processes[p].terminal # t BY <3>2, <3>3, <3>4, <3>5 DEF Reach
    <3> QED BY <2>6, <2>7, <3>2, <3>5, <3>6, <3>7 DEF Reach
  <2> QED BY <2>1, <2>5, <2>6, <2>8, <2>9, <2>10, <2>11 DEF Closed
<1> QED BY <1>1, <1>2

(* ... and so is all of it. *)
LEMMA CloseAllEffect ==
  ASSUME NEW s \in States, Linked(s), Ordered(s), retained \in Nat,
         NEW closing \in SUBSET DOMAIN s.sessions,
         \A k \in closing : s.table[s.sessions[k].terminal] \in {None, k}
  PROVE  Closed(s, CloseAll(s, closing), closing)
<1> DEFINE N == Len(s.sessions)
<1>1. N \in Nat /\ DOMAIN s.sessions = 1 .. N BY StateParts
<1>2. PICK g : /\ CloseAll(s, closing) = g[N] /\ g[0] = s
               /\ \A n \in 1 .. N : g[n] = CloseNext(s, g[n - 1], n, closing)
  BY CloseAllEquation
<1> HIDE DEF N
<1> DEFINE S == {n \in Nat : n <= N => Closed(s, g[n], closing)}
<1>3. 0 \in S
  <2>1. Closed(s, s, closing) BY DEF Closed
  <2> QED BY <1>2, <2>1
<1>4. ASSUME NEW n \in Nat, n \in S PROVE n + 1 \in S
  <2> SUFFICES ASSUME n + 1 <= N PROVE Closed(s, g[n + 1], closing) OBVIOUS
  <2>1. Closed(s, g[n], closing) BY <1>1, <1>4
  <2>2. n + 1 \in 1 .. N BY <1>1
  <2>3. g[n + 1] = CloseNext(s, g[n], n + 1, closing)
    <3>1. (n + 1) - 1 = n OBVIOUS
    <3> QED BY <1>2, <2>2, <3>1
  <2> QED BY <1>1, <2>1, <2>2, <2>3, CloseNextEffect
<1> HIDE DEF S
<1>5. Nat \subseteq S BY <1>3, <1>4, Induction
<1> QED BY <1>1, <1>2, <1>5 DEF S

-----------------------------------------------------------------------------
(* The operations that build on stopProcess. *)

(* startSession stops, so it has the effect of a stop. *)
LEMMA StartEffect ==
  ASSUME NEW s \in States, Linked(s), Ordered(s), retained \in Nat, NEW n \in DOMAIN s.sessions
  PROVE  Stopped(s, StartSession(s, n), n)
<1> DEFINE y == Stop(s, n)
           z == Idle(y, n, "starting")
<1>1. Stopped(s, y, n) BY StopEffect
<1>2. StartSession(s, n) = z BY DEF StartSession
<1> HIDE DEF y
<1>3. y \in States /\ Linked(y) /\ Ordered(y) /\ n \in DOMAIN y.sessions /\ y.sessions[n].process = None
  BY <1>1 DEF Stopped, SameBut
<1>4. /\ z \in States /\ SameBut(y, z, n) /\ z.sessions[n].status = "starting"
      /\ ~z.sessions[n].busy /\ z.table = y.table /\ z.processes = y.processes /\ Ordered(z)
  BY <1>3, IdleFields
<1> HIDE DEF z
<1>5. Linked(z)
  <2>1. \A p \in DOMAIN y.processes : p # y.sessions[n].process BY <1>3, StateParts DEF None
  <2> QED BY <1>3, <1>4, <2>1, Released
<1>6. Inactive(z) = Inactive(y)
  <2>1. y.sessions[n].status # "running" BY <1>3 DEF Linked, SessionsTrue
  <2>2. \A k \in DOMAIN y.sessions : z.sessions[k].status = "running" <=> y.sessions[k].status = "running"
    BY <1>4, <2>1 DEF SameBut
  <2>3. \A t \in Terminals : y.table[t] # None => y.table[t] \in DOMAIN y.sessions
    BY <1>3 DEF Linked, TableKnown, ShownIn
  <2> QED BY <1>4, <2>2, <2>3 DEF Inactive
<1>7. Bounded(s) => Bounded(z) BY <1>1, <1>6 DEF Stopped, Bounded
<1>8. SameBut(s, z, n) BY <1>1, <1>4 DEF Stopped, SameBut
<1>9. Shrunk(s, z) BY <1>1, <1>4 DEF Stopped, Shrunk
<1>10. \A p : Runs(z, p) <=> Runs(y, p) BY <1>4 DEF Runs
<1> QED BY <1>1, <1>2, <1>4, <1>5, <1>7, <1>8, <1>9, <1>10 DEF Stopped

(* A session that becomes inactive, while its process ends (p) or has none. *)
LEMMA EndEffect ==
  ASSUME NEW s \in States, NEW x \in States, NEW n \in DOMAIN s.sessions,
         NEW st \in {"exited", "error"}, Linked(s), Ordered(s), retained \in Nat,
         x.table = s.table, x.sessions = s.sessions, x.older = s.older,
         DOMAIN x.processes = DOMAIN s.processes,
         \A p \in DOMAIN s.processes :
           IF p = s.sessions[n].process
           THEN /\ x.processes[p].listener = None /\ ~Runs(x, p)
                /\ x.processes[p].timer => x.processes[p].stopped
                /\ x.processes[p].terminal = s.processes[p].terminal
                /\ x.processes[p].measured = s.processes[p].measured
           ELSE x.processes[p] = s.processes[p]
  PROVE  Stopped(s, UpdatePolling(Evict(Idle(x, n, st))), n)
<1> DEFINE y == Idle(x, n, st)
           e == Evict(y)
           r == UpdatePolling(e)
<1>1. Ordered(x) BY DEF Ordered, ShownIn
<1>2. /\ y \in States /\ SameBut(x, y, n) /\ y.sessions[n].status # "running"
      /\ ~y.sessions[n].busy /\ y.table = x.table /\ y.processes = x.processes /\ Ordered(y)
  BY <1>1, IdleFields
<1> HIDE DEF y
<1>3. SameBut(s, y, n) BY <1>2 DEF SameBut
<1>4. Linked(y) BY <1>2, <1>3, Released
<1>5. /\ e \in States /\ Linked(e) /\ Ordered(e) /\ Bounded(e) /\ Shrunk(y, e)
      /\ e.sessions = y.sessions /\ e.processes = y.processes
  BY <1>2, <1>4, EvictEffect
<1> HIDE DEF e
<1>6. /\ r \in States /\ r.sessions = e.sessions /\ r.processes = e.processes
      /\ r.table = e.table /\ Linked(r) /\ Ordered(r) /\ Bounded(r)
  BY <1>5, PollingEffect
<1> HIDE DEF r
<1>7. SameBut(s, r, n) BY <1>3, <1>5, <1>6 DEF SameBut
<1>8. Shrunk(s, r) BY <1>2, <1>5, <1>6 DEF Shrunk
<1>9. \A p \in DOMAIN s.processes :
        /\ r.processes[p].terminal = s.processes[p].terminal
        /\ Runs(r, p) => Runs(s, p) /\ p # s.sessions[n].process
        /\ s.processes[p].measured => r.processes[p].measured
  BY <1>2, <1>5, <1>6 DEF Runs
<1>10. DOMAIN r.processes = DOMAIN s.processes BY <1>2, <1>5, <1>6
<1> QED BY <1>6, <1>7, <1>8, <1>9, <1>10 DEF Stopped, r, e, y

Newborn(t) == [terminal |-> t, status |-> "starting", process |-> None, busy |-> FALSE]

(* A new session, and what its creation may evict. *)
LEMMA CreateEffect ==
  ASSUME NEW s \in States, Linked(s), Ordered(s), retained \in Nat, NEW t \in Terminals,
         s.table[t] = None
  PROVE  LET r == Create(s, t)
             n == Len(s.sessions) + 1
         IN /\ r \in States /\ Linked(r) /\ Ordered(r) /\ Bounded(r)
            /\ r.sessions = Append(s.sessions, Newborn(t)) /\ r.processes = s.processes
            /\ \A u \in Terminals \ {t} : Roomy => r.table[u] = s.table[u]
            /\ Roomy => r.table[t] = n
<1> DEFINE n == Len(s.sessions) + 1
           new == Append(s.sessions, Newborn(t))
           m == [s EXCEPT !.table[t] = n, !.sessions = new]
           x == Touch(m, n)
           r == Evict(x)
<1>1. Create(s, t) = r BY DEF Create, Newborn
<1>2. Newborn(t) \in Session BY BoundsNat DEF Newborn, Session
<1>3. s.sessions \in Seq(Session) /\ s.table \in [Terminals -> Nat] BY StateParts
<1>4. n \in Nat /\ n # None BY <1>3 DEF None
<1>5. /\ new \in Seq(Session) /\ DOMAIN new = DOMAIN s.sessions \cup {n} /\ n \notin DOMAIN s.sessions
      /\ \A k \in DOMAIN s.sessions : new[k] = s.sessions[k]
      /\ new[n] = Newborn(t)
  BY <1>2, <1>3
<1> HIDE DEF n, new
<1>6. /\ m \in States /\ m.sessions = new /\ m.table = [s.table EXCEPT ![t] = n]
      /\ m.processes = s.processes /\ m.older = s.older
  BY <1>3, <1>4, <1>5 DEF States
<1> HIDE DEF m
<1>7. /\ m.table[t] = n /\ \A u \in Terminals \ {t} : m.table[u] = s.table[u]
      /\ n \in DOMAIN m.sessions /\ m.sessions[n].terminal = t
  BY <1>3, <1>5, <1>6 DEF Newborn
<1>8. ShownIn(m) \ {t} = ShownIn(s) BY <1>7 DEF ShownIn
<1>9. Ordered(x)
  <2>1. \A u \in Terminals : <<u, u>> \notin m.older BY <1>6 DEF Ordered
  <2>2. \A S \in SUBSET (ShownIn(m) \ {t}) :
          S # {} => \E k \in S : \A l \in S \ {k} : <<k, l>> \in m.older
    BY <1>6, <1>8 DEF Ordered
  <2> QED BY <1>6, <1>7, <2>1, <2>2, TouchOrdered
<1>10. x \in States /\ x.table = m.table /\ x.sessions = m.sessions /\ x.processes = m.processes
  BY <1>6, <1>7, TouchFields
<1> HIDE DEF x
<1>11. Linked(x)
  <2>1. TableKnown(x)
    BY <1>5, <1>6, <1>7, <1>10 DEF Linked, TableKnown, ShownIn
  <2>2. SessionsTrue(x)
    <3> SUFFICES ASSUME NEW k \in DOMAIN x.sessions
                 PROVE  LET p == x.sessions[k].process
                        IN /\ x.sessions[k].status = "running" <=> p # None
                           /\ x.sessions[k].busy => p # None
                           /\ p # None => /\ p \in DOMAIN x.processes /\ Runs(x, p)
                                          /\ x.processes[p].listener = k
                                          /\ x.processes[p].terminal = x.sessions[k].terminal
                                          /\ x.sessions[k].busy => x.processes[p].measured
      BY DEF SessionsTrue
    <3>1. CASE k = n BY <1>5, <1>6, <1>10, <3>1 DEF Newborn
    <3>2. CASE k # n BY <1>5, <1>6, <1>10, <3>2 DEF Linked, SessionsTrue, Runs
    <3> QED BY <3>1, <3>2
  <2>3. ListenersTrue(x) BY <1>5, <1>6, <1>10 DEF Linked, ListenersTrue
  <2> QED BY <2>1, <2>2, <2>3 DEF Linked
<1>12. /\ r \in States /\ Linked(r) /\ Ordered(r) /\ Bounded(r) /\ Shrunk(x, r)
       /\ r.sessions = x.sessions /\ r.processes = x.processes
  BY <1>9, <1>10, <1>11, EvictEffect
<1> HIDE DEF r
<1>13. Roomy => r.table = m.table BY <1>10, <1>12 DEF Shrunk
<1>14. r.sessions = new /\ r.processes = s.processes BY <1>6, <1>10, <1>12
<1>15. \A u \in Terminals \ {t} : Roomy => r.table[u] = s.table[u] BY <1>7, <1>13
<1>16. Roomy => r.table[t] = n BY <1>7, <1>13
<1> QED BY <1>1, <1>12, <1>14, <1>15, <1>16 DEF n, new

-----------------------------------------------------------------------------
(* What an operation of thread th waits for, in state s. *)
OpKnown(s, o, dis, th) ==
  o.step # "free" =>
    LET n == o.session
    IN /\ n \in DOMAIN s.sessions /\ s.sessions[n].process = None
       /\ Lock(s.sessions[n].terminal) = th
       /\ Roomy /\ ~dis => s.table[s.sessions[n].terminal] = n

Ops == [Threads -> {Free} \cup [step : {"clear", "spawn"}, session : Nat]]

(* The inductive invariant. *)
IInv ==
  /\ retained \in Limits /\ disposed \in BOOLEAN /\ ops \in Ops
  /\ Good(State)
  /\ Len(sessions) <= MaxSessions /\ Len(processes) <= MaxProcesses
  /\ checking \subseteq DOMAIN processes
  /\ \A th \in Threads : OpKnown(State, ops[th], disposed, th)
  /\ Roomy /\ ~disposed => Reach(State)

LEMMA StateFields ==
  /\ State.table = table /\ State.sessions = sessions /\ State.older = older
  /\ State.processes = processes /\ State.polling = polling
BY DEF State

LEMMA Current ==
  ASSUME IInv
  PROVE  /\ State \in States /\ Linked(State) /\ Ordered(State) /\ Bounded(State)
         /\ retained \in Nat
BY TerminalAssumption DEF IInv, Good

(* A handler that becomes x makes x the state. *)
LEMMA BecomeState ==
  ASSUME NEW x \in States, Become(x)
  PROVE  State' = x /\ retained' = retained
<1>1. x = [table |-> x.table, sessions |-> x.sessions, older |-> x.older,
           processes |-> x.processes, polling |-> x.polling]
  BY DEF States
<1>2. State' = [table |-> table', sessions |-> sessions', older |-> older',
                processes |-> processes', polling |-> polling']
  BY DEF State
<1> QED BY <1>1, <1>2 DEF Become

(* What a step has to show about the state it makes. *)
LEMMA StepInv ==
  ASSUME IInv, NEW x, Become(x), Good(x),
         Len(x.sessions) <= MaxSessions, Len(x.processes) <= MaxProcesses,
         checking' \subseteq DOMAIN x.processes,
         ops' \in Ops, disposed' \in BOOLEAN,
         \A th \in Threads : OpKnown(x, ops'[th], disposed', th),
         Roomy /\ ~disposed' => Reach(x)
  PROVE  IInv'
<1>1. x \in States BY DEF Good
<1>2. State' = x /\ retained' = retained BY <1>1, BecomeState
<1>3. Roomy' <=> Roomy BY <1>2 DEF Roomy
<1>4. Good(State)'
  BY <1>2 DEF Good, Linked, TableKnown, SessionsTrue, ListenersTrue, Ordered, Bounded, ShownIn, Runs
<1>5. sessions' = x.sessions /\ processes' = x.processes BY DEF Become
<1>6. (\A th \in Threads : OpKnown(State, ops[th], disposed, th))'
  BY <1>2, <1>3 DEF OpKnown
<1>7. (Roomy /\ ~disposed => Reach(State))' BY <1>2, <1>3 DEF Reach, Runs
<1>8. retained' \in Limits BY <1>2 DEF IInv
<1> QED BY <1>4, <1>5, <1>6, <1>7, <1>8 DEF IInv, Ops

(* Stopping a session disturbs no operation that waits, ... *)
LEMMA StoppedKeepsOp ==
  ASSUME NEW s \in States, NEW r, NEW n \in DOMAIN s.sessions, Stopped(s, r, n),
         NEW o, NEW dis, NEW th, OpKnown(s, o, dis, th)
  PROVE  OpKnown(r, o, dis, th)
<1> SUFFICES ASSUME o.step # "free"
             PROVE  LET k == o.session
                    IN /\ k \in DOMAIN r.sessions /\ r.sessions[k].process = None
                       /\ Lock(r.sessions[k].terminal) = th
                       /\ Roomy /\ ~dis => r.table[r.sessions[k].terminal] = k
  BY DEF OpKnown
<1> DEFINE k == o.session
<1>1. /\ k \in DOMAIN s.sessions /\ s.sessions[k].process = None
      /\ Lock(s.sessions[k].terminal) = th
      /\ Roomy /\ ~dis => s.table[s.sessions[k].terminal] = k
  BY DEF OpKnown
<1>2. r.sessions[k].process = None /\ r.sessions[k].terminal = s.sessions[k].terminal
  BY <1>1 DEF Stopped, SameBut
<1> QED BY <1>1, <1>2 DEF Stopped, SameBut, Shrunk

LEMMA Awaited ==
  ASSUME ops \in Ops, NEW th \in Threads, NEW step \in {"clear", "spawn"}, NEW n \in Nat,
         Await(th, step, n)
  PROVE  /\ ops' \in Ops /\ ops'[th] = [step |-> step, session |-> n]
         /\ \A k \in Threads \ {th} : ops'[k] = ops[k]
BY DEF Await, Ops

LEMMA Freed ==
  ASSUME ops \in Ops, NEW th \in Threads, Release(th)
  PROVE  /\ ops' \in Ops /\ ops'[th].step = "free"
         /\ \A k \in Threads \ {th} : ops'[k] = ops[k]
BY DEF Release, Ops, Free

(* A step that stops a session and lets an operation wait for it. *)
LEMMA StopStep ==
  ASSUME IInv, NEW r, NEW n \in DOMAIN sessions, Stopped(State, r, n), Become(r),
         NEW th \in Threads, Lock(sessions[n].terminal) = th,
         Roomy /\ ~disposed => table[sessions[n].terminal] = n,
         \/ \E step \in {"clear", "spawn"} : Await(th, step, n)
         \/ Release(th),
         UNCHANGED <<checking, disposed>>
  PROVE  IInv'
<1>1. State \in States /\ Linked(State) /\ Ordered(State) /\ Bounded(State) /\ retained \in Nat
  BY Current
<1>2. Good(r) BY <1>1 DEF Stopped, Good
<1>3. n \in DOMAIN State.sessions /\ State.sessions \in Seq(Session) /\ State.processes \in Seq(Process)
  BY <1>1, StateFields, StateParts
<1>4. r.sessions \in Seq(Session) /\ r.processes \in Seq(Process) BY <1>2, StateParts DEF Good
<1>5. Len(r.sessions) = Len(sessions) /\ Len(r.processes) = Len(processes)
  BY <1>3, <1>4, StateFields DEF Stopped, SameBut
<1>6. n \in Nat BY <1>3
<1>7. /\ ops' \in Ops
      /\ ops'[th].step = "free" \/ ops'[th].session = n
      /\ \A k \in Threads \ {th} : ops'[k] = ops[k]
  <2>1. ASSUME NEW step \in {"clear", "spawn"}, Await(th, step, n)
        PROVE  /\ ops' \in Ops /\ ops'[th].session = n /\ \A k \in Threads \ {th} : ops'[k] = ops[k]
    <3>1. ops \in Ops BY DEF IInv
    <3>2. /\ ops' \in Ops /\ ops'[th] = [step |-> step, session |-> n]
          /\ \A k \in Threads \ {th} : ops'[k] = ops[k]
      BY <1>6, <2>1, <3>1, Awaited
    <3> QED BY <3>2
  <2>2. ASSUME Release(th)
        PROVE  /\ ops' \in Ops /\ ops'[th].step = "free" /\ \A k \in Threads \ {th} : ops'[k] = ops[k]
    BY <2>2, Freed DEF IInv
  <2> QED BY <2>1, <2>2
<1>8. ASSUME NEW k \in Threads PROVE OpKnown(r, ops'[k], disposed', k)
  <2>1. CASE k = th
    <3>1. /\ n \in DOMAIN r.sessions /\ r.sessions[n].process = None
          /\ r.sessions[n].terminal = sessions[n].terminal
      BY <1>3, StateFields DEF Stopped, SameBut
    <3>2. Roomy => r.table = table BY StateFields DEF Stopped, Shrunk
    <3> QED BY <1>7, <2>1, <3>1, <3>2 DEF OpKnown
  <2>2. CASE k # th
    <3>1. OpKnown(State, ops[k], disposed, k) BY DEF IInv
    <3>2. OpKnown(r, ops[k], disposed, k) BY <1>1, <1>3, <3>1, StoppedKeepsOp
    <3> QED BY <1>7, <2>2, <3>2
  <2> QED BY <2>1, <2>2
<1>9. Roomy /\ ~disposed' => Reach(r)
  BY <1>1, <1>3, StopKeepsReach DEF IInv
<1>10. checking' \subseteq DOMAIN r.processes
  BY StateFields DEF IInv, Stopped
<1>11. Len(r.sessions) <= MaxSessions /\ Len(r.processes) <= MaxProcesses /\ disposed' \in BOOLEAN
  BY <1>5 DEF IInv
<1> QED BY <1>2, <1>7, <1>8, <1>9, <1>10, <1>11, StepInv

(* The session of a terminal, and what stopping it gives. *)
LEMMA TableSession ==
  ASSUME IInv, NEW t \in Terminals, table[t] # None
  PROVE  table[t] \in DOMAIN sessions /\ sessions[table[t]].terminal = t
BY Current, StateFields DEF Linked, TableKnown, ShownIn

(* The session an operation waits for. *)
LEMMA OpSession ==
  ASSUME IInv, NEW th \in Threads, ops[th].step # "free"
  PROVE  LET n == ops[th].session
         IN /\ n \in DOMAIN sessions /\ sessions[n].process = None
            /\ Lock(sessions[n].terminal) = th
            /\ Roomy /\ ~disposed => table[sessions[n].terminal] = n
BY StateFields DEF IInv, OpKnown

LEMMA Locks == \A t \in Terminals : Lock(t) \in Threads
BY TerminalAssumption DEF Lock

LEMMA OpenExistingStep ==
  ASSUME IInv, NEW t \in Terminals, NEW changed \in BOOLEAN, OpenExisting(t, changed)
  PROVE  IInv'
<1> DEFINE n == table[t]
<1>1. n # None /\ Await(Lock(t), "clear", n) /\ UNCHANGED <<checking, disposed>>
      /\ Become(IF changed THEN Stop(State, n) ELSE State)
      /\ (changed \/ sessions[n].status \in {"exited", "error"})
  BY DEF OpenExisting
<1>2. n \in DOMAIN sessions /\ sessions[n].terminal = t /\ Lock(t) \in Threads
  BY <1>1, TableSession, Locks
<1>3. n \in DOMAIN State.sessions BY <1>2, StateFields
<1>4. Stopped(State, Stop(State, n), n) BY <1>3, Current, StopEffect
<1>5. Become(Stop(State, n))
  <2>1. CASE changed BY <1>1, <2>1
  <2>2. CASE ~changed
    <3>1. State.sessions[n].status # "running" BY <1>1, <2>2, StateFields
    <3>2. State.sessions[n].process = None BY <1>3, <3>1, Current DEF Linked, SessionsTrue
    <3> QED BY <1>1, <2>2, <3>2 DEF Stop
  <2> QED BY <2>1, <2>2
<1> HIDE DEF n
<1>6. \E step \in {"clear", "spawn"} : Await(Lock(t), step, n) BY <1>1
<1> QED BY <1>1, <1>2, <1>4, <1>5, <1>6, StopStep DEF n

LEMMA TranscriptClearedStep ==
  ASSUME IInv, NEW th \in Threads, TranscriptCleared(th)
  PROVE  IInv'
<1> DEFINE n == ops[th].session
<1>1. /\ ops[th].step # "free" /\ Await(th, "spawn", n) /\ UNCHANGED <<checking, disposed>>
      /\ Become(StartSession(State, n))
  BY DEF TranscriptCleared
<1>2. /\ n \in DOMAIN sessions /\ Lock(sessions[n].terminal) = th
      /\ Roomy /\ ~disposed => table[sessions[n].terminal] = n
  BY <1>1, OpSession
<1>3. n \in DOMAIN State.sessions BY <1>2, StateFields
<1>4. Stopped(State, StartSession(State, n), n) BY <1>3, Current, StartEffect
<1> HIDE DEF n
<1>5. \E step \in {"clear", "spawn"} : Await(th, step, n) BY <1>1
<1> QED BY <1>1, <1>2, <1>4, <1>5, StopStep

LEMMA SpawnFailedStep ==
  ASSUME IInv, NEW th \in Threads, SpawnFailed(th)
  PROVE  IInv'
<1> DEFINE n == ops[th].session
           r == UpdatePolling(Evict(Idle(State, n, "error")))
<1>1. ops[th].step # "free" /\ Release(th) /\ UNCHANGED <<checking, disposed>> /\ Become(r)
  BY DEF SpawnFailed
<1>2. /\ n \in DOMAIN sessions /\ Lock(sessions[n].terminal) = th /\ sessions[n].process = None
      /\ Roomy /\ ~disposed => table[sessions[n].terminal] = n
  BY <1>1, OpSession
<1>3. n \in DOMAIN State.sessions /\ State.sessions[n].process = None BY <1>2, StateFields
<1>4. State \in States /\ Linked(State) /\ Ordered(State) /\ retained \in Nat BY Current
<1>5. \A p \in DOMAIN State.processes : p # None BY <1>4, StateParts DEF None
<1>6. Stopped(State, r, n)
  <2> HIDE DEF n
  <2> QED BY <1>3, <1>4, <1>5, EndEffect
<1> HIDE DEF n, r
<1> QED BY <1>1, <1>2, <1>6, StopStep

(* A step that makes a new session and lets an operation wait for it. *)
LEMMA CreateEffectOps ==
  ASSUME IInv, NEW t \in Terminals, table[t] = None
  PROVE  LET s == Create(State, t)
             n == Len(sessions) + 1
         IN /\ s \in States /\ Linked(s) /\ Ordered(s) /\ Bounded(s)
            /\ Len(s.sessions) = n /\ n \in DOMAIN s.sessions /\ DOMAIN sessions \subseteq DOMAIN s.sessions
            /\ s.sessions[n].process = None /\ s.sessions[n].terminal = t
            /\ s.processes = processes
            /\ Roomy => s.table[t] = n
            /\ \A th \in Threads \ {Lock(t)} : OpKnown(s, ops[th], disposed, th)
            /\ Roomy /\ ~disposed => Reach(s)
<1> DEFINE s == Create(State, t)
           n == Len(sessions) + 1
<1>1. State \in States /\ Linked(State) /\ Ordered(State) /\ retained \in Nat BY Current
<1>2. State.table[t] = None BY StateFields
<1>3. /\ s \in States /\ Linked(s) /\ Ordered(s) /\ Bounded(s)
      /\ s.sessions = Append(sessions, Newborn(t)) /\ s.processes = processes
      /\ \A u \in Terminals \ {t} : Roomy => s.table[u] = table[u]
      /\ Roomy => s.table[t] = n
  BY <1>1, <1>2, StateFields, CreateEffect
<1> HIDE DEF s
<1>4. sessions \in Seq(Session) BY <1>1, StateFields, StateParts
<1>5. /\ Len(s.sessions) = n /\ n \in DOMAIN s.sessions /\ DOMAIN sessions \subseteq DOMAIN s.sessions
      /\ s.sessions[n] = Newborn(t)
      /\ \A k \in DOMAIN sessions : s.sessions[k] = sessions[k] /\ sessions[k] \in Session
  BY <1>3, <1>4
<1>6. s.sessions[n].process = None /\ s.sessions[n].terminal = t BY <1>5 DEF Newborn
<1> HIDE DEF n
<1>7. ASSUME NEW th \in Threads \ {Lock(t)} PROVE OpKnown(s, ops[th], disposed, th)
  <2> SUFFICES ASSUME ops[th].step # "free"
               PROVE  LET k == ops[th].session
                      IN /\ k \in DOMAIN s.sessions /\ s.sessions[k].process = None
                         /\ Lock(s.sessions[k].terminal) = th
                         /\ Roomy /\ ~disposed => s.table[s.sessions[k].terminal] = k
    BY DEF OpKnown
  <2> DEFINE k == ops[th].session
  <2>1. /\ k \in DOMAIN sessions /\ sessions[k].process = None /\ Lock(sessions[k].terminal) = th
        /\ Roomy /\ ~disposed => table[sessions[k].terminal] = k
    BY OpSession
  <2>2. sessions[k].terminal \in Terminals \ {t} BY <1>5, <2>1 DEF Session
  <2> QED BY <1>3, <1>5, <2>1, <2>2
<1>8. ASSUME Roomy, ~disposed PROVE Reach(s)
  <2> SUFFICES ASSUME NEW p \in DOMAIN processes, Runs(s, p)
               PROVE  LET k == s.table[s.processes[p].terminal]
                      IN k # None /\ s.sessions[k].process = p
    BY <1>3 DEF Reach
  <2>1. Reach(State) BY <1>8 DEF IInv
  <2>2. processes[p].terminal \in Terminals BY <1>1, StateFields, StateParts
  <2>3. LET k == table[processes[p].terminal] IN k # None /\ sessions[k].process = p
    BY <1>3, <2>1, StateFields DEF Reach, Runs
  <2>4. processes[p].terminal # t BY <2>3
  <2>5. table[processes[p].terminal] \in DOMAIN sessions BY <2>2, <2>3, TableSession
  <2> QED BY <1>3, <1>5, <1>8, <2>2, <2>3, <2>4, <2>5
<1> QED BY <1>3, <1>5, <1>6, <1>7, <1>8 DEF s, n

LEMMA OpenNewStep ==
  ASSUME IInv, NEW t \in Terminals, OpenNew(t)
  PROVE  IInv'
<1> DEFINE s == Create(State, t)
           n == Len(sessions) + 1
           r == StartSession(s, n)
           th == Lock(t)
<1>1. table[t] = None /\ n <= MaxSessions /\ UNCHANGED <<checking, disposed>>
  <2>1. table[t] = None /\ Len(sessions) < MaxSessions /\ UNCHANGED <<checking, disposed>>
    BY DEF OpenNew
  <2>2. Len(sessions) \in Nat BY Current, StateFields, StateParts
  <2> QED BY <2>1, <2>2, BoundsNat
<1>2. /\ s \in States /\ Linked(s) /\ Ordered(s) /\ Bounded(s)
      /\ Len(s.sessions) = n /\ n \in DOMAIN s.sessions /\ DOMAIN sessions \subseteq DOMAIN s.sessions
      /\ s.sessions[n].process = None /\ s.sessions[n].terminal = t
      /\ s.processes = processes
      /\ Roomy => s.table[t] = n
      /\ \A k \in Threads \ {th} : OpKnown(s, ops[k], disposed, k)
      /\ Roomy /\ ~disposed => Reach(s)
  BY <1>1, CreateEffectOps
<1>3. Become(r) /\ Await(th, "spawn", n) BY <1>2 DEF OpenNew
<1>4. th \in Threads /\ retained \in Nat /\ ops \in Ops BY Locks, Current DEF IInv
<1>5. n \in Nat BY Current, StateFields, StateParts
<1> HIDE DEF s, n, th
<1>6. Stopped(s, r, n) BY <1>2, <1>4, StartEffect
<1> HIDE DEF r
<1>7. /\ ops' \in Ops /\ ops'[th] = [step |-> "spawn", session |-> n]
      /\ \A k \in Threads \ {th} : ops'[k] = ops[k]
  BY <1>3, <1>4, <1>5, Awaited
<1>8. Good(r) BY <1>2, <1>6 DEF Stopped, Good
<1>9. Len(r.sessions) = n /\ r.processes \in Seq(Process) /\ Len(r.processes) = Len(processes)
      /\ DOMAIN r.processes = DOMAIN processes
  <2>1. r.sessions \in Seq(Session) /\ r.processes \in Seq(Process) BY <1>8, StateParts DEF Good
  <2>2. s.sessions \in Seq(Session) /\ s.processes \in Seq(Process) BY <1>2, StateParts
  <2> QED BY <1>2, <1>6, <2>1, <2>2 DEF Stopped, SameBut
<1>10. ASSUME NEW k \in Threads PROVE OpKnown(r, ops'[k], disposed', k)
  <2>1. CASE k = th
    <3>1. /\ n \in DOMAIN r.sessions /\ r.sessions[n].process = None
          /\ r.sessions[n].terminal = t /\ (Roomy => r.table[t] = n)
      BY <1>2, <1>6 DEF Stopped, SameBut, Shrunk
    <3> QED BY <1>7, <2>1, <3>1 DEF OpKnown, th
  <2>2. CASE k # th
    <3>1. OpKnown(r, ops[k], disposed, k) BY <1>2, <1>6, <2>2, StoppedKeepsOp
    <3> QED BY <1>1, <1>7, <2>2, <3>1
  <2> QED BY <2>1, <2>2
<1>11. Roomy /\ ~disposed' => Reach(r) BY <1>1, <1>2, <1>6, StopKeepsReach
<1>12. checking' \subseteq DOMAIN r.processes BY <1>1, <1>9 DEF IInv
<1>13. Len(r.sessions) <= MaxSessions /\ Len(r.processes) <= MaxProcesses /\ disposed' \in BOOLEAN
  BY <1>1, <1>9 DEF IInv
<1> QED BY <1>3, <1>7, <1>8, <1>10, <1>11, <1>12, <1>13, StepInv

LEMMA RestartStep ==
  ASSUME IInv, NEW t \in Terminals, Restart(t)
  PROVE  IInv'
<1> DEFINE n == Len(sessions) + 1
           s == Create(State, t)
           th == Lock(t)
<1>1. UNCHANGED <<checking, disposed>> /\ th \in Threads BY Locks DEF Restart
<1>2. CASE table[t] # None
  <2>1. Become(Stop(State, table[t])) /\ Await(th, "clear", table[t]) BY <1>2 DEF Restart
  <2>2. table[t] \in DOMAIN sessions /\ sessions[table[t]].terminal = t BY <1>2, TableSession
  <2>3. Stopped(State, Stop(State, table[t]), table[t])
    BY <2>2, Current, StateFields, StopEffect
  <2>4. \E step \in {"clear", "spawn"} : Await(th, step, table[t]) BY <2>1
  <2> QED BY <1>1, <2>1, <2>2, <2>3, <2>4, StopStep
<1>3. CASE table[t] = None
  <2>1. Become(s) /\ Await(th, "clear", n) /\ Len(sessions) < MaxSessions BY <1>3 DEF Restart
  <2>2. /\ s \in States /\ Linked(s) /\ Ordered(s) /\ Bounded(s)
        /\ Len(s.sessions) = n /\ n \in DOMAIN s.sessions /\ DOMAIN sessions \subseteq DOMAIN s.sessions
        /\ s.sessions[n].process = None /\ s.sessions[n].terminal = t
        /\ s.processes = processes
        /\ Roomy => s.table[t] = n
        /\ \A k \in Threads \ {th} : OpKnown(s, ops[k], disposed, k)
        /\ Roomy /\ ~disposed => Reach(s)
    BY <1>3, CreateEffectOps
  <2>3. n \in Nat /\ n <= MaxSessions
    <3>1. Len(sessions) \in Nat BY Current, StateFields, StateParts
    <3> QED BY <2>1, <3>1, BoundsNat
  <2>4. /\ ops' \in Ops /\ ops'[th] = [step |-> "clear", session |-> n]
        /\ \A k \in Threads \ {th} : ops'[k] = ops[k]
    <3>1. ops \in Ops BY DEF IInv
    <3> HIDE DEF n, th
    <3> QED BY <1>1, <2>1, <2>3, <3>1, Awaited
  <2> HIDE DEF n, s
  <2>5. ASSUME NEW k \in Threads PROVE OpKnown(s, ops'[k], disposed', k)
    <3>1. CASE k = th BY <2>2, <2>4, <3>1 DEF OpKnown
    <3>2. CASE k # th BY <1>1, <2>2, <2>4, <3>2
    <3> QED BY <3>1, <3>2
  <2>6. Good(s) BY <2>2 DEF Good
  <2>7. /\ Len(s.sessions) <= MaxSessions /\ Len(s.processes) <= MaxProcesses
        /\ disposed' \in BOOLEAN /\ checking' \subseteq DOMAIN s.processes
    BY <1>1, <2>2, <2>3 DEF IInv
  <2>8. Roomy /\ ~disposed' => Reach(s) BY <1>1, <2>2
  <2> QED BY <2>1, <2>4, <2>5, <2>6, <2>7, <2>8, StepInv
<1> QED BY <1>2, <1>3

-----------------------------------------------------------------------------
(* A step that leaves the operations and what they wait for alone. *)
LEMMA QuietStep ==
  ASSUME IInv, NEW r, Become(r), Good(r), UNCHANGED ops,
         checking' \subseteq DOMAIN processes, disposed' \in BOOLEAN, disposed => disposed',
         DOMAIN r.sessions = DOMAIN sessions, DOMAIN r.processes = DOMAIN processes,
         \A th \in Threads : OpKnown(r, ops[th], disposed', th),
         Roomy /\ ~disposed' => Reach(r)
  PROVE  IInv'
<1>1. /\ r.sessions \in Seq(Session) /\ r.processes \in Seq(Process)
      /\ sessions \in Seq(Session) /\ processes \in Seq(Process)
  BY Current, StateFields, StateParts DEF Good
<1>2. Len(r.sessions) = Len(sessions) /\ Len(r.processes) = Len(processes) BY <1>1
<1>3. Len(r.sessions) <= MaxSessions /\ Len(r.processes) <= MaxProcesses BY <1>2 DEF IInv
<1>4. ops' \in Ops BY DEF IInv
<1> QED BY <1>3, <1>4, StepInv

LEMMA ClearStep ==
  ASSUME IInv, NEW t \in Terminals, Clear(t)
  PROVE  IInv'
<1> DEFINE n == table[t]
           r == Touch(State, n)
<1>1. n # None /\ Become(r) /\ UNCHANGED <<checking, ops, disposed>> BY DEF Clear
<1>2. n \in DOMAIN State.sessions BY <1>1, TableSession, StateFields
<1>3. State \in States /\ Linked(State) /\ Ordered(State) /\ Bounded(State) BY Current
<1> HIDE DEF n
<1>4. /\ r \in States /\ r.table = State.table /\ r.sessions = State.sessions
      /\ r.processes = State.processes /\ Ordered(r)
  BY <1>2, <1>3, TouchFields, TouchKeepsOrder
<1> HIDE DEF r
<1>5. Linked(r)
  BY <1>3, <1>4 DEF Linked, TableKnown, SessionsTrue, ListenersTrue, ShownIn, Runs
<1>6. Bounded(r)
  <2>1. Inactive(r) = Inactive(State) BY <1>4 DEF Inactive
  <2> QED BY <1>3, <2>1 DEF Bounded
<1>7. \A th \in Threads : OpKnown(r, ops[th], disposed', th)
  BY <1>1, <1>4 DEF IInv, OpKnown
<1>8. Roomy /\ ~disposed' => Reach(r) BY <1>1, <1>4 DEF IInv, Reach, Runs
<1>9. DOMAIN r.sessions = DOMAIN sessions /\ DOMAIN r.processes = DOMAIN processes
  BY <1>4, StateFields
<1>10. checking' \subseteq DOMAIN processes /\ disposed' \in BOOLEAN /\ (disposed => disposed')
  BY <1>1 DEF IInv
<1> QED BY <1>1, <1>4, <1>5, <1>6, <1>7, <1>8, <1>9, <1>10, QuietStep DEF Good

(* A step that closes sessions of a thread whose lock is free. *)
LEMMA CloseStep ==
  ASSUME IInv, NEW th \in Threads, ops[th].step = "free", NEW closing \in SUBSET DOMAIN sessions,
         \A k \in closing : Lock(sessions[k].terminal) = th,
         NEW y, Closed(State, y, closing), Become(UpdatePolling(y)),
         UNCHANGED <<checking, ops, disposed>>
  PROVE  IInv'
<1> DEFINE r == UpdatePolling(y)
<1>1. State \in States /\ Bounded(State) BY Current
<1>2. /\ r \in States /\ r.sessions = y.sessions /\ r.processes = y.processes /\ r.table = y.table
      /\ Linked(r) /\ Ordered(r) /\ Bounded(r)
  BY <1>1, PollingEffect DEF Closed
<1>3. Become(r) OBVIOUS
<1> HIDE DEF r
<1>4. ASSUME NEW k \in Threads PROVE OpKnown(r, ops[k], disposed', k)
  <2> SUFFICES ASSUME ops[k].step # "free"
               PROVE  LET n == ops[k].session
                      IN /\ n \in DOMAIN r.sessions /\ r.sessions[n].process = None
                         /\ Lock(r.sessions[n].terminal) = k
                         /\ Roomy /\ ~disposed' => r.table[r.sessions[n].terminal] = n
    BY DEF OpKnown
  <2> DEFINE n == ops[k].session
  <2>1. /\ n \in DOMAIN sessions /\ sessions[n].process = None /\ Lock(sessions[n].terminal) = k
        /\ Roomy /\ ~disposed => table[sessions[n].terminal] = n
    BY OpSession
  <2>2. /\ n \in DOMAIN r.sessions /\ r.sessions[n].process = None
        /\ r.sessions[n].terminal = sessions[n].terminal
    BY <1>2, <2>1, StateFields DEF Closed
  <2>3. sessions[n].terminal \in Terminals BY <1>1, <2>1, StateFields, StateParts
  <2>4. \A c \in closing : sessions[c].terminal # sessions[n].terminal BY <2>1
  <2>5. Roomy => r.table[sessions[n].terminal] = table[sessions[n].terminal]
    BY <1>2, <2>3, <2>4, StateFields DEF Closed
  <2> QED BY <2>1, <2>2, <2>5
<1>5. Roomy /\ ~disposed' => Reach(r)
  <2> SUFFICES ASSUME Roomy, ~disposed PROVE Reach(r) OBVIOUS
  <2>1. Reach(y) BY DEF IInv, Closed
  <2> QED BY <1>2, <2>1 DEF Reach, Runs
<1>6. DOMAIN r.sessions = DOMAIN sessions /\ DOMAIN r.processes = DOMAIN processes
  BY <1>2, StateFields DEF Closed
<1>7. checking' \subseteq DOMAIN processes /\ disposed' \in BOOLEAN /\ (disposed => disposed')
  BY DEF IInv
<1> QED BY <1>2, <1>3, <1>4, <1>5, <1>6, <1>7, QuietStep DEF Good

LEMMA ClosedSelf ==
  ASSUME NEW s \in States, Linked(s), Ordered(s), NEW closing
  PROVE  Closed(s, s, closing)
BY DEF Closed

LEMMA CloseOneStep ==
  ASSUME IInv, NEW t \in Terminals, Close(t)
  PROVE  IInv'
<1> DEFINE n == table[t]
           y == CloseNext(State, State, n, {n})
<1>1. n # None /\ ops[Lock(t)].step = "free" /\ UNCHANGED <<checking, ops, disposed>>
      /\ Become(UpdatePolling(Unlist(Stop(State, n), {t})))
  BY DEF Close, CanLock
<1>2. n \in DOMAIN sessions /\ sessions[n].terminal = t /\ Lock(t) \in Threads
  BY <1>1, TableSession, Locks
<1>3. State \in States /\ Linked(State) /\ Ordered(State) /\ retained \in Nat BY Current
<1>4. y = Unlist(Stop(State, n), {t}) BY <1>2, StateFields DEF CloseNext
<1>5. n \in DOMAIN State.sessions /\ {n} \in SUBSET DOMAIN State.sessions
      /\ \A k \in {n} : State.table[State.sessions[k].terminal] \in {None, k}
  BY <1>2, StateFields
<1>6. Closed(State, y, {n})
  <2>1. Closed(State, State, {n}) BY <1>3, ClosedSelf
  <2> HIDE DEF n
  <2> QED BY <1>3, <1>5, <2>1, CloseNextEffect
<1>7. Become(UpdatePolling(y)) BY <1>1, <1>4
<1> HIDE DEF n, y
<1>8. {n} \in SUBSET DOMAIN sessions /\ \A k \in {n} : Lock(sessions[k].terminal) = Lock(t)
  BY <1>2
<1> QED BY <1>1, <1>2, <1>6, <1>7, <1>8, CloseStep

LEMMA CloseThreadStep ==
  ASSUME IInv, NEW th \in Threads, CloseThread(th)
  PROVE  IInv'
<1> DEFINE own == {t \in Terminals : Lock(t) = th /\ table[t] # None}
           closing == {table[t] : t \in own}
           y == CloseAll(State, closing)
<1>1. ops[th].step = "free" /\ UNCHANGED <<checking, ops, disposed>> /\ Become(UpdatePolling(y))
  BY DEF CloseThread, CanLock
<1>2. State \in States /\ Linked(State) /\ Ordered(State) /\ retained \in Nat BY Current
<1>3. \A t \in own : table[t] \in DOMAIN sessions /\ sessions[table[t]].terminal = t
  BY TableSession
<1>4. /\ closing \in SUBSET DOMAIN sessions
      /\ \A k \in closing : Lock(sessions[k].terminal) = th
      /\ \A k \in closing : table[sessions[k].terminal] \in {None, k}
  BY <1>3
<1> HIDE DEF closing
<1>5. Closed(State, y, closing) BY <1>2, <1>4, StateFields, CloseAllEffect
<1> HIDE DEF y
<1> QED BY <1>1, <1>4, <1>5, CloseStep

LEMMA DisposeStep ==
  ASSUME IInv, Dispose
  PROVE  IInv'
<1> DEFINE bare == Unlist(State, Terminals)
           s == [bare EXCEPT !.polling = FALSE]
           closing == Listed(State)
           y == CloseAll(s, closing)
           ps == [p \in DOMAIN y.processes |-> [y.processes[p] EXCEPT !.timer = FALSE]]
           r == [y EXCEPT !.processes = ps]
<1>1. disposed' = TRUE /\ UNCHANGED <<checking, ops>> /\ Become(r)
  BY DEF Dispose
<1>2. State \in States /\ Linked(State) /\ Ordered(State) /\ Bounded(State) /\ retained \in Nat
  BY Current
<1>3. /\ bare \in States /\ Linked(bare) /\ Ordered(bare) /\ Bounded(bare)
      /\ bare.sessions = sessions /\ bare.processes = processes
      /\ \A t \in Terminals : bare.table[t] = None
  <2>1. /\ bare \in States /\ bare.sessions = sessions /\ bare.processes = processes
    BY <1>2, UnlistFields, StateFields
  <2>2. \A t \in Terminals : bare.table[t] = None BY <1>2, UnlistPoints
  <2> QED BY <1>2, <2>1, <2>2, UnlistKeeps, UnlistOrdered, UnlistBounded
<1> HIDE DEF bare
<1>4. /\ s \in States /\ s.sessions = sessions /\ s.processes = processes /\ s.table = bare.table
      /\ s.older = bare.older
  BY <1>3 DEF States
<1> HIDE DEF s
<1>5. Linked(s) /\ Ordered(s)
  BY <1>3, <1>4 DEF Linked, TableKnown, SessionsTrue, ListenersTrue, ShownIn, Runs, Ordered
<1>6. Bounded(s)
  <2>1. Inactive(s) = Inactive(bare) BY <1>3, <1>4 DEF Inactive
  <2> QED BY <1>3, <2>1 DEF Bounded
<1>7. /\ closing \in SUBSET DOMAIN s.sessions
      /\ \A k \in closing : s.table[s.sessions[k].terminal] \in {None, k}
  <2>1. closing \in SUBSET DOMAIN s.sessions
    BY <1>4, TableSession, StateFields DEF Listed
  <2>2. \A k \in DOMAIN s.sessions : s.sessions[k].terminal \in Terminals BY <1>4, StateParts
  <2> QED BY <1>3, <1>4, <2>1, <2>2
<1> HIDE DEF closing
<1>8. Closed(s, y, closing) BY <1>2, <1>4, <1>5, <1>7, CloseAllEffect
<1> HIDE DEF y
<1>9. y \in States /\ Linked(y) /\ Ordered(y) /\ Bounded(y) BY <1>6, <1>8 DEF Closed
<1>10. /\ y.processes \in Seq(Process) /\ \A p \in DOMAIN y.processes : y.processes[p] \in Process
  BY <1>9, StateParts
<1>11. ps \in Seq(Process)
  <2>1. \A p \in DOMAIN y.processes : [y.processes[p] EXCEPT !.timer = FALSE] \in Process
    BY <1>10 DEF Process
  <2>2. Len(y.processes) \in Nat /\ DOMAIN y.processes = 1 .. Len(y.processes) BY <1>10
  <2> QED BY <2>1, <2>2
<1>12. /\ DOMAIN ps = DOMAIN y.processes
       /\ \A p \in DOMAIN y.processes :
            /\ ps[p].alive = y.processes[p].alive /\ ps[p].stopped = y.processes[p].stopped
            /\ ps[p].listener = y.processes[p].listener /\ ps[p].terminal = y.processes[p].terminal
            /\ ps[p].measured = y.processes[p].measured /\ ps[p].timer = FALSE
  BY <1>10 DEF Process
<1> HIDE DEF ps
<1>13. /\ r \in States /\ r.processes = ps /\ r.sessions = y.sessions /\ r.table = y.table
       /\ r.older = y.older
  BY <1>9, <1>11 DEF States
<1> HIDE DEF r
<1>14. Linked(r)
  <2>1. TableKnown(r) BY <1>9, <1>13 DEF Linked, TableKnown, ShownIn
  <2>2. SessionsTrue(r) BY <1>9, <1>12, <1>13 DEF Linked, SessionsTrue, Runs
  <2>3. ListenersTrue(r) BY <1>9, <1>12, <1>13 DEF Linked, ListenersTrue
  <2> QED BY <2>1, <2>2, <2>3 DEF Linked
<1>15. Ordered(r) BY <1>9, <1>13 DEF Ordered, ShownIn
<1>16. Bounded(r)
  <2>1. Inactive(r) = Inactive(y) BY <1>13 DEF Inactive
  <2> QED BY <1>9, <2>1 DEF Bounded
<1>17. DOMAIN r.sessions = DOMAIN sessions /\ DOMAIN r.processes = DOMAIN processes
  BY <1>4, <1>8, <1>12, <1>13 DEF Closed
<1>18. ASSUME NEW k \in Threads PROVE OpKnown(r, ops[k], disposed', k)
  <2> SUFFICES ASSUME ops[k].step # "free"
               PROVE  LET n == ops[k].session
                      IN /\ n \in DOMAIN r.sessions /\ r.sessions[n].process = None
                         /\ Lock(r.sessions[n].terminal) = k
    BY <1>1 DEF OpKnown
  <2> DEFINE n == ops[k].session
  <2>1. n \in DOMAIN sessions /\ sessions[n].process = None /\ Lock(sessions[n].terminal) = k
    BY OpSession
  <2> QED BY <1>4, <1>8, <1>13, <2>1 DEF Closed
<1>19. checking' \subseteq DOMAIN processes /\ disposed' \in BOOLEAN /\ (disposed => disposed')
  BY <1>1 DEF IInv
<1> QED BY <1>1, <1>13, <1>14, <1>15, <1>16, <1>17, <1>18, <1>19, QuietStep DEF Good

-----------------------------------------------------------------------------
(* Processes, timers and the check for subprocesses. *)

(* A step that changes one process no session listens to. *)
LEMMA ProcessStep ==
  ASSUME IInv, NEW p \in DOMAIN processes, NEW c \in Process,
         processes[p].listener = None, c.listener = None, c.terminal = processes[p].terminal,
         c.timer => c.stopped, c.alive /\ ~c.stopped => Runs(State, p),
         Become([State EXCEPT !.processes[p] = c]), UNCHANGED <<checking, ops, disposed>>
  PROVE  IInv'
<1> DEFINE ps == [processes EXCEPT ![p] = c]
           r == [State EXCEPT !.processes = ps]
<1>1. State \in States /\ Linked(State) /\ Ordered(State) /\ Bounded(State) BY Current
<1>2. processes \in Seq(Process) BY <1>1, StateFields, StateParts
<1>3. Become(r) BY StateFields, <1>1 DEF States
<1>4. ps \in Seq(Process) BY <1>2
<1>5. ps[p] = c /\ DOMAIN ps = DOMAIN processes /\ \A q \in DOMAIN processes \ {p} : ps[q] = processes[q]
  BY <1>2
<1> HIDE DEF ps
<1>6. /\ r \in States /\ r.processes = ps /\ r.table = table /\ r.sessions = sessions
      /\ r.older = older
  BY <1>1, <1>4, StateFields DEF States
<1> HIDE DEF r
<1>7. \A n \in DOMAIN sessions : sessions[n].process # p
  <2> SUFFICES ASSUME NEW n \in DOMAIN sessions, sessions[n].process = p PROVE FALSE OBVIOUS
  <2>1. p # None BY <1>2 DEF None
  <2>2. processes[p].listener = n BY <1>1, <2>1, StateFields DEF Linked, SessionsTrue
  <2>3. sessions \in Seq(Session) BY <1>1, StateFields, StateParts
  <2> QED BY <2>2, <2>3 DEF None
<1>8. TableKnown(r) BY <1>1, <1>6, StateFields DEF Linked, TableKnown, ShownIn
<1>9. SessionsTrue(r)
  <2>1. \A q \in DOMAIN processes \ {p} : Runs(r, q) <=> Runs(State, q)
    BY <1>5, <1>6, StateFields DEF Runs
  <2> QED BY <1>1, <1>5, <1>6, <1>7, <2>1, StateFields DEF Linked, SessionsTrue
<1>10. ListenersTrue(r)
  BY <1>1, <1>5, <1>6, StateFields DEF Linked, ListenersTrue
<1>11. Ordered(r) BY <1>1, <1>6, StateFields DEF Ordered, ShownIn
<1>12. Bounded(r)
  <2>1. Inactive(r) = Inactive(State) BY <1>6, StateFields DEF Inactive
  <2> QED BY <1>1, <2>1 DEF Bounded
<1>13. \A th \in Threads : OpKnown(r, ops[th], disposed', th)
  BY <1>6, StateFields DEF IInv, OpKnown
<1>14. Roomy /\ ~disposed' => Reach(r)
  <2> SUFFICES ASSUME Roomy, ~disposed PROVE Reach(r) OBVIOUS
  <2>1. Reach(State) BY DEF IInv
  <2>2. \A q \in DOMAIN processes : Runs(r, q) => Runs(State, q)
    BY <1>5, <1>6, StateFields DEF Runs
  <2>3. \A q \in DOMAIN processes : r.processes[q].terminal = processes[q].terminal
    BY <1>5, <1>6
  <2> QED BY <1>5, <1>6, <2>1, <2>2, <2>3, StateFields DEF Reach
<1>15. DOMAIN r.sessions = DOMAIN sessions /\ DOMAIN r.processes = DOMAIN processes
  BY <1>5, <1>6
<1>16. checking' \subseteq DOMAIN processes /\ disposed' \in BOOLEAN /\ (disposed => disposed')
  BY DEF IInv
<1> QED BY <1>3, <1>6, <1>8, <1>9, <1>10, <1>11, <1>12, <1>13, <1>14, <1>15, <1>16, QuietStep
       DEF Good, Linked

(* A process that was stopped has no listener. *)
LEMMA Deaf ==
  ASSUME IInv, NEW p \in DOMAIN processes, ~Runs(State, p)
  PROVE  processes[p].listener = None
<1> SUFFICES ASSUME processes[p].listener # None PROVE FALSE OBVIOUS
<1> DEFINE n == processes[p].listener
<1>1. n \in DOMAIN sessions /\ sessions[n].process = p
  BY Current, StateFields DEF Linked, ListenersTrue
<1>2. p # None BY Current, StateFields, StateParts DEF None
<1> QED BY <1>1, <1>2, Current, StateFields DEF Linked, SessionsTrue

LEMMA KillTimerStep ==
  ASSUME IInv, NEW p \in DOMAIN processes, KillTimer(p)
  PROVE  IInv'
<1> DEFINE c == [processes[p] EXCEPT !.timer = FALSE, !.alive = FALSE]
<1>1. State \in States /\ Linked(State) /\ processes \in Seq(Process) /\ processes[p] \in Process
  BY Current, StateFields, StateParts
<1>2. processes[p].stopped BY <1>1, StateFields DEF KillTimer, Linked, ListenersTrue
<1>3. processes[p].listener = None BY <1>2, Deaf, StateFields DEF Runs
<1>4. /\ c \in Process /\ c.listener = processes[p].listener /\ c.terminal = processes[p].terminal
      /\ c.timer = FALSE /\ c.alive = FALSE
  BY <1>1 DEF Process
<1>5. [processes EXCEPT ![p].timer = FALSE, ![p].alive = FALSE] = [processes EXCEPT ![p] = c]
  BY <1>1 DEF Process
<1> HIDE DEF c
<1>6. Become([State EXCEPT !.processes[p] = c])
  <2>1. processes' = [processes EXCEPT ![p] = c] BY <1>5 DEF KillTimer
  <2> QED BY <1>1, <2>1, StateFields DEF KillTimer, Become, States
<1> QED BY <1>3, <1>4, <1>6, ProcessStep DEF KillTimer

LEMMA ExitStep ==
  ASSUME IInv, NEW p \in DOMAIN processes, Exit(p)
  PROVE  IInv'
<1> DEFINE n == processes[p].listener
           c == [processes[p] EXCEPT !.alive = FALSE, !.listener = None]
           gone == [State EXCEPT !.processes[p] = c]
           r == UpdatePolling(Evict(Idle(gone, n, "exited")))
<1>1. Become(IF n = None THEN gone ELSE r) /\ UNCHANGED <<checking, ops, disposed>>
  BY StateFields DEF Exit
<1>2. /\ State \in States /\ Linked(State) /\ Ordered(State) /\ retained \in Nat
      /\ processes \in Seq(Process) /\ processes[p] \in Process
  BY Current, StateFields, StateParts
<1>3. /\ c \in Process /\ c.listener = None /\ c.terminal = processes[p].terminal
      /\ c.alive = FALSE /\ c.timer = processes[p].timer /\ c.stopped = processes[p].stopped
      /\ c.measured = processes[p].measured
  BY <1>2, BoundsNat DEF Process
<1>4. c.timer => c.stopped BY <1>2, <1>3, StateFields DEF Linked, ListenersTrue
<1> HIDE DEF c
<1>5. CASE n = None BY <1>1, <1>3, <1>4, <1>5, ProcessStep
<1>6. CASE n # None
  <2> DEFINE ps == [processes EXCEPT ![p] = c]
  <2>1. ps \in Seq(Process) BY <1>2, <1>3
  <2>2. /\ ps[p] = c /\ DOMAIN ps = DOMAIN processes
        /\ \A q \in DOMAIN processes \ {p} : ps[q] = processes[q]
    BY <1>2
  <2>3. gone = [State EXCEPT !.processes = ps] BY <1>2, StateFields DEF States
  <2> HIDE DEF ps, gone
  <2>4. /\ gone \in States /\ gone.processes = ps /\ gone.table = table
        /\ gone.sessions = sessions /\ gone.older = older
    BY <1>2, <2>1, <2>3, StateFields DEF States
  <2>5. n \in DOMAIN sessions /\ sessions[n].process = p
    BY <1>2, <1>6, StateFields DEF Linked, ListenersTrue
  <2>6. ~Runs(gone, p) BY <1>3, <2>2, <2>4 DEF Runs
  <2> HIDE DEF n
  <2>7. Stopped(State, r, n)
    BY <1>2, <1>3, <1>4, <2>2, <2>4, <2>5, <2>6, StateFields, EndEffect
  <2>8. Become(r) BY <1>1, <1>6
  <2> HIDE DEF r
  <2>9. Good(r) BY <2>7, Current DEF Stopped, Good
  <2>10. \A th \in Threads : OpKnown(r, ops[th], disposed', th)
    BY <1>1, <1>2, <2>5, <2>7, StateFields, StoppedKeepsOp DEF IInv
  <2>11. Roomy /\ ~disposed' => Reach(r)
    BY <1>1, <1>2, <2>5, <2>7, StateFields, StopKeepsReach DEF IInv
  <2>12. DOMAIN r.sessions = DOMAIN sessions /\ DOMAIN r.processes = DOMAIN processes
    BY <2>7, StateFields DEF Stopped, SameBut
  <2>13. checking' \subseteq DOMAIN processes /\ disposed' \in BOOLEAN /\ (disposed => disposed')
    BY <1>1 DEF IInv
  <2> QED BY <1>1, <2>8, <2>9, <2>10, <2>11, <2>12, <2>13, QuietStep
<1> QED BY <1>5, <1>6

LEMMA PollStep ==
  ASSUME IInv, Poll
  PROVE  IInv'
<1>1. State \in States /\ Linked(State) BY Current
<1>2. \A n \in Listed(State) : n \in DOMAIN sessions
  BY TableSession, StateFields DEF Listed
<1>3. checking' \subseteq DOMAIN processes
  <2> SUFFICES ASSUME NEW n \in Listed(State), sessions[n].status = "running"
               PROVE  sessions[n].process \in DOMAIN processes
    BY DEF Poll
  <2> QED BY <1>1, <1>2, StateFields DEF Linked, SessionsTrue
<1>4. Become(State) BY StateFields DEF Poll, data, Become
<1>5. Good(State) /\ \A th \in Threads : OpKnown(State, ops[th], disposed', th)
  BY DEF IInv, Poll
<1>6. Roomy /\ ~disposed' => Reach(State) BY DEF IInv, Poll
<1>7. disposed' \in BOOLEAN /\ (disposed => disposed') /\ UNCHANGED ops BY DEF IInv, Poll
<1> QED BY <1>3, <1>4, <1>5, <1>6, <1>7, StateFields, QuietStep

LEMMA PollResultStep ==
  ASSUME IInv, NEW p \in DOMAIN processes, NEW found \in BOOLEAN, PollResult(p, found)
  PROVE  IInv'
<1> DEFINE n == table[processes[p].terminal]
           cond == n # None /\ sessions[n].status = "running" /\ sessions[n].process = p
           c == [processes[p] EXCEPT !.measured = @ \/ found]
           ps == [processes EXCEPT ![p] = c]
           q == [sessions[n] EXCEPT !.busy = found]
           ss == IF cond THEN [sessions EXCEPT ![n] = q] ELSE sessions
           r == [State EXCEPT !.processes = ps, !.sessions = ss]
<1>1. /\ State \in States /\ Linked(State) /\ Ordered(State) /\ Bounded(State)
      /\ processes \in Seq(Process) /\ processes[p] \in Process /\ sessions \in Seq(Session)
      /\ processes[p].terminal \in Terminals
  BY Current, StateFields, StateParts
<1>2. n # None => n \in DOMAIN sessions BY <1>1, TableSession
<1>3. /\ UNCHANGED <<retained, table, older, polling, ops, disposed>>
      /\ checking' \subseteq DOMAIN processes
  BY DEF PollResult, IInv
<1>4. processes' = ps BY DEF PollResult
<1>5. sessions' = ss BY DEF PollResult
<1>6. /\ c \in Process /\ c.alive = processes[p].alive /\ c.stopped = processes[p].stopped
      /\ c.timer = processes[p].timer /\ c.listener = processes[p].listener
      /\ c.terminal = processes[p].terminal /\ c.measured = (processes[p].measured \/ found)
  BY <1>1 DEF Process
<1> HIDE DEF c
<1>7. /\ ps \in Seq(Process) /\ ps[p] = c /\ DOMAIN ps = DOMAIN processes
      /\ \A k \in DOMAIN processes \ {p} : ps[k] = processes[k]
  BY <1>1, <1>6
<1>8. /\ ss \in Seq(Session) /\ DOMAIN ss = DOMAIN sessions
      /\ \A k \in DOMAIN sessions :
           /\ ss[k].status = sessions[k].status /\ ss[k].process = sessions[k].process
           /\ ss[k].terminal = sessions[k].terminal
           /\ ss[k].busy => sessions[k].busy \/ (sessions[k].process = p /\ found)
  <2>1. CASE ~cond BY <1>1, <2>1
  <2>2. CASE cond
    <3>1. n \in DOMAIN sessions /\ sessions[n] \in Session BY <1>1, <1>2, <2>2
    <3>2. /\ q \in Session /\ q.status = sessions[n].status /\ q.process = sessions[n].process
          /\ q.terminal = sessions[n].terminal /\ q.busy = found
      BY <3>1 DEF Session
    <3> HIDE DEF n, q
    <3> QED BY <1>1, <2>2, <3>1, <3>2
  <2> QED BY <2>1, <2>2
<1> HIDE DEF ps, ss
<1>9. /\ r \in States /\ r.processes = ps /\ r.sessions = ss /\ r.table = table /\ r.older = older
      /\ r.polling = polling
  BY <1>1, <1>7, <1>8, StateFields DEF States
<1>10. Become(r) BY <1>3, <1>4, <1>5, <1>9 DEF Become
<1> HIDE DEF r, n
<1>11. TableKnown(r) BY <1>1, <1>8, <1>9, StateFields DEF Linked, TableKnown, ShownIn
<1>12. \A k \in DOMAIN processes : Runs(r, k) <=> Runs(State, k)
  BY <1>6, <1>7, <1>9, StateFields DEF Runs
<1>13. SessionsTrue(r)
  <2> SUFFICES ASSUME NEW k \in DOMAIN sessions
               PROVE  LET o == ss[k].process
                      IN /\ ss[k].status = "running" <=> o # None
                         /\ ss[k].busy => o # None
                         /\ o # None => /\ o \in DOMAIN ps /\ Runs(r, o)
                                        /\ ps[o].listener = k
                                        /\ ps[o].terminal = ss[k].terminal
                                        /\ ss[k].busy => ps[o].measured
    BY <1>8, <1>9 DEF SessionsTrue
  <2> DEFINE o == sessions[k].process
  <2>1. /\ sessions[k].status = "running" <=> o # None
        /\ sessions[k].busy => o # None
        /\ o # None => /\ o \in DOMAIN processes /\ Runs(State, o)
                       /\ processes[o].listener = k
                       /\ processes[o].terminal = sessions[k].terminal
                       /\ sessions[k].busy => processes[o].measured
    BY <1>1, StateFields DEF Linked, SessionsTrue
  <2>2. p # None BY <1>1 DEF None
  <2>3. CASE o = p BY <1>6, <1>7, <1>8, <1>12, <2>1, <2>2, <2>3
  <2>4. CASE o # p BY <1>7, <1>8, <1>12, <2>1, <2>4
  <2> QED BY <2>3, <2>4
<1>14. ListenersTrue(r)
  <2> SUFFICES ASSUME NEW k \in DOMAIN processes
               PROVE  /\ ps[k].listener # None =>
                           ps[k].listener \in DOMAIN ss /\ ss[ps[k].listener].process = k
                      /\ ps[k].timer => ps[k].stopped
    BY <1>7, <1>9 DEF ListenersTrue
  <2>1. /\ ps[k].listener = processes[k].listener /\ ps[k].timer = processes[k].timer
        /\ ps[k].stopped = processes[k].stopped
    BY <1>6, <1>7
  <2> QED BY <1>1, <1>8, <2>1, StateFields DEF Linked, ListenersTrue
<1>15. Ordered(r) BY <1>1, <1>9, StateFields DEF Ordered, ShownIn
<1>16. Bounded(r)
  <2>1. \A t \in Terminals : table[t] # None => table[t] \in DOMAIN sessions BY TableSession
  <2>2. Inactive(r) = Inactive(State) BY <1>8, <1>9, <2>1, StateFields DEF Inactive
  <2> QED BY <1>1, <2>2 DEF Bounded
<1>17. ASSUME NEW th \in Threads PROVE OpKnown(r, ops[th], disposed', th)
  <2>1. OpKnown(State, ops[th], disposed, th) BY DEF IInv
  <2> QED BY <1>3, <1>8, <1>9, <2>1, StateFields DEF OpKnown
<1>18. Roomy /\ ~disposed' => Reach(r)
  <2> SUFFICES ASSUME Roomy, ~disposed PROVE Reach(r) BY <1>3
  <2> SUFFICES ASSUME NEW k \in DOMAIN processes, Runs(State, k)
               PROVE  LET m == table[ps[k].terminal] IN m # None /\ ss[m].process = k
    BY <1>7, <1>9, <1>12 DEF Reach
  <2>1. Reach(State) BY DEF IInv
  <2>2. ps[k].terminal = processes[k].terminal /\ processes[k].terminal \in Terminals
    BY <1>1, <1>6, <1>7, StateFields, StateParts
  <2>3. LET m == table[processes[k].terminal] IN m # None /\ sessions[m].process = k
    BY <2>1, StateFields DEF Reach
  <2> QED BY <1>8, <2>2, <2>3, TableSession
<1>19. disposed' \in BOOLEAN /\ (disposed => disposed') BY <1>3 DEF IInv
<1> QED BY <1>3, <1>7, <1>8, <1>9, <1>10, <1>11, <1>13, <1>14, <1>15, <1>16, <1>17, <1>18, <1>19,
           QuietStep DEF Good, Linked

LEMMA SpawnedStep ==
  ASSUME IInv, NEW th \in Threads, Spawned(th)
  PROVE  IInv'
<1> DEFINE n == ops[th].session
           p == Len(processes) + 1
           q == [sessions[n] EXCEPT !.status = "running", !.process = p]
           c == [terminal |-> sessions[n].terminal, alive |-> TRUE, stopped |-> FALSE,
                 timer |-> FALSE, listener |-> n, measured |-> FALSE]
           m == [State EXCEPT !.sessions = [sessions EXCEPT ![n] = q],
                              !.processes = Append(processes, c)]
           x == Touch(m, n)
           r == UpdatePolling(x)
<1>1. /\ ops[th].step # "free" /\ p <= MaxProcesses /\ Release(th) /\ UNCHANGED <<checking, disposed>>
  BY DEF Spawned
<1>2. /\ State \in States /\ Linked(State) /\ Ordered(State) /\ Bounded(State)
      /\ processes \in Seq(Process) /\ sessions \in Seq(Session)
  BY Current, StateFields, StateParts
<1>3. /\ n \in DOMAIN sessions /\ sessions[n].process = None /\ Lock(sessions[n].terminal) = th
      /\ Roomy /\ ~disposed => table[sessions[n].terminal] = n
  BY <1>1, OpSession
<1>4. Become(r) BY <1>2, <1>3, StateFields DEF Spawned, States
<1>5. p \in Nat /\ p # None /\ p \in 0 .. MaxProcesses /\ p \notin DOMAIN processes
  BY <1>1, <1>2, BoundsNat DEF None
<1>6. n \in 0 .. MaxSessions /\ n # None /\ sessions[n] \in Session /\ sessions[n].terminal \in Terminals
  <2>1. Len(sessions) <= MaxSessions BY DEF IInv
  <2> HIDE DEF n
  <2>2. n \in 0 .. MaxSessions /\ n # None /\ sessions[n] \in Session
    BY <1>2, <1>3, <2>1, BoundsNat DEF None
  <2>3. sessions[n].terminal \in Terminals BY <2>2 DEF Session
  <2> QED BY <2>2, <2>3
<1> HIDE DEF n
<1>7. /\ q \in Session /\ q.status = "running" /\ q.process = p /\ q.terminal = sessions[n].terminal
      /\ q.busy = sessions[n].busy
  <2> HIDE DEF p
  <2> QED BY <1>5, <1>6 DEF Session
<1>8. c \in Process /\ c.terminal = sessions[n].terminal /\ c.alive /\ ~c.stopped /\ ~c.timer
      /\ c.listener = n
  BY <1>6, BoundsNat DEF Process
<1> HIDE DEF q, c
<1> DEFINE ss == [sessions EXCEPT ![n] = q]
           ps == Append(processes, c)
<1>9. /\ ss \in Seq(Session) /\ DOMAIN ss = DOMAIN sessions /\ ss[n] = q
      /\ \A k \in DOMAIN sessions \ {n} : ss[k] = sessions[k]
  BY <1>2, <1>3, <1>7
<1>10. /\ ps \in Seq(Process) /\ DOMAIN ps = DOMAIN processes \cup {p} /\ ps[p] = c /\ Len(ps) = p
       /\ \A k \in DOMAIN processes : ps[k] = processes[k]
  BY <1>2, <1>8
<1> HIDE DEF ss, ps, p
<1>11. /\ m \in States /\ m.sessions = ss /\ m.processes = ps /\ m.table = table /\ m.older = older
  BY <1>2, <1>9, <1>10, StateFields DEF States, ss, ps
<1> HIDE DEF m
<1>12. Ordered(m) BY <1>2, <1>11, StateFields DEF Ordered, ShownIn
<1>13. n \in DOMAIN m.sessions BY <1>3, <1>9, <1>11
<1>14. x \in States /\ x.sessions = ss /\ x.processes = ps /\ x.table = table /\ Ordered(x)
  BY <1>11, <1>12, <1>13, TouchFields, TouchKeepsOrder
<1> HIDE DEF x
<1>15. /\ r \in States /\ r.sessions = ss /\ r.processes = ps /\ r.table = table /\ Ordered(r)
  BY <1>14, PollingEffect
<1> HIDE DEF r
<1>16. TableKnown(r)
  <2>1. \A k \in DOMAIN sessions : ss[k].terminal = sessions[k].terminal BY <1>7, <1>9
  <2> QED BY <1>2, <1>9, <1>15, <2>1, StateFields DEF Linked, TableKnown, ShownIn
<1>17. /\ Runs(r, p) /\ \A k \in DOMAIN processes : Runs(r, k) <=> Runs(State, k)
  BY <1>8, <1>10, <1>15, StateFields DEF Runs
<1>18. SessionsTrue(r)
  <2> SUFFICES ASSUME NEW k \in DOMAIN sessions
               PROVE  LET o == ss[k].process
                      IN /\ ss[k].status = "running" <=> o # None
                         /\ ss[k].busy => o # None
                         /\ o # None => /\ o \in DOMAIN ps /\ Runs(r, o)
                                        /\ ps[o].listener = k
                                        /\ ps[o].terminal = ss[k].terminal
                                        /\ ss[k].busy => ps[o].measured
    BY <1>9, <1>15 DEF SessionsTrue
  <2>1. /\ sessions[k].status = "running" <=> sessions[k].process # None
        /\ sessions[k].busy => sessions[k].process # None
        /\ sessions[k].process # None =>
             LET o == sessions[k].process
             IN /\ o \in DOMAIN processes /\ Runs(State, o)
                /\ processes[o].listener = k
                /\ processes[o].terminal = sessions[k].terminal
                /\ sessions[k].busy => processes[o].measured
    BY <1>2, StateFields DEF Linked, SessionsTrue
  <2>2. CASE k = n BY <1>3, <1>5, <1>7, <1>8, <1>9, <1>10, <1>17, <2>1, <2>2
  <2>3. CASE k # n BY <1>9, <1>10, <1>17, <2>1, <2>3
  <2> QED BY <2>2, <2>3
<1>19. ListenersTrue(r)
  <2> SUFFICES ASSUME NEW k \in DOMAIN ps
               PROVE  /\ ps[k].listener # None =>
                           ps[k].listener \in DOMAIN ss /\ ss[ps[k].listener].process = k
                      /\ ps[k].timer => ps[k].stopped
    BY <1>15 DEF ListenersTrue
  <2>1. CASE k = p BY <1>3, <1>7, <1>8, <1>9, <1>10, <2>1
  <2>2. CASE k # p
    <3>1. k \in DOMAIN processes /\ ps[k] = processes[k] BY <1>10, <2>2
    <3>2. /\ processes[k].listener # None =>
               processes[k].listener \in DOMAIN sessions /\ sessions[processes[k].listener].process = k
          /\ processes[k].timer => processes[k].stopped
      BY <1>2, <3>1, StateFields DEF Linked, ListenersTrue
    <3>3. k # None BY <1>2, <3>1 DEF None
    <3>4. processes[k].listener # n \/ processes[k].listener = None BY <1>3, <3>2, <3>3
    <3> QED BY <1>9, <3>1, <3>2, <3>4
  <2> QED BY <2>1, <2>2
<1>20. Bounded(r)
  <2>1. Inactive(r) \subseteq Inactive(State)
    <3>1. \A t \in Terminals : table[t] # None => table[t] \in DOMAIN sessions BY TableSession
    <3>2. \A k \in DOMAIN sessions : ss[k].status # "running" => sessions[k].status # "running"
      BY <1>7, <1>9
    <3> QED BY <1>15, <3>1, <3>2, StateFields DEF Inactive
  <2>2. Inactive(State) \in SUBSET Terminals BY DEF Inactive
  <2>3. Cardinality(Inactive(r)) <= Cardinality(Inactive(State))
    BY <2>1, <2>2, CountTerminals, FS_Subset
  <2>4. Cardinality(Inactive(r)) \in Nat /\ Cardinality(Inactive(State)) \in Nat
    BY <2>1, <2>2, CountTerminals
  <2> QED BY <1>2, <2>3, <2>4, Current DEF Bounded
<1>21. /\ ops' \in Ops /\ ops'[th].step = "free" /\ \A k \in Threads \ {th} : ops'[k] = ops[k]
  BY <1>1, Freed DEF IInv
<1>22. ASSUME NEW k \in Threads PROVE OpKnown(r, ops'[k], disposed', k)
  <2>1. CASE k = th BY <1>21, <2>1 DEF OpKnown
  <2>2. CASE k # th
    <3> SUFFICES ASSUME ops[k].step # "free"
                 PROVE  LET o == ops[k].session
                        IN /\ o \in DOMAIN ss /\ ss[o].process = None
                           /\ Lock(ss[o].terminal) = k
                           /\ Roomy /\ ~disposed => table[ss[o].terminal] = o
      BY <1>1, <1>15, <1>21, <2>2 DEF OpKnown
    <3> DEFINE o == ops[k].session
    <3>1. /\ o \in DOMAIN sessions /\ sessions[o].process = None /\ Lock(sessions[o].terminal) = k
          /\ Roomy /\ ~disposed => table[sessions[o].terminal] = o
      BY OpSession
    <3>2. o # n BY <1>3, <2>2, <3>1
    <3> QED BY <1>9, <3>1, <3>2
  <2> QED BY <2>1, <2>2
<1>23. Roomy /\ ~disposed' => Reach(r)
  <2> SUFFICES ASSUME Roomy, ~disposed PROVE Reach(r) BY <1>1
  <2> SUFFICES ASSUME NEW k \in DOMAIN ps, Runs(r, k)
               PROVE  LET o == table[ps[k].terminal] IN o # None /\ ss[o].process = k
    BY <1>15 DEF Reach
  <2>1. CASE k = p BY <1>3, <1>6, <1>7, <1>8, <1>9, <1>10, <2>1
  <2>2. CASE k # p
    <3>1. k \in DOMAIN processes /\ ps[k] = processes[k] /\ Runs(State, k) BY <1>10, <1>17, <2>2
    <3>2. LET o == table[processes[k].terminal] IN o # None /\ sessions[o].process = k
      BY <3>1, StateFields DEF IInv, Reach
    <3>3. processes[k].terminal \in Terminals BY <1>2, <3>1, StateFields, StateParts
    <3>4. k # None BY <1>2, <3>1 DEF None
    <3>5. table[processes[k].terminal] \in DOMAIN sessions \ {n}
      BY <1>3, <3>2, <3>3, <3>4, TableSession
    <3> QED BY <1>9, <3>1, <3>2, <3>5
  <2> QED BY <2>1, <2>2
<1>24. Good(r) BY <1>15, <1>16, <1>18, <1>19, <1>20 DEF Good, Linked
<1>25. Len(r.sessions) <= MaxSessions /\ Len(r.processes) <= MaxProcesses
  <2>1. Len(ss) = Len(sessions) BY <1>2, <1>9
  <2> QED BY <1>1, <1>10, <1>15, <2>1 DEF IInv
<1>26. checking' \subseteq DOMAIN r.processes /\ disposed' \in BOOLEAN
  BY <1>1, <1>10, <1>15 DEF IInv
<1> QED BY <1>4, <1>21, <1>22, <1>23, <1>24, <1>25, <1>26, StepInv

-----------------------------------------------------------------------------
(* The invariant holds at first and is preserved by every step. *)
LEMMA InitInv == Init => IInv
<1> SUFFICES ASSUME Init PROVE IInv OBVIOUS
<1>1. /\ retained \in Limits /\ table = [t \in Terminals |-> None] /\ sessions = << >> /\ older = {}
      /\ processes = << >> /\ polling = FALSE /\ checking = {} /\ disposed = FALSE
      /\ ops = [th \in Threads |-> Free]
  BY DEF Init
<1>2. retained \in Nat BY <1>1, TerminalAssumption
<1>3. State \in States
  <2>1. /\ table \in [Terminals -> Nat] /\ sessions \in Seq(Session)
        /\ older \in SUBSET (Terminals \X Terminals)
        /\ processes \in Seq(Process) /\ polling \in BOOLEAN
    <3>1. table \in [Terminals -> Nat] BY <1>1 DEF None
    <3>2. sessions \in Seq(Session) /\ processes \in Seq(Process) BY <1>1
    <3>3. older \in SUBSET (Terminals \X Terminals) /\ polling \in BOOLEAN BY <1>1
    <3> QED BY <3>1, <3>2, <3>3
  <2> QED BY <2>1 DEF State, States
<1>4. ShownIn(State) = {} /\ Inactive(State) = {} BY <1>1, StateFields DEF ShownIn, Inactive
<1>5. DOMAIN sessions = {} /\ DOMAIN processes = {} /\ Len(sessions) = 0 /\ Len(processes) = 0
  BY <1>1
<1>6. Linked(State) BY <1>4, <1>5, StateFields DEF Linked, TableKnown, SessionsTrue, ListenersTrue
<1>7. Ordered(State) BY <1>1, <1>4, StateFields DEF Ordered
<1>8. Bounded(State) BY <1>2, <1>4, FS_EmptySet DEF Bounded
<1>9. Reach(State) BY <1>5, StateFields DEF Reach
<1>10. ops \in Ops /\ \A th \in Threads : OpKnown(State, ops[th], disposed, th)
  BY <1>1, StateFields DEF Ops, OpKnown, Free
<1>11. Len(sessions) <= MaxSessions /\ Len(processes) <= MaxProcesses BY <1>5, BoundsNat
<1>12. disposed \in BOOLEAN /\ checking \subseteq DOMAIN processes BY <1>1
<1> QED BY <1>1, <1>3, <1>6, <1>7, <1>8, <1>9, <1>10, <1>11, <1>12 DEF IInv, Good

LEMMA StutterStep ==
  ASSUME IInv, UNCHANGED vars
  PROVE  IInv'
<1>1. Become(State) BY StateFields DEF vars, data, Become
<1>2. Good(State) /\ \A th \in Threads : OpKnown(State, ops[th], disposed', th)
  BY DEF IInv, vars
<1>3. Roomy /\ ~disposed' => Reach(State) BY DEF IInv, vars
<1>4. /\ disposed' \in BOOLEAN /\ (disposed => disposed') /\ UNCHANGED ops
      /\ checking' \subseteq DOMAIN processes
  BY DEF IInv, vars
<1> QED BY <1>1, <1>2, <1>3, <1>4, StateFields, QuietStep

LEMMA NextInv == IInv /\ [Next]_vars => IInv'
<1> SUFFICES ASSUME IInv, [Next]_vars PROVE IInv' OBVIOUS
<1>1. ASSUME NEW t \in Terminals, OpenNew(t) PROVE IInv' BY <1>1, OpenNewStep
<1>2. ASSUME NEW t \in Terminals, Restart(t) PROVE IInv' BY <1>2, RestartStep
<1>3. ASSUME NEW t \in Terminals, Clear(t) PROVE IInv' BY <1>3, ClearStep
<1>4. ASSUME NEW t \in Terminals, Close(t) PROVE IInv' BY <1>4, CloseOneStep
<1>5. ASSUME NEW t \in Terminals, NEW changed \in BOOLEAN, OpenExisting(t, changed) PROVE IInv'
  BY <1>5, OpenExistingStep
<1>6. ASSUME NEW th \in Threads, TranscriptCleared(th) PROVE IInv' BY <1>6, TranscriptClearedStep
<1>7. ASSUME NEW th \in Threads, Spawned(th) PROVE IInv' BY <1>7, SpawnedStep
<1>8. ASSUME NEW th \in Threads, SpawnFailed(th) PROVE IInv' BY <1>8, SpawnFailedStep
<1>9. ASSUME NEW th \in Threads, CloseThread(th) PROVE IInv' BY <1>9, CloseThreadStep
<1>10. ASSUME Dispose PROVE IInv' BY <1>10, DisposeStep
<1>11. ASSUME NEW p \in DOMAIN processes, Exit(p) PROVE IInv' BY <1>11, ExitStep
<1>12. ASSUME NEW p \in DOMAIN processes, KillTimer(p) PROVE IInv' BY <1>12, KillTimerStep
<1>13. ASSUME Poll PROVE IInv' BY <1>13, PollStep
<1>14. ASSUME NEW p \in DOMAIN processes, NEW found \in BOOLEAN, PollResult(p, found) PROVE IInv'
  BY <1>14, PollResultStep
<1>15. ASSUME UNCHANGED vars PROVE IInv' BY <1>15, StutterStep
<1> QED BY <1>1, <1>2, <1>3, <1>4, <1>5, <1>6, <1>7, <1>8, <1>9, <1>10, <1>11, <1>12, <1>13, <1>14,
           <1>15 DEF Next

(* Every reachable state satisfies the inductive invariant. *)
THEOREM InvHolds == Spec => []IInv
<1> QED BY InitInv, NextInv, PTL DEF Spec

(* The variables keep their types: in particular an operation that waits   *)
(* for a file or a spawn names a session that exists.                      *)
THEOREM TypesHold == Spec => []TypeOK
<1>1. IInv => TypeOK
  <2> SUFFICES ASSUME IInv PROVE TypeOK OBVIOUS
  <2>1. State \in States /\ Linked(State) BY Current
  <2>2. /\ table \in [Terminals -> Nat] /\ sessions \in Seq(Session)
        /\ older \subseteq Terminals \X Terminals
        /\ processes \in Seq(Process) /\ polling \in BOOLEAN
    BY <2>1, StateFields, StateParts
  <2>3. Len(sessions) <= MaxSessions /\ Len(processes) <= MaxProcesses BY DEF IInv
  <2>4. table \in [Terminals -> 0 .. MaxSessions]
    <3>1. \A t \in Terminals : table[t] \in 0 .. MaxSessions
      <4> SUFFICES ASSUME NEW t \in Terminals, table[t] # None PROVE table[t] \in 0 .. MaxSessions
        BY BoundsNat
      <4>1. table[t] \in DOMAIN sessions BY TableSession
      <4> QED BY <2>2, <2>3, <4>1, BoundsNat
    <3> QED BY <2>2, <3>1
  <2>5. ops \in [Threads -> {Free} \cup [step : {"clear", "spawn"}, session : DOMAIN sessions]]
    <3>1. ops \in [Threads -> {Free} \cup [step : {"clear", "spawn"}, session : Nat]]
      BY DEF IInv, Ops
    <3> SUFFICES ASSUME NEW th \in Threads
                 PROVE  ops[th] \in {Free} \cup [step : {"clear", "spawn"}, session : DOMAIN sessions]
      BY <3>1
    <3>2. CASE ops[th] = Free BY <3>2
    <3>3. CASE ops[th] # Free
      <4>1. ops[th] \in [step : {"clear", "spawn"}, session : Nat] BY <3>1, <3>3
      <4>2. ops[th].step # "free" BY <4>1
      <4>3. ops[th].session \in DOMAIN sessions BY <4>2, OpSession
      <4> QED BY <4>1, <4>3
    <3> QED BY <3>2, <3>3
  <2> QED BY <2>2, <2>3, <2>4, <2>5 DEF TypeOK, IInv
<1> QED BY <1>1, InvHolds, PTL

(* A session is shown as running exactly while a process that was started  *)
(* for it lives and was not told to stop, whatever exits, timers and       *)
(* operations of other threads come between.                               *)
THEOREM StatusHolds == Spec => []StatusIsTrue
<1>1. IInv => StatusIsTrue
  <2> SUFFICES ASSUME IInv, NEW n \in DOMAIN sessions
               PROVE  sessions[n].status = "running" <=>
                        \E p \in DOMAIN processes : Live(p) /\ processes[p].listener = n
    BY DEF StatusIsTrue
  <2>1. SessionsTrue(State) /\ ListenersTrue(State) /\ State \in States BY Current DEF Linked
  <2>2. n # None BY <2>1, StateFields, StateParts DEF None
  <2>3. ASSUME sessions[n].status = "running"
        PROVE  \E p \in DOMAIN processes : Live(p) /\ processes[p].listener = n
    BY <2>1, <2>3, StateFields DEF SessionsTrue, Runs, Live
  <2>4. ASSUME NEW p \in DOMAIN processes, processes[p].listener = n
        PROVE  sessions[n].status = "running"
    <3>1. sessions[n].process = p BY <2>1, <2>2, <2>4, StateFields DEF ListenersTrue
    <3>2. p # None BY <2>1, StateFields, StateParts DEF None
    <3> QED BY <2>1, <3>1, <3>2, StateFields DEF SessionsTrue
  <2> QED BY <2>3, <2>4
<1> QED BY <1>1, InvHolds, PTL

(* While no session has to be forgotten, every process nobody stopped is   *)
(* the one of its terminal's session: the user can see and close it.       *)
THEOREM ReachableHolds == Spec => []ProcessesReachable
<1>1. IInv => ProcessesReachable
  BY StateFields DEF IInv, ProcessesReachable, Roomy, Reach, Runs, Live
<1> QED BY <1>1, InvHolds, PTL

(* No more inactive sessions are kept than the limit, whichever handler    *)
(* made the last one inactive.                                             *)
THEOREM BoundHolds == Spec => []InactiveBounded
<1>1. IInv => InactiveBounded BY Current DEF InactiveBounded, Bounded
<1> QED BY <1>1, InvHolds, PTL

(* A terminal is shown as busy only if a subprocess was found in its       *)
(* present process.                                                        *)
THEOREM BusyHolds == Spec => []BusyIsMeasured
<1>1. IInv => BusyIsMeasured
  BY Current, StateFields DEF Linked, SessionsTrue, BusyIsMeasured
<1> QED BY <1>1, InvHolds, PTL
===============================================================================
