--------------------------- MODULE Checkpoints_proofs ---------------------------
(***************************************************************************)
(* Git checkpoints, for any numbers of turns, diffs, reverts and failures. *)
(*                                                                         *)
(* That the ref of a captured checkpoint outlives every revert follows     *)
(* from what is deleted: refs of checkpoints whose count is above the      *)
(* target, each named by its own count, so what loses its ref is what the  *)
(* revert removes, or what it leaves behind when it fails half way.        *)
(*                                                                         *)
(* For the user who waits for the reactor while nothing fails, the state   *)
(* is always in one of five phases: a turn is asked for, runs, has ended,  *)
(* or is captured and the thread rests, or a revert is under way.  Each    *)
(* says which inputs are in the queue, where the reactor is, and how the   *)
(* conversation and the files relate to the checkpoints; the checkpoint at *)
(* place i then has count i and ref i and the files its turn left.         *)
(*                                                                         *)
(* Lists are filtered by Keep, a recursive function: what it returns is    *)
(* shown by induction on the places it has gone through.                   *)
(***************************************************************************)
EXTENDS Checkpoints, FiniteSetTheorems, TLAPS

-----------------------------------------------------------------------------
(* Numbers and filtered lists. *)

(* Every set of numbers has a least one. *)
LEMMA LeastNat ==
  ASSUME NEW S \in SUBSET Nat, S # {}
  PROVE  \E m \in S : \A k \in S : m <= k
<1> DEFINE T == {0 .. n : n \in S}
<1>1. T \subseteq FiniteSubsetsOf(Nat)
  <2> SUFFICES ASSUME NEW n \in S PROVE 0 .. n \in SUBSET Nat /\ IsFiniteSet(0 .. n)
    BY Zenon DEF FiniteSubsetsOf
  <2> QED BY FS_Interval, SMT
<1>2. T # {} OBVIOUS
<1>3. IsWellFoundedOn(StrictSubsetOrdering(Nat), FiniteSubsetsOf(Nat))
  BY FS_StrictSubsetOrderingWellFounded
<1>4. \E x \in T : \A y \in T : <<y, x>> \notin StrictSubsetOrdering(Nat)
  BY <1>1, <1>2, <1>3, WFMin
<1>5. PICK m \in S : \A k \in S : <<0 .. k, 0 .. m>> \notin StrictSubsetOrdering(Nat)
  BY <1>4
<1> SUFFICES ASSUME NEW k \in S, k < m PROVE FALSE OBVIOUS
<1>6. <<0 .. k, 0 .. m>> \in StrictSubsetOrdering(Nat) BY DEF StrictSubsetOrdering
<1> QED BY <1>5, <1>6

(* Induction, for a property that is given by the set of its numbers. *)
LEMMA Induction ==
  ASSUME NEW S, 0 \in S, \A n \in Nat : n \in S => n + 1 \in S
  PROVE  Nat \subseteq S
<1> SUFFICES ASSUME Nat \ S # {} PROVE FALSE OBVIOUS
<1>1. PICK m \in Nat \ S : \A k \in Nat \ S : m <= k BY LeastNat
<1> QED BY <1>1

(* The lists a filter builds up, place by place. *)
KeepNext(list, places, n, before) ==
  IF n \in places THEN Append(before, list[n]) ELSE before

Keeps(list, places, m, g) ==
  g = [n \in 0 .. m |-> IF n = 0 THEN << >> ELSE KeepNext(list, places, n, g[n - 1])]

(* They exist for every length, by induction. *)
LEMMA KeepsExists ==
  ASSUME NEW list, NEW places
  PROVE  \A m \in Nat : \E g : Keeps(list, places, m, g)
<1> DEFINE S == {m \in Nat : \E g : Keeps(list, places, m, g)}
<1>1. 0 \in S
  <2>1. Keeps(list, places, 0, [n \in 0 .. 0 |-> << >>]) BY DEF Keeps
  <2> QED BY <2>1
<1>2. ASSUME NEW m \in Nat, m \in S PROVE m + 1 \in S
  <2>1. PICK g : Keeps(list, places, m, g) BY <1>2
  <2> DEFINE last == KeepNext(list, places, m + 1, g[m])
             h == [n \in 0 .. m + 1 |-> IF n = m + 1 THEN last ELSE g[n]]
  <2>2. ASSUME NEW n \in 0 .. m + 1
        PROVE  h[n] = IF n = 0 THEN << >> ELSE KeepNext(list, places, n, h[n - 1])
    <3>1. CASE n = m + 1
      <4>1. h[n - 1] = g[m] BY <3>1
      <4> QED BY <3>1, <4>1
    <3>2. CASE n \in 0 .. m /\ n # 0
      <4>1. g[n] = KeepNext(list, places, n, g[n - 1]) BY <2>1, <3>2 DEF Keeps
      <4>2. h[n] = g[n] /\ h[n - 1] = g[n - 1] BY <3>2
      <4> QED BY <3>2, <4>1, <4>2
    <3>3. CASE n = 0 BY <2>1, <3>3 DEF Keeps
    <3> QED BY <3>1, <3>2, <3>3
  <2> DEFINE goal == [n \in 0 .. m + 1 |-> IF n = 0 THEN << >> ELSE KeepNext(list, places, n, h[n - 1])]
  <2>3. h = goal BY <2>2
  <2>4. Keeps(list, places, m + 1, h) BY <2>3 DEF Keeps
  <2> QED BY <2>4
<1> HIDE DEF S
<1>3. Nat \subseteq S BY <1>1, <1>2, Induction
<1> QED BY <1>3 DEF S

(* A filter goes through the list place by place. *)
LEMMA KeepEquation ==
  ASSUME NEW T, NEW list \in Seq(T), NEW places
  PROVE  \E g : /\ Keep(list, places) = g[Len(list)] /\ g[0] = << >>
               /\ \A n \in Nat : n < Len(list) => g[n + 1] = KeepNext(list, places, n + 1, g[n])
<1> DEFINE g == CHOOSE h : Keeps(list, places, Len(list), h)
<1>1. Len(list) \in Nat OBVIOUS
<1>2. Keeps(list, places, Len(list), g) BY <1>1, KeepsExists
<1>3. Keep(list, places) = g[Len(list)] BY DEF Keep, Keeps, KeepNext
<1> HIDE DEF g
<1>4. g[0] = << >> BY <1>1, <1>2 DEF Keeps
<1>5. ASSUME NEW n \in Nat, n < Len(list) PROVE g[n + 1] = KeepNext(list, places, n + 1, g[n])
  <2>1. n + 1 \in 0 .. Len(list) /\ n + 1 # 0 /\ (n + 1) - 1 = n BY <1>1, <1>5
  <2>2. g[n + 1] = KeepNext(list, places, n + 1, g[(n + 1) - 1]) BY <1>2, <2>1 DEF Keeps
  <2> QED BY <2>1, <2>2
<1> QED BY <1>3, <1>4, <1>5

(* What appending does to a list. *)
LEMMA AppendParts ==
  ASSUME NEW T, NEW s \in Seq(T), NEW e \in T
  PROVE  LET r == Append(s, e)
         IN /\ r \in Seq(T) /\ Len(r) = Len(s) + 1 /\ DOMAIN r = DOMAIN s \cup {Len(s) + 1}
            /\ r[Len(s) + 1] = e /\ \A k \in DOMAIN s : r[k] = s[k]
OBVIOUS

(* A filter returns elements of the list. *)
LEMMA KeepElements ==
  ASSUME NEW T, NEW list \in Seq(T), NEW places
  PROVE  /\ Keep(list, places) \in Seq(T)
         /\ \A k \in DOMAIN Keep(list, places) :
              \E i \in DOMAIN list : i \in places /\ Keep(list, places)[k] = list[i]
<1> DEFINE From(s) == \A k \in DOMAIN s : \E i \in DOMAIN list : i \in places /\ s[k] = list[i]
<1>1. PICK g : /\ Keep(list, places) = g[Len(list)] /\ g[0] = << >>
               /\ \A n \in Nat : n < Len(list) => g[n + 1] = KeepNext(list, places, n + 1, g[n])
  BY KeepEquation
<1> DEFINE S == {n \in Nat : n <= Len(list) => g[n] \in Seq(T) /\ From(g[n])}
<1>2. 0 \in S
  <2>1. << >> \in Seq(T) /\ From(<< >>) OBVIOUS
  <2> HIDE DEF From
  <2> QED BY <1>1, <2>1
<1>3. ASSUME NEW n \in Nat, n \in S PROVE n + 1 \in S
  <2> SUFFICES ASSUME n + 1 <= Len(list) PROVE g[n + 1] \in Seq(T) /\ From(g[n + 1]) OBVIOUS
  <2>1. g[n] \in Seq(T) /\ From(g[n]) BY <1>3
  <2>2. g[n + 1] = KeepNext(list, places, n + 1, g[n]) /\ n + 1 \in DOMAIN list BY <1>1
  <2>3. CASE n + 1 \notin places BY <2>1, <2>2, <2>3 DEF KeepNext
  <2>4. CASE n + 1 \in places
    <3>1. g[n + 1] = Append(g[n], list[n + 1]) BY <2>2, <2>4 DEF KeepNext
    <3>2. list[n + 1] \in T BY <2>2
    <3>3. Append(g[n], list[n + 1]) \in Seq(T) BY <2>1, <3>2
    <3>4. From(Append(g[n], list[n + 1]))
      <4> DEFINE r == Append(g[n], list[n + 1])
      <4> SUFFICES ASSUME NEW k \in DOMAIN r
                   PROVE  \E i \in DOMAIN list : i \in places /\ r[k] = list[i]
        OBVIOUS
      <4>1. /\ DOMAIN r = DOMAIN g[n] \cup {Len(g[n]) + 1} /\ r[Len(g[n]) + 1] = list[n + 1]
            /\ \A j \in DOMAIN g[n] : r[j] = g[n][j]
        BY <2>1, <3>2, AppendParts
      <4> HIDE DEF r
      <4> QED BY <2>1, <2>2, <2>4, <4>1
    <3> QED BY <3>1, <3>3, <3>4
  <2> QED BY <2>3, <2>4
<1> HIDE DEF S, From
<1>4. Nat \subseteq S BY <1>2, <1>3, Induction
<1> QED BY <1>1, <1>4 DEF S, From

(* A filter that keeps the first elements. *)
LEMMA KeepPrefix ==
  ASSUME NEW T, NEW list \in Seq(T), NEW places, NEW n \in 0 .. Len(list),
         \A i \in DOMAIN list : i \in places <=> i <= n
  PROVE  Keep(list, places) = SubSeq(list, 1, n)
<1> DEFINE Least(k) == IF k <= n THEN k ELSE n
<1>1. PICK g : /\ Keep(list, places) = g[Len(list)] /\ g[0] = << >>
               /\ \A k \in Nat : k < Len(list) => g[k + 1] = KeepNext(list, places, k + 1, g[k])
  BY KeepEquation
<1> DEFINE S == {k \in Nat : k <= Len(list) => g[k] = SubSeq(list, 1, Least(k))}
<1>2. 0 \in S
  <2>1. SubSeq(list, 1, Least(0)) = << >> OBVIOUS
  <2> HIDE DEF Least
  <2> QED BY <1>1, <2>1
<1>3. ASSUME NEW k \in Nat, k \in S PROVE k + 1 \in S
  <2> SUFFICES ASSUME k + 1 <= Len(list) PROVE g[k + 1] = SubSeq(list, 1, Least(k + 1)) OBVIOUS
  <2>1. g[k] = SubSeq(list, 1, Least(k)) BY <1>3
  <2>2. g[k + 1] = KeepNext(list, places, k + 1, g[k]) /\ k + 1 \in DOMAIN list BY <1>1
  <2>3. CASE k + 1 > n BY <2>1, <2>2, <2>3 DEF KeepNext
  <2>4. CASE k + 1 <= n
    <3>1. g[k + 1] = Append(SubSeq(list, 1, k), list[k + 1]) BY <2>1, <2>2, <2>4 DEF KeepNext
    <3>2. Append(SubSeq(list, 1, k), list[k + 1]) = SubSeq(list, 1, k + 1) BY <2>2
    <3> QED BY <2>4, <3>1, <3>2
  <2> QED BY <2>3, <2>4
<1> HIDE DEF S
<1>4. Nat \subseteq S BY <1>2, <1>3, Induction
<1>5. Keep(list, places) = SubSeq(list, 1, Least(Len(list))) BY <1>1, <1>4 DEF S
<1> QED BY <1>5

-----------------------------------------------------------------------------
(* The inductive invariant, in parts. *)

(* Values without the bounds of the model. *)
Ckp == [turn : Nat, count : Nat, ref : Int]
Sound(list) == list \in Seq(Ckp) /\ \A i \in DOMAIN list : list[i].ref \in {NoRef, list[i].count}
Turned == [type : {"turn.started", "turn.completed", "turn.diff.updated"}, turn : Nat]
In == [type : {"turn-start-requested"}] \cup Turned \cup [type : {"checkpoint-revert-requested"}, n : Nat]

(* Every part of the state has its type. *)
Typed ==
  /\ Sound(checkpoints) /\ Sound(reactor.known)
  /\ reactor \in [step : Step, turn : Nat, n : Nat, known : Seq(Ckp)]
  /\ inputs \in Seq(In) /\ ingestion \in Seq(Turned)
  /\ activeTurn \in Nat /\ running \in Nat /\ conversation \in Seq(Nat) /\ ends \in Seq(Int)
  /\ files \in Int /\ fresh \in Nat /\ diffs \in Nat /\ failures \in Nat
  /\ abandoned \subseteq Nat
  /\ \A k \in DOMAIN refs : refs[k] \in Int

(* What keeps the refs: the step before a report has set its ref, and a     *)
(* revert that is under way goes to a count of the thread.                 *)
Stored ==
  /\ StoredRefsExist
  /\ At("report") => reactor.n \in DOMAIN refs
  /\ At("restore") \/ At("rollback") => reactor.n <= CurrentCount(reactor.known)

(* The inputs and events of turn t and of a revert. *)
Started(t) == [type |-> "turn.started", turn |-> t]
Completed(t) == [type |-> "turn.completed", turn |-> t]
Requested == [type |-> "turn-start-requested"]
Reverting(n) == [type |-> "checkpoint-revert-requested", n |-> n]

(* How far the client knows of the turn: it is requested or at rest, runs   *)
(* and is not yet known, is known, or has ended before or after that.      *)
Told ==
  LET last == Len(ends) next == last + 1
  IN \/ /\ sending \in {"none", "requested"} /\ running = NoTurn /\ activeTurn = NoTurn /\ ingestion = << >>
     \/ sending = "started" /\ running = next /\ activeTurn = NoTurn /\ ingestion = <<Started(next)>>
     \/ sending = "none" /\ running = next /\ activeTurn = next /\ ingestion = << >>
     \/ /\ sending = "started" /\ running = NoTurn /\ activeTurn = NoTurn /\ last > 0
        /\ ingestion = <<Started(last), Completed(last)>>
     \/ /\ sending = "none" /\ running = NoTurn /\ activeTurn = last /\ last > 0
        /\ ingestion = <<Completed(last)>>

(* The checkpoint at place i has count and ref i and holds its turn's files. *)
Placed ==
  \A i \in DOMAIN checkpoints :
    /\ checkpoints[i].count = i /\ checkpoints[i].ref = i
    /\ checkpoints[i].turn \in DOMAIN ends
    /\ i \in DOMAIN refs \/ (At("complete") /\ i > reactor.n)
    /\ i \in DOMAIN refs => refs[i] = ends[checkpoints[i].turn]

(* The turns the thread shows, and files that are those of count n. *)
Shown == [i \in DOMAIN checkpoints |-> checkpoints[i].turn]
FilesAt(n) == 0 \in DOMAIN refs \/ n > 0 => files = refs[n]
N == Len(checkpoints)

(* A turn is asked for and the reactor goes to take its baseline, *)
Asked ==
  /\ sending = "requested" /\ conversation = Shown
  /\ \/ inputs = <<Requested>> /\ At("idle")
     \/ inputs = << >> /\ (At("idle") \/ At("baseline"))

(* the turn runs, *)
Running ==
  LET t == Len(ends) + 1
  IN /\ running = t /\ conversation = Append(Shown, t)
     /\ \/ inputs = <<Requested, Started(t)>> /\ At("idle")
        \/ inputs \in {<<Started(t)>>, << >>} /\ (At("idle") \/ At("baseline"))

(* it has ended and is yet to be captured, *)
Ended ==
  LET t == Len(ends)
  IN /\ running = NoTurn /\ sending # "requested" /\ conversation = Append(Shown, t) /\ t > 0
     /\ files = ends[t] /\ \A i \in DOMAIN checkpoints : checkpoints[i].turn < t
     /\ \/ inputs = <<Requested, Started(t), Completed(t)>> /\ At("idle")
        \/ inputs \in {<<Started(t), Completed(t)>>, <<Completed(t)>>} /\ (At("idle") \/ At("baseline"))
        \/ /\ inputs = << >> /\ reactor.turn = t /\ reactor.n = N + 1
           /\ At("capture") \/ (At("report") /\ reactor.n \in DOMAIN refs /\ refs[reactor.n] = files)

(* the thread is at rest, *)
Resting ==
  /\ running = NoTurn /\ sending # "requested" /\ inputs = << >> /\ At("idle")
  /\ conversation = Shown /\ FilesAt(N)

(* or it is reverted, step by step. *)
Reverted ==
  /\ running = NoTurn /\ sending = "none" /\ ingestion = << >> /\ activeTurn = NoTurn
  /\ \/ /\ Len(inputs) = 1 /\ inputs[1].type = "checkpoint-revert-requested"
        /\ At("idle") /\ conversation = Shown /\ FilesAt(N)
     \/ /\ inputs = << >> /\ reactor.known = checkpoints /\ reactor.n <= N
        /\ \/ At("restore") /\ conversation = Shown
           \/ At("rollback") /\ conversation = Shown /\ FilesAt(reactor.n)
           \/ /\ At("delete") \/ At("complete")
              /\ conversation = SubSeq(Shown, 1, reactor.n) /\ FilesAt(reactor.n)

Phase == Asked \/ Running \/ Ended \/ Resting \/ Reverted

(* The thread of a user who waits for the reactor, while nothing fails. *)
Tidy ==
  /\ Told
  /\ Placed
  /\ At("baseline") => reactor.n = 0
  /\ Phase

(* The inductive invariant. *)
IInv == Typed /\ Stored /\ (Undisturbed => Tidy)

-----------------------------------------------------------------------------
(* Counts. *)

(* The largest count of a list exists. *)
LEMMA CurrentMax ==
  ASSUME NEW list \in Seq(Ckp)
  PROVE  /\ CurrentCount(list) \in Nat
         /\ \A i \in DOMAIN list : list[i].count <= CurrentCount(list)
         /\ CurrentCount(list) = 0 \/ \E i \in DOMAIN list : list[i].count = CurrentCount(list)
<1> DEFINE Upto(n) == {0} \cup {list[i].count : i \in {j \in DOMAIN list : j <= n}}
           Max(S) == \E m \in S : \A k \in S : k <= m
           S == {n \in Nat : n <= Len(list) => Max(Upto(n))}
<1>0. \A i \in DOMAIN list : list[i].count \in Nat
  <2>1. \A i \in DOMAIN list : list[i] \in Ckp OBVIOUS
  <2> QED BY <2>1 DEF Ckp
<1>1. 0 \in S
  <2>1. Upto(0) = {0} OBVIOUS
  <2> HIDE DEF Upto
  <2> QED BY <2>1
<1>2. ASSUME NEW n \in Nat, n \in S PROVE n + 1 \in S
  <2> SUFFICES ASSUME n + 1 <= Len(list) PROVE Max(Upto(n + 1)) OBVIOUS
  <2>1. PICK m \in Upto(n) : \A k \in Upto(n) : k <= m BY <1>2
  <2>2. n + 1 \in DOMAIN list OBVIOUS
  <2>3. Upto(n + 1) = Upto(n) \cup {list[n + 1].count} BY <2>2
  <2>4. Upto(n) \subseteq Nat BY <1>0
  <2> HIDE DEF Upto
  <2>5. m \in Nat /\ list[n + 1].count \in Nat BY <1>0, <2>1, <2>2, <2>4
  <2>6. CASE list[n + 1].count <= m BY <2>1, <2>3, <2>6
  <2>7. CASE ~(list[n + 1].count <= m)
    <3>1. \A k \in Upto(n) : k <= list[n + 1].count BY <2>1, <2>4, <2>5, <2>7
    <3>2. \A k \in Upto(n + 1) : k <= list[n + 1].count BY <2>3, <2>5, <3>1
    <3> QED BY <2>3, <3>2
  <2> QED BY <2>6, <2>7
<1> HIDE DEF S
<1>3. Nat \subseteq S BY <1>1, <1>2, Induction
<1>4. Max(Upto(Len(list)))
  <2>1. Len(list) \in S BY <1>3
  <2> HIDE DEF Max, Upto
  <2> QED BY <2>1 DEF S
<1>5. Upto(Len(list)) = {0} \cup {list[i].count : i \in DOMAIN list} OBVIOUS
<1> DEFINE counts == {0} \cup {list[i].count : i \in DOMAIN list}
<1>6. CurrentCount(list) \in counts /\ \A k \in counts : k <= CurrentCount(list)
  BY <1>4, <1>5 DEF CurrentCount
<1> QED BY <1>0, <1>6

(* Counts that are places: the largest is the length. *)
LEMMA CurrentAligned ==
  ASSUME NEW list \in Seq(Ckp), \A i \in DOMAIN list : list[i].count = i
  PROVE  CurrentCount(list) = Len(list)
<1>1. /\ CurrentCount(list) \in Nat
      /\ \A i \in DOMAIN list : list[i].count <= CurrentCount(list)
      /\ CurrentCount(list) = 0 \/ \E i \in DOMAIN list : list[i].count = CurrentCount(list)
  BY CurrentMax
<1>2. Len(list) \in Nat /\ DOMAIN list = 1 .. Len(list) OBVIOUS
<1>3. Len(list) <= CurrentCount(list) BY <1>1, <1>2
<1> QED BY <1>1, <1>2, <1>3

(* What concatenating two lists gives. *)
LEMMA ConcatParts ==
  ASSUME NEW T, NEW a \in Seq(T), NEW b \in Seq(T)
  PROVE  /\ a \o b \in Seq(T) /\ Len(a \o b) = Len(a) + Len(b)
         /\ \A k \in DOMAIN a : (a \o b)[k] = a[k]
         /\ \A k \in DOMAIN b : (a \o b)[Len(a) + k] = b[k]
         /\ \A k \in DOMAIN (a \o b) :
              \/ k \in DOMAIN a /\ (a \o b)[k] = a[k]
              \/ \E j \in DOMAIN b : k = Len(a) + j /\ (a \o b)[k] = b[j]
<1>1. /\ a \o b \in Seq(T) /\ Len(a \o b) = Len(a) + Len(b)
      /\ \A k \in DOMAIN a : (a \o b)[k] = a[k]
      /\ \A k \in DOMAIN b : (a \o b)[Len(a) + k] = b[k]
  OBVIOUS
<1>2. ASSUME NEW k \in DOMAIN (a \o b), k \notin DOMAIN a
      PROVE  \E j \in DOMAIN b : k = Len(a) + j /\ (a \o b)[k] = b[j]
  <2>1. k \in 1 .. Len(a) + Len(b) /\ ~(k <= Len(a)) BY <1>1, <1>2
  <2>2. k - Len(a) \in DOMAIN b /\ k = Len(a) + (k - Len(a)) BY <2>1
  <2> QED BY <1>1, <2>2
<1> QED BY <1>1, <1>2

(* What thread.turn-diff-completed does to the checkpoints. *)
LEMMA InsertEffect ==
  ASSUME Sound(checkpoints), NEW t \in Nat, NEW n \in Nat, NEW ref \in {NoRef, n},
         InsertCheckpoint(t, n, ref)
  PROVE  /\ Sound(checkpoints')
         /\ \A k \in DOMAIN checkpoints' :
              \/ checkpoints'[k] = [turn |-> t, count |-> n, ref |-> ref]
              \/ \E i \in DOMAIN checkpoints : checkpoints'[k] = checkpoints[i]
<1> DEFINE new == [turn |-> t, count |-> n, ref |-> ref]
           before == {i \in DOMAIN checkpoints : checkpoints[i].turn # t /\ checkpoints[i].count <= n}
           after == {i \in DOMAIN checkpoints : checkpoints[i].turn # t /\ checkpoints[i].count > n}
           a == Keep(checkpoints, before)
           c == Keep(checkpoints, after)
           b == <<new>>
           Old(s) == \A k \in DOMAIN s : \E i \in DOMAIN checkpoints : s[k] = checkpoints[i]
<1>1. checkpoints' = (a \o b) \o c BY DEF InsertCheckpoint
<1>2. checkpoints \in Seq(Ckp) BY DEF Sound
<1>3. a \in Seq(Ckp) /\ Old(a)
  <2> HIDE DEF before
  <2> QED BY <1>2, KeepElements
<1>4. c \in Seq(Ckp) /\ Old(c)
  <2> HIDE DEF after
  <2> QED BY <1>2, KeepElements
<1>5. new \in Ckp BY DEF Ckp, NoRef
<1> HIDE DEF a, c, new
<1>6. b \in Seq(Ckp) /\ \A k \in DOMAIN b : b[k] = new BY <1>5
<1> HIDE DEF b
<1> DEFINE d == a \o b
<1>7. d \in Seq(Ckp) /\ \A k \in DOMAIN d : d[k] = new \/ \E i \in DOMAIN checkpoints : d[k] = checkpoints[i]
  BY <1>3, <1>6, ConcatParts
<1> HIDE DEF d
<1>8. /\ checkpoints' \in Seq(Ckp)
      /\ \A k \in DOMAIN checkpoints' :
           checkpoints'[k] = new \/ \E i \in DOMAIN checkpoints : checkpoints'[k] = checkpoints[i]
  <2>1. checkpoints' = d \o c BY <1>1 DEF d
  <2> QED BY <1>4, <1>7, <2>1, ConcatParts
<1>9. new.ref \in {NoRef, new.count} BY DEF new
<1> QED BY <1>8, <1>9 DEF Sound, new

-----------------------------------------------------------------------------
(* Types and stored refs: every step. *)

(* The part that holds however the user behaves. *)
Base == Typed /\ Stored

(* The reactor with its type. *)
LEMMA ReactorParts ==
  ASSUME Typed
  PROVE  /\ reactor.step \in Step /\ reactor.turn \in Nat /\ reactor.n \in Nat
         /\ reactor.known \in Seq(Ckp) /\ Sound(reactor.known)
         /\ \A step \in Step : [reactor EXCEPT !.step = step].known = reactor.known
         /\ \A step \in Step :
              /\ [reactor EXCEPT !.step = step]
                   \in [step : Step, turn : Nat, n : Nat, known : Seq(Ckp)]
              /\ [reactor EXCEPT !.step = step].step = step
              /\ [reactor EXCEPT !.step = step].n = reactor.n
              /\ [reactor EXCEPT !.step = step].turn = reactor.turn
BY DEF Typed

(* The idle reactor, *)
LEMMA IdleTyped ==
  /\ Idle \in [step : Step, turn : Nat, n : Nat, known : Seq(Ckp)] /\ Sound(Idle.known)
  /\ Idle.step = "idle"
<1>1. << >> \in Seq(Ckp) /\ Sound(<< >>) BY DEF Sound
<1> QED BY <1>1 DEF Idle, Step, NoTurn

(* and the reactor at a step it takes when idle. *)
LEMMA IdleAt ==
  ASSUME NEW step \in Step, NEW t \in Nat, NEW n \in Nat
  PROVE  LET r == [Idle EXCEPT !.step = step, !.turn = t, !.n = n]
             b == [Idle EXCEPT !.step = step, !.n = n]
         IN /\ r \in [step : Step, turn : Nat, n : Nat, known : Seq(Ckp)]
            /\ Sound(r.known) /\ r.step = step /\ r.n = n /\ r.turn = t
            /\ b \in [step : Step, turn : Nat, n : Nat, known : Seq(Ckp)]
            /\ Sound(b.known) /\ b.step = step /\ b.n = n
<1>1. << >> \in Seq(Ckp) /\ Sound(<< >>) BY DEF Sound
<1> QED BY <1>1 DEF Idle, NoTurn

(* What is read of the queues. *)
LEMMA InputParts ==
  ASSUME Typed, inputs # << >>
  PROVE  /\ Tail(inputs) \in Seq(In) /\ Head(inputs) \in In
         /\ Head(inputs).type \in {"turn.started", "turn.completed", "turn.diff.updated"}
              => Head(inputs).turn \in Nat
         /\ Head(inputs).type = "checkpoint-revert-requested" => Head(inputs).n \in Nat
<1>1. Tail(inputs) \in Seq(In) /\ Head(inputs) \in In BY DEF Typed
<1> QED BY <1>1 DEF In, Turned

(* The ingestion's next event. *)
LEMMA EventParts ==
  ASSUME Typed, ingestion # << >>
  PROVE  Tail(ingestion) \in Seq(Turned) /\ Head(ingestion).turn \in Nat
<1>1. Tail(ingestion) \in Seq(Turned) /\ Head(ingestion) \in Turned BY DEF Typed
<1> QED BY <1>1 DEF Turned

(* A step that deletes no ref and leaves the completion of a revert alone. *)
LEMMA StoredStays ==
  ASSUME StoredRefsExist,
         \A k \in DOMAIN checkpoints' : checkpoints'[k].ref # NoRef =>
           checkpoints'[k].ref \in DOMAIN refs' \/ \E i \in DOMAIN checkpoints : checkpoints'[k] = checkpoints[i],
         DOMAIN refs \subseteq DOMAIN refs', abandoned \subseteq abandoned',
         At("complete") => (At("complete")' /\ reactor'.n = reactor.n) \/ reactor.n \in abandoned'
  PROVE  StoredRefsExist'
<1> SUFFICES ASSUME NEW k \in DOMAIN checkpoints', checkpoints'[k].ref # NoRef,
                    checkpoints'[k].ref \notin DOMAIN refs'
             PROVE  \E n \in abandoned' \cup (IF At("complete")' THEN {reactor'.n} ELSE {}) :
                      checkpoints'[k].count > n
  BY DEF StoredRefsExist, Captured
<1>1. PICK i \in DOMAIN checkpoints : checkpoints'[k] = checkpoints[i] OBVIOUS
<1>2. checkpoints[i].ref # NoRef /\ ~Captured(checkpoints[i]) BY <1>1 DEF Captured
<1>3. PICK n \in abandoned \cup (IF At("complete") THEN {reactor.n} ELSE {}) : checkpoints[i].count > n
  BY <1>2 DEF StoredRefsExist
<1> QED BY <1>1, <1>3

(* What setting and deleting refs does to them. *)
LEMMA SetRefDomain == \A n, c : DOMAIN SetRef(n, c) = DOMAIN refs \cup {n} /\ SetRef(n, c)[n] = c
                                  /\ \A k \in DOMAIN refs \ {n} : SetRef(n, c)[k] = refs[k]
BY DEF SetRef

LEMMA DropRefsDomain == \A ns : DOMAIN DropRefs(ns) = DOMAIN refs \ ns
                                 /\ \A k \in DOMAIN refs \ ns : DropRefs(ns)[k] = refs[k]
BY DEF DropRefs

(* Steps that leave the reactor, the checkpoints and the refs alone. *)
LEMMA StoredSame ==
  ASSUME Stored, UNCHANGED <<checkpoints, refs, reactor, abandoned>>
  PROVE  Stored'
BY DEF Stored, StoredRefsExist, Captured, At

(* Requests of the client. *)
LEMMA ClientBase ==
  ASSUME Base, Client
  PROVE  Base'
<1>1. ASSUME RequestTurn PROVE Base'
  <2>1. Append(inputs, [type |-> "turn-start-requested"]) \in Seq(In) BY DEF Base, Typed, In
  <2>2. UNCHANGED <<checkpoints, refs, reactor, abandoned>>
    BY <1>1 DEF RequestTurn, thread, git, outcome
  <2>3. Typed' BY <1>1, <2>1 DEF RequestTurn, thread, git, provider, outcome, Base, Typed, Sound
  <2> QED BY <2>2, <2>3, StoredSame DEF Base
<1>2. ASSUME NEW n \in Counts, RequestRevert(n) PROVE Base'
  <2>1. n \in Nat BY CheckpointAssumption DEF Counts
  <2>2. Append(inputs, [type |-> "checkpoint-revert-requested", n |-> n]) \in Seq(In)
    BY <2>1 DEF Base, Typed, In
  <2>3. UNCHANGED <<checkpoints, refs, reactor, abandoned>>
    BY <1>2 DEF RequestRevert, thread, git, outcome
  <2>4. Typed' BY <1>2, <2>2 DEF RequestRevert, thread, git, provider, outcome, Base, Typed, Sound
  <2> QED BY <2>3, <2>4, StoredSame DEF Base
<1> QED BY <1>1, <1>2 DEF Client

(* Steps of the provider. *)
LEMMA ProviderBase ==
  ASSUME Base, Provider
  PROVE  Base'
<1>0. UNCHANGED <<checkpoints, refs, reactor, abandoned>>
  BY DEF Provider, StartTurn, EditFiles, ReportDiff, CompleteTurn, thread, git, outcome
<1>1. Stored' BY <1>0, StoredSame DEF Base
<1>2. ASSUME StartTurn PROVE Typed'
  <2> DEFINE t == Len(ends) + 1
  <2>1. t \in Nat BY DEF Base, Typed
  <2>2. Append(ingestion, [type |-> "turn.started", turn |-> t]) \in Seq(Turned)
    BY <2>1 DEF Base, Typed, Turned
  <2>3. Append(inputs, [type |-> "turn.started", turn |-> t]) \in Seq(In)
    BY <2>1 DEF Base, Typed, Turned, In
  <2>4. Append(conversation, t) \in Seq(Nat) BY <2>1 DEF Base, Typed
  <2> HIDE DEF t
  <2>5. /\ running' = t /\ conversation' = Append(conversation, t)
        /\ ingestion' = Append(ingestion, [type |-> "turn.started", turn |-> t])
        /\ inputs' = Append(inputs, [type |-> "turn.started", turn |-> t])
        /\ UNCHANGED <<thread, git, ends, diffs, reactor, outcome>>
    BY <1>2 DEF StartTurn, t
  <2> QED BY <2>1, <2>2, <2>3, <2>4, <2>5 DEF thread, git, outcome, Base, Typed, Sound
<1>3. ASSUME EditFiles PROVE Typed'
  <2>1. fresh' \in Nat /\ files' \in Int BY <1>3 DEF EditFiles, Base, Typed
  <2> QED BY <1>3, <2>1 DEF EditFiles, thread, provider, outcome, Base, Typed, Sound
<1>4. ASSUME ReportDiff PROVE Typed'
  <2>1. Append(ingestion, [type |-> "turn.diff.updated", turn |-> running]) \in Seq(Turned)
    BY DEF Base, Typed, Turned
  <2>2. diffs' \in Nat BY <1>4 DEF ReportDiff, Base, Typed
  <2> QED BY <1>4, <2>1, <2>2 DEF ReportDiff, thread, git, outcome, Base, Typed, Sound
<1>5. ASSUME CompleteTurn PROVE Typed'
  <2>1. /\ Append(ingestion, [type |-> "turn.completed", turn |-> running]) \in Seq(Turned)
        /\ Append(inputs, [type |-> "turn.completed", turn |-> running]) \in Seq(In)
        /\ Append(ends, files) \in Seq(Int)
    BY DEF Base, Typed, Turned, In
  <2> QED BY <1>5, <2>1 DEF CompleteTurn, NoTurn, thread, git, outcome, Base, Typed, Sound
<1> QED BY <1>1, <1>2, <1>3, <1>4, <1>5 DEF Provider, Base

(* The session and the checkpoints of reported diffs. *)
LEMMA IngestionBase ==
  ASSUME Base, Ingestion
  PROVE  Base'
<1>1. ASSUME IngestLifecycle PROVE Base'
  <2>1. /\ ingestion # << >> /\ activeTurn' = SessionAfter(Head(ingestion))
        /\ ingestion' = Tail(ingestion)
        /\ UNCHANGED <<checkpoints, git, provider, inputs, reactor, outcome>>
    BY <1>1 DEF IngestLifecycle
  <2>2. Tail(ingestion) \in Seq(Turned) /\ Head(ingestion).turn \in Nat
    BY <2>1, EventParts DEF Base
  <2>3. activeTurn' \in Nat
    BY <2>1, <2>2 DEF SessionAfter, Base, Typed, NoTurn
  <2>4. Stored' BY <2>1, StoredSame DEF Base, git, outcome
  <2>5. Typed' BY <2>1, <2>2, <2>3 DEF git, provider, outcome, Base, Typed, Sound
  <2> QED BY <2>4, <2>5 DEF Base
<1>2. ASSUME IngestDiff PROVE Base'
  <2> DEFINE t == Head(ingestion).turn
             n == Len(checkpoints) + 1
  <2>1. /\ ingestion # << >> /\ InsertCheckpoint(t, n, NoRef)
        /\ ingestion' = Tail(ingestion)
        /\ UNCHANGED <<activeTurn, git, provider, inputs, reactor, outcome>>
    BY <1>2 DEF IngestDiff
  <2>2. Tail(ingestion) \in Seq(Turned) /\ t \in Nat /\ n \in Nat
    BY <2>1, EventParts DEF Base, Typed, Sound
  <2>3. Sound(checkpoints) BY DEF Base, Typed
  <2> HIDE DEF t, n
  <2>4. /\ Sound(checkpoints')
        /\ \A k \in DOMAIN checkpoints' :
             \/ checkpoints'[k] = [turn |-> t, count |-> n, ref |-> NoRef]
             \/ \E i \in DOMAIN checkpoints : checkpoints'[k] = checkpoints[i]
    BY <2>1, <2>2, <2>3, InsertEffect
  <2>5. Typed' BY <2>1, <2>2, <2>4 DEF git, provider, outcome, Base, Typed, Sound
  <2>6. UNCHANGED <<refs, reactor, abandoned>> BY <2>1 DEF git, outcome
  <2>7. StoredRefsExist' BY <2>4, <2>6, StoredStays DEF Base, Stored, At
  <2> QED BY <2>5, <2>6, <2>7 DEF Base, Stored, At
<1> QED BY <1>1, <1>2 DEF Ingestion

(* A step of the reactor that leaves the checkpoints alone. *)
LEMMA ReactorTyped ==
  ASSUME Typed, reactor' \in [step : Step, turn : Nat, n : Nat, known : Seq(Ckp)],
         Sound(reactor'.known), Sound(checkpoints'),
         inputs' \in Seq(In), files' \in Int, fresh' \in Nat, failures' \in Nat,
         conversation' \in Seq(Nat), abandoned' \subseteq Nat,
         \A k \in DOMAIN refs' : refs'[k] \in Int,
         UNCHANGED <<ingestion, activeTurn, running, ends, diffs>>
  PROVE  Typed'
BY DEF Typed, Sound

(* A refusal counts one failure at most. *)
LEMMA RefuseCounts == Refuse => UNCHANGED failures \/ failures' = failures + 1
BY DEF Refuse, MayFail

(* The reactor takes an input: nothing but its handler changes. *)
LEMMA TakeBase ==
  ASSUME Base, NEW type, Take(type), failures' \in Nat,
         reactor' \in [step : Step, turn : Nat, n : Nat, known : Seq(Ckp)],
         Sound(reactor'.known), reactor'.step # "report",
         reactor'.step \in {"restore", "rollback"} => reactor'.n <= CurrentCount(reactor'.known)
  PROVE  Base'
<1>1. /\ At("idle") /\ inputs # << >> /\ inputs' = Tail(inputs)
      /\ UNCHANGED <<thread, git, provider, client, ingestion, abandoned, scope>>
  BY DEF Take
<1>2. inputs' \in Seq(In) BY <1>1, InputParts DEF Base
<1>3. Typed' BY <1>1, <1>2, ReactorTyped DEF Base, Typed, Sound, thread, git, provider
<1>4. StoredRefsExist'
  <2>1. UNCHANGED <<checkpoints, refs, abandoned>> BY <1>1 DEF thread, git
  <2>2. ~At("complete") BY <1>1 DEF At
  <2> QED BY <2>1, <2>2, StoredStays DEF Base, Stored
<1> QED BY <1>3, <1>4 DEF Base, Stored, At

(* It takes the start of a turn, *)
LEMMA TurnStartBase ==
  ASSUME Base, TakeTurnStart
  PROVE  Base'
<1>1. BaselineCount \in Nat BY CurrentMax DEF BaselineCount, Base, Typed, Sound
<1> DEFINE r == [Idle EXCEPT !.step = "baseline", !.n = BaselineCount]
<1>2. /\ reactor' \in [step : Step, turn : Nat, n : Nat, known : Seq(Ckp)]
      /\ Sound(reactor'.known) /\ reactor'.step \in {"idle", "baseline"}
  <2>1. /\ r \in [step : Step, turn : Nat, n : Nat, known : Seq(Ckp)] /\ Sound(r.known)
        /\ r.step = "baseline"
    <3>1. "baseline" \in Step /\ 0 \in Nat BY DEF Step
    <3> QED BY <1>1, <3>1, IdleAt
  <2>2. reactor' = Idle \/ reactor' = r BY DEF TakeTurnStart
  <2> HIDE DEF r
  <2> QED BY <2>1, <2>2, IdleTyped
<1>3. failures' \in Nat BY DEF TakeTurnStart, Base, Typed
<1> QED BY <1>2, <1>3, TakeBase DEF TakeTurnStart

(* the end of one, *)
LEMMA TurnCompletedBase ==
  ASSUME Base, TakeTurnCompleted
  PROVE  Base'
<1> DEFINE t == Head(inputs).turn
<1>1. Take("turn.completed") BY DEF TakeTurnCompleted
<1>2. NextCount \in Nat BY CurrentMax DEF NextCount, Base, Typed, Sound
<1>3. t \in Nat BY <1>1, InputParts DEF Take, Base
<1>4. reactor' = Idle \/ reactor' = [Idle EXCEPT !.step = "capture", !.turn = t, !.n = NextCount]
  BY DEF TakeTurnCompleted
<1> DEFINE r == [Idle EXCEPT !.step = "capture", !.turn = t, !.n = NextCount]
<1>5. /\ reactor' \in [step : Step, turn : Nat, n : Nat, known : Seq(Ckp)]
      /\ Sound(reactor'.known) /\ reactor'.step \in {"idle", "capture"}
  <2> HIDE DEF t
  <2>1. /\ r \in [step : Step, turn : Nat, n : Nat, known : Seq(Ckp)] /\ Sound(r.known)
        /\ r.step = "capture"
    <3>1. "capture" \in Step BY DEF Step
    <3> QED BY <1>2, <1>3, <3>1, IdleAt
  <2>2. reactor' = Idle \/ reactor' = r BY <1>4
  <2> HIDE DEF r
  <2> QED BY <2>1, <2>2, IdleTyped
<1>6. failures' \in Nat BY DEF TakeTurnCompleted, Base, Typed
<1> QED BY <1>1, <1>5, <1>6, TakeBase

(* or a revert, whose target is a count of the thread. *)
LEMMA TakeRevertBase ==
  ASSUME Base, TakeRevert
  PROVE  Base'
<1> DEFINE n == Head(inputs).n
           r == [step |-> "restore", turn |-> NoTurn, n |-> n, known |-> checkpoints]
<1>1. Take("checkpoint-revert-requested") BY DEF TakeRevert
<1>2. n \in Nat BY <1>1, InputParts DEF Take, Base
<1>3. reactor' = Idle \/ (reactor' = r /\ ~(n > CurrentCount(checkpoints))) BY DEF TakeRevert
<1>4. /\ r \in [step : Step, turn : Nat, n : Nat, known : Seq(Ckp)] /\ Sound(r.known)
      /\ r.step = "restore" /\ r.n = n /\ r.known = checkpoints
  BY <1>2 DEF Base, Typed, Sound, Step, NoTurn
<1> HIDE DEF r
<1>5. /\ reactor' \in [step : Step, turn : Nat, n : Nat, known : Seq(Ckp)]
      /\ Sound(reactor'.known) /\ reactor'.step # "report"
      /\ reactor'.step \in {"restore", "rollback"} => reactor'.n <= CurrentCount(reactor'.known)
  <2>1. CurrentCount(checkpoints) \in Nat BY CurrentMax DEF Base, Typed, Sound
  <2>2. CASE reactor' = Idle BY <2>2, IdleTyped
  <2>3. CASE reactor' = r /\ ~(n > CurrentCount(checkpoints)) BY <1>2, <1>4, <2>1, <2>3
  <2> QED BY <1>3, <2>2, <2>3
<1>6. failures' \in Nat BY RefuseCounts DEF TakeRevert, Base, Typed
<1> QED BY <1>1, <1>5, <1>6, TakeBase

(* A capture only adds a ref. *)
LEMMA CaptureBase ==
  ASSUME Base, CaptureBaseline \/ Capture
  PROVE  Base'
<1>1. /\ refs' = SetRef(reactor.n, files) /\ ~At("complete") /\ reactor'.n \in Nat
      /\ reactor' \in [step : Step, turn : Nat, n : Nat, known : Seq(Ckp)] /\ Sound(reactor'.known)
      /\ At("report")' => reactor'.n = reactor.n
      /\ ~At("restore")' /\ ~At("rollback")'
      /\ UNCHANGED <<thread, files, fresh, provider, client, ingestion, inputs, outcome>>
  <2>1. CASE CaptureBaseline BY <2>1, IdleTyped DEF CaptureBaseline, At
  <2>2. CASE Capture
    <3>1. Typed /\ "report" \in Step BY DEF Base, Step
    <3> QED BY <2>2, <3>1, ReactorParts DEF Capture, At, Goto
  <2> QED BY <2>1, <2>2
<1>2. Typed'
  <2>1. \A k \in DOMAIN refs' : refs'[k] \in Int BY <1>1 DEF SetRef, Base, Typed
  <2> QED BY <1>1, <2>1, ReactorTyped DEF Base, Typed, Sound, thread, provider, outcome
<1>3. DOMAIN refs' = DOMAIN refs \cup {reactor.n} BY <1>1, SetRefDomain
<1>4. StoredRefsExist'
  <2>1. UNCHANGED <<checkpoints, abandoned>> BY <1>1 DEF thread, outcome
  <2> QED BY <1>1, <1>3, <2>1, StoredStays DEF Base, Stored
<1> QED BY <1>1, <1>2, <1>3, <1>4 DEF Base, Stored

(* A reported checkpoint has the ref of its capture. *)
LEMMA ReportBase ==
  ASSUME Base, ReportCheckpoint
  PROVE  Base'
<1>1. /\ At("report") /\ InsertCheckpoint(reactor.turn, reactor.n, reactor.n) /\ reactor' = Idle
      /\ UNCHANGED <<activeTurn, git, provider, client, ingestion, inputs, outcome>>
  BY DEF ReportCheckpoint
<1>2. Sound(checkpoints) /\ reactor.turn \in Nat /\ reactor.n \in Nat BY ReactorParts DEF Base, Typed
<1>3. /\ Sound(checkpoints')
      /\ \A k \in DOMAIN checkpoints' :
           \/ checkpoints'[k] = [turn |-> reactor.turn, count |-> reactor.n, ref |-> reactor.n]
           \/ \E i \in DOMAIN checkpoints : checkpoints'[k] = checkpoints[i]
  BY <1>1, <1>2, InsertEffect
<1>4. Typed' BY <1>1, <1>3, IdleTyped, ReactorTyped DEF Base, Typed, Sound, git, provider, outcome
<1>5. reactor.n \in DOMAIN refs BY <1>1 DEF Base, Stored
<1>6. UNCHANGED <<refs, abandoned>> /\ ~At("complete") BY <1>1 DEF git, outcome, At
<1>7. StoredRefsExist' BY <1>3, <1>5, <1>6, StoredStays DEF Base, Stored
<1> QED BY <1>1, <1>4, <1>7, IdleTyped DEF Base, Stored, At

(* A capture that fails leaves the thread alone. *)
LEMMA CaptureFailsBase ==
  ASSUME Base, CaptureFails
  PROVE  Base'
<1>1. /\ ~At("complete") /\ failures' = failures + 1 /\ reactor' = Idle
      /\ UNCHANGED <<thread, git, provider, client, ingestion, inputs, answers, abandoned, scope>>
  BY DEF CaptureFails, At, MayFail
<1>2. Typed'
  <2>1. failures' \in Nat BY <1>1 DEF Base, Typed
  <2>2. Sound(checkpoints') BY <1>1 DEF Base, Typed, thread
  <2>3. Typed BY DEF Base
  <2>4. /\ inputs' \in Seq(In) /\ files' \in Int /\ fresh' \in Nat
        /\ conversation' \in Seq(Nat) /\ abandoned' \subseteq Nat
        /\ \A k \in DOMAIN refs' : refs'[k] \in Int
        /\ UNCHANGED <<ingestion, activeTurn, running, ends, diffs>>
    BY <1>1, <2>3 DEF Typed, thread, git, provider
  <2> QED BY <1>1, <2>1, <2>2, <2>3, <2>4, IdleTyped, ReactorTyped
<1>3. UNCHANGED <<checkpoints, refs, abandoned>> BY <1>1 DEF thread, git
<1>4. StoredRefsExist' BY <1>1, <1>3, StoredStays DEF Base, Stored
<1> QED BY <1>1, <1>2, <1>4, IdleTyped DEF Base, Stored, At

(* The steps of a revert, *)
LEMMA RestoreBase ==
  ASSUME Base, Restore
  PROVE  Base'
<1>1. /\ At("restore")
      /\ files' = IF TargetRef \in DOMAIN refs THEN refs[TargetRef] ELSE 0
      /\ reactor' = [reactor EXCEPT !.step = "rollback"]
      /\ UNCHANGED <<thread, refs, fresh, provider, client, ingestion, inputs, outcome>>
  BY DEF Restore, Goto
<1>2. files' \in Int BY <1>1 DEF Base, Typed
<1>3. /\ reactor' \in [step : Step, turn : Nat, n : Nat, known : Seq(Ckp)] /\ Sound(reactor'.known)
      /\ reactor'.step = "rollback" /\ reactor'.n = reactor.n /\ reactor'.known = reactor.known
  <2>1. Typed /\ "rollback" \in Step BY DEF Base, Step
  <2> QED BY <1>1, <2>1, ReactorParts
<1>4. Typed'
  <2>1. Typed BY DEF Base
  <2>2. /\ Sound(checkpoints') /\ inputs' \in Seq(In) /\ fresh' \in Nat /\ failures' \in Nat
        /\ conversation' \in Seq(Nat) /\ abandoned' \subseteq Nat
        /\ \A k \in DOMAIN refs' : refs'[k] \in Int
        /\ UNCHANGED <<ingestion, activeTurn, running, ends, diffs>>
    BY <1>1, <2>1 DEF Typed, thread, provider, outcome
  <2> QED BY <1>2, <1>3, <2>1, <2>2, ReactorTyped
<1>5. UNCHANGED <<checkpoints, refs, abandoned>> BY <1>1 DEF thread, outcome
<1>6. StoredRefsExist' BY <1>1, <1>5, StoredStays DEF Base, Stored, At
<1> QED BY <1>1, <1>3, <1>4, <1>6 DEF Base, Stored, At

(* the one to a checkpoint without its ref, *)
LEMMA RestoreUnavailableBase ==
  ASSUME Base, RestoreUnavailable
  PROVE  Base'
<1>1. /\ At("restore") /\ reactor' = Idle
      /\ UNCHANGED <<thread, git, provider, client, ingestion, inputs, abandoned, scope>>
  BY DEF RestoreUnavailable
<1>2. Typed'
  <2>1. Typed BY DEF Base
  <2>3. failures' \in Nat BY <2>1, RefuseCounts DEF RestoreUnavailable, Typed
  <2>2. /\ Sound(checkpoints') /\ inputs' \in Seq(In) /\ files' \in Int /\ fresh' \in Nat /\ failures' \in Nat
        /\ conversation' \in Seq(Nat) /\ abandoned' \subseteq Nat
        /\ \A k \in DOMAIN refs' : refs'[k] \in Int
        /\ UNCHANGED <<ingestion, activeTurn, running, ends, diffs>>
    BY <1>1, <2>1, <2>3 DEF Typed, thread, git, provider
  <2> QED BY <1>1, <2>1, <2>2, IdleTyped, ReactorTyped
<1>3. UNCHANGED <<checkpoints, refs, abandoned>> /\ ~At("complete") BY <1>1 DEF thread, git, At
<1>4. StoredRefsExist' BY <1>3, StoredStays DEF Base, Stored
<1> QED BY <1>1, <1>2, <1>4, IdleTyped DEF Base, Stored, At

(* A conversation without its last turns. *)
LEMMA Prefix ==
  ASSUME NEW T, NEW s \in Seq(T), NEW d \in Nat
  PROVE  SubSeq(s, 1, Len(s) - d) \in Seq(T)
OBVIOUS

(* the rollback of the conversation, *)
LEMMA RollbackBase ==
  ASSUME Base, Rollback
  PROVE  Base'
<1>1. /\ At("rollback") /\ conversation' = SubSeq(conversation, 1, Len(conversation) - RolledBackTurns)
      /\ reactor' = [reactor EXCEPT !.step = "delete"]
      /\ UNCHANGED <<thread, git, running, ends, diffs, client, ingestion, inputs, outcome>>
  BY DEF Rollback, Goto
<1>2. conversation' \in Seq(Nat)
  <2>1. CurrentCount(reactor.known) \in Nat /\ reactor.n \in Nat
    BY ReactorParts, CurrentMax DEF Base
  <2>2. RolledBackTurns \in Nat BY <1>1, <2>1 DEF RolledBackTurns, Base, Stored
  <2> QED BY <1>1, <2>2, Prefix DEF Base, Typed
<1>3. /\ reactor' \in [step : Step, turn : Nat, n : Nat, known : Seq(Ckp)] /\ Sound(reactor'.known)
      /\ reactor'.step = "delete"
  <2>1. Typed /\ "delete" \in Step BY DEF Base, Step
  <2> QED BY <1>1, <2>1, ReactorParts
<1>4. Typed'
  <2>1. Typed BY DEF Base
  <2>2. /\ Sound(checkpoints') /\ inputs' \in Seq(In) /\ files' \in Int /\ fresh' \in Nat /\ failures' \in Nat
        /\ abandoned' \subseteq Nat /\ \A k \in DOMAIN refs' : refs'[k] \in Int
        /\ UNCHANGED <<ingestion, activeTurn, running, ends, diffs>>
    BY <1>1, <2>1 DEF Typed, thread, git, outcome
  <2> QED BY <1>2, <1>3, <2>1, <2>2, ReactorTyped
<1>5. UNCHANGED <<checkpoints, refs, abandoned>> BY <1>1 DEF thread, git, outcome
<1>6. StoredRefsExist' BY <1>1, <1>5, StoredStays DEF Base, Stored, At
<1> QED BY <1>3, <1>4, <1>6 DEF Base, Stored, At

(* Refs that a revert deletes are of checkpoints after its target. *)
LEMMA StaleAfter ==
  ASSUME Typed, NEW gone \in SUBSET StaleRefs, NEW i \in DOMAIN checkpoints,
         checkpoints[i].ref # NoRef, checkpoints[i].ref \in gone
  PROVE  checkpoints[i].count > reactor.n
<1>1. PICK j \in DOMAIN reactor.known :
        reactor.known[j].ref = checkpoints[i].ref /\ reactor.known[j].count > reactor.n
  BY DEF StaleRefs
<1>2. reactor.known[j].ref = reactor.known[j].count BY <1>1 DEF Typed, Sound
<1>3. checkpoints[i].ref = checkpoints[i].count BY DEF Typed, Sound
<1> QED BY <1>1, <1>2, <1>3

(* A revert that deletes refs, all of them or some. *)
LEMMA DroppedStored ==
  ASSUME Typed, StoredRefsExist, At("delete"),
         NEW gone \in SUBSET StaleRefs, refs' = DropRefs(gone),
         UNCHANGED checkpoints, abandoned \subseteq abandoned',
         (At("complete")' /\ reactor'.n = reactor.n) \/ reactor.n \in abandoned'
  PROVE  StoredRefsExist'
<1> DEFINE Targets == abandoned' \cup (IF At("complete")' THEN {reactor'.n} ELSE {})
<1> SUFFICES ASSUME NEW i \in DOMAIN checkpoints, checkpoints[i].ref # NoRef,
                    checkpoints[i].ref \notin DOMAIN refs'
             PROVE  \E n \in Targets : checkpoints[i].count > n
  BY DEF StoredRefsExist, Captured
<1>1. CASE checkpoints[i].ref \in gone
  <2>1. checkpoints[i].count > reactor.n BY <1>1, StaleAfter
  <2>2. reactor.n \in Targets OBVIOUS
  <2> QED BY <2>1, <2>2
<1>2. CASE checkpoints[i].ref \notin gone
  <2>1. ~Captured(checkpoints[i]) BY <1>2, DropRefsDomain DEF Captured
  <2>2. ~At("complete") BY DEF At
  <2> QED BY <2>1, <2>2 DEF StoredRefsExist
<1> QED BY <1>1, <1>2

(* the deletion of refs, *)
LEMMA DeleteBase ==
  ASSUME Base, DeleteRefs
  PROVE  Base'
<1>1. /\ At("delete") /\ refs' = DropRefs(StaleRefs)
      /\ reactor' = [reactor EXCEPT !.step = "complete"]
      /\ UNCHANGED <<thread, files, fresh, provider, client, ingestion, inputs, outcome>>
  BY DEF DeleteRefs, Goto
<1>2. /\ reactor' \in [step : Step, turn : Nat, n : Nat, known : Seq(Ckp)] /\ Sound(reactor'.known)
      /\ reactor'.step = "complete" /\ reactor'.n = reactor.n
  <2>1. Typed /\ "complete" \in Step BY DEF Base, Step
  <2> QED BY <1>1, <2>1, ReactorParts
<1>3. Typed'
  <2>1. Typed BY DEF Base
  <2>2. \A k \in DOMAIN refs' : refs'[k] \in Int BY <1>1, <2>1, DropRefsDomain DEF Typed
  <2>3. /\ Sound(checkpoints') /\ inputs' \in Seq(In) /\ files' \in Int /\ fresh' \in Nat /\ failures' \in Nat
        /\ conversation' \in Seq(Nat) /\ abandoned' \subseteq Nat
        /\ UNCHANGED <<ingestion, activeTurn, running, ends, diffs>>
    BY <1>1, <2>1 DEF Typed, thread, provider, outcome
  <2> QED BY <1>2, <2>1, <2>2, <2>3, ReactorTyped
<1>4. StoredRefsExist'
  <2>1. UNCHANGED <<checkpoints, abandoned>> BY <1>1 DEF thread, outcome
  <2>2. At("complete")' /\ reactor'.n = reactor.n BY <1>2 DEF At
  <2> QED BY <1>1, <2>1, <2>2, DroppedStored DEF Base, Stored
<1> QED BY <1>2, <1>3, <1>4 DEF Base, Stored, At

(* its completion, which removes the checkpoints without refs, *)
LEMMA CompleteBase ==
  ASSUME Base, CompleteRevert
  PROVE  Base'
<1> DEFINE kept == {i \in DOMAIN checkpoints : checkpoints[i].count <= reactor.n}
<1>1. /\ At("complete") /\ checkpoints' = Keep(checkpoints, kept) /\ reactor' = Idle
      /\ UNCHANGED <<activeTurn, git, provider, client, ingestion, inputs, failures, abandoned, scope>>
  BY DEF CompleteRevert
<1>2. Typed BY DEF Base
<1>3. /\ checkpoints' \in Seq(Ckp)
      /\ \A k \in DOMAIN checkpoints' :
           \E i \in DOMAIN checkpoints : i \in kept /\ checkpoints'[k] = checkpoints[i]
  <2>1. checkpoints \in Seq(Ckp) BY <1>2 DEF Typed, Sound
  <2> HIDE DEF kept
  <2> QED BY <1>1, <2>1, KeepElements
<1>4. Sound(checkpoints') BY <1>2, <1>3 DEF Typed, Sound
<1>5. Typed'
  <2>1. /\ inputs' \in Seq(In) /\ files' \in Int /\ fresh' \in Nat /\ failures' \in Nat
        /\ conversation' \in Seq(Nat) /\ abandoned' \subseteq Nat
        /\ \A k \in DOMAIN refs' : refs'[k] \in Int
        /\ UNCHANGED <<ingestion, activeTurn, running, ends, diffs>>
    BY <1>1, <1>2 DEF Typed, git, provider
  <2> QED BY <1>1, <1>2, <1>4, <2>1, IdleTyped, ReactorTyped
<1>6. StoredRefsExist'
  <2> SUFFICES ASSUME NEW k \in DOMAIN checkpoints', checkpoints'[k].ref # NoRef,
                      checkpoints'[k].ref \notin DOMAIN refs'
               PROVE  \E n \in abandoned' : checkpoints'[k].count > n
    BY DEF StoredRefsExist, Captured
  <2>1. PICK i \in DOMAIN checkpoints : i \in kept /\ checkpoints'[k] = checkpoints[i] BY <1>3
  <2>2. UNCHANGED <<refs, abandoned>> BY <1>1 DEF git
  <2>3. PICK n \in abandoned \cup {reactor.n} : checkpoints[i].count > n
    BY <1>1, <2>1, <2>2 DEF Base, Stored, StoredRefsExist, Captured
  <2>4. checkpoints[i].count \in Nat /\ checkpoints[i].count <= reactor.n /\ reactor.n \in Nat
    <3>1. checkpoints \in Seq(Ckp) BY <1>2 DEF Typed, Sound
    <3>2. checkpoints[i] \in Ckp BY <3>1
    <3>3. checkpoints[i].count \in Nat BY <3>2 DEF Ckp
    <3>4. checkpoints[i].count <= reactor.n BY <2>1 DEF kept
    <3> QED BY <1>2, <3>3, <3>4, ReactorParts
  <2>5. n # reactor.n BY <2>3, <2>4
  <2> QED BY <2>1, <2>2, <2>3, <2>5
<1> QED BY <1>1, <1>5, <1>6, IdleTyped DEF Base, Stored, At

(* and its failure, after which its target stays in abandoned. *)
LEMMA RevertFailsBase ==
  ASSUME Base, RevertFails
  PROVE  Base'
<1>1. /\ At("restore") \/ At("rollback") \/ At("delete") \/ At("complete")
      /\ failures' = failures + 1 /\ reactor' = Idle
      /\ abandoned' = IF At("delete") \/ At("complete") THEN abandoned \cup {reactor.n} ELSE abandoned
      /\ UNCHANGED <<thread, provider, client, ingestion, inputs, scope>>
  BY DEF RevertFails, MayFail
<1>2. (fresh' = fresh + 1 /\ files' = fresh') \/ UNCHANGED <<fresh, files>> BY DEF RevertFails
<1>3. \/ At("delete") /\ \E gone \in SUBSET StaleRefs : refs' = DropRefs(gone)
      \/ ~At("delete") /\ UNCHANGED refs
  BY DEF RevertFails
<1>4. Typed /\ reactor.n \in Nat BY ReactorParts DEF Base
<1>5. UNCHANGED checkpoints BY <1>1 DEF thread
<1>6. Typed'
  <2>1. fresh' \in Nat /\ files' \in Int /\ failures' \in Nat BY <1>1, <1>2, <1>4 DEF Typed
  <2>2. \A k \in DOMAIN refs' : refs'[k] \in Int
    <3>1. CASE UNCHANGED refs BY <1>4, <3>1 DEF Typed
    <3>2. ASSUME NEW gone, refs' = DropRefs(gone) PROVE \A k \in DOMAIN refs' : refs'[k] \in Int
      BY <1>4, <3>2, DropRefsDomain DEF Typed
    <3> QED BY <1>3, <3>1, <3>2
  <2>3. /\ Sound(checkpoints') /\ inputs' \in Seq(In) /\ conversation' \in Seq(Nat)
        /\ UNCHANGED <<ingestion, activeTurn, running, ends, diffs>>
    BY <1>1, <1>4, <1>5 DEF Typed, thread, provider
  <2>4. abandoned' \subseteq Nat BY <1>1, <1>4 DEF Typed
  <2> QED BY <1>1, <1>4, <2>1, <2>2, <2>3, <2>4, IdleTyped, ReactorTyped
<1>7. StoredRefsExist'
  <2>1. abandoned \subseteq abandoned' BY <1>1
  <2>2. CASE At("delete")
    <3>1. PICK gone \in SUBSET StaleRefs : refs' = DropRefs(gone) BY <1>3, <2>2
    <3>2. reactor.n \in abandoned' BY <1>1, <2>2
    <3> QED BY <1>4, <1>5, <2>1, <2>2, <3>1, <3>2, DroppedStored DEF Base, Stored
  <2>3. CASE ~At("delete")
    <3>1. At("complete") => reactor.n \in abandoned' BY <1>1
    <3>2. UNCHANGED refs BY <1>3, <2>3
    <3> QED BY <1>5, <2>1, <3>1, <3>2, StoredStays DEF Base, Stored
  <2> QED BY <2>2, <2>3
<1> QED BY <1>1, <1>6, <1>7, IdleTyped DEF Base, Stored, At

(* Types and stored refs hold at first *)
LEMMA InitBase == Init => Base
<1> SUFFICES ASSUME Init PROVE Base OBVIOUS
<1>1. Sound(checkpoints) /\ reactor = Idle BY DEF Init, Sound
<1>2. Typed BY <1>1, IdleTyped DEF Init, Typed, NoTurn
<1>3. Stored BY <1>1, IdleTyped DEF Init, Stored, StoredRefsExist, At
<1> QED BY <1>2, <1>3 DEF Base

(* and after every step. *)
LEMMA NextBase == Base /\ [Next]_vars => Base'
<1> SUFFICES ASSUME Base, [Next]_vars PROVE Base' OBVIOUS
<1>1. CASE UNCHANGED vars
  <2>1. Typed' BY <1>1 DEF vars, thread, git, provider, client, outcome, Base, Typed, Sound
  <2>2. Stored' BY <1>1, StoredSame DEF vars, thread, git, outcome, Base
  <2> QED BY <2>1, <2>2 DEF Base
<1>2. CASE Client BY <1>2, ClientBase
<1>3. CASE Provider BY <1>3, ProviderBase
<1>4. CASE Ingestion BY <1>4, IngestionBase
<1>5. CASE TakeTurnStart \/ TakeTurnCompleted \/ TakeRevert
  BY <1>5, TurnStartBase, TurnCompletedBase, TakeRevertBase
<1>6. CASE CaptureBaseline \/ Capture \/ ReportCheckpoint \/ CaptureFails
  BY <1>6, CaptureBase, ReportBase, CaptureFailsBase
<1>7. CASE Restore \/ RestoreUnavailable \/ Rollback
  BY <1>7, RestoreBase, RestoreUnavailableBase, RollbackBase
<1>8. CASE DeleteRefs \/ CompleteRevert \/ RevertFails
  BY <1>8, DeleteBase, CompleteBase, RevertFailsBase
<1> QED BY <1>1, <1>2, <1>3, <1>4, <1>5, <1>6, <1>7, <1>8 DEF Next, Reactor


-----------------------------------------------------------------------------
(* The undisturbed thread: every step. *)

(* Short queues. *)
LEMMA Queues ==
  /\ \A a : <<a>> # << >> /\ Head(<<a>>) = a /\ Tail(<<a>>) = << >> /\ Append(<< >>, a) = <<a>>
  /\ \A a, b : <<a, b>> # << >> /\ Head(<<a, b>>) = a /\ Tail(<<a, b>>) = <<b>> /\ Append(<<a>>, b) = <<a, b>>
  /\ \A a, b, c : /\ <<a, b, c>> # << >> /\ Head(<<a, b, c>>) = a /\ Tail(<<a, b, c>>) = <<b, c>>
                  /\ Append(<<a, b>>, c) = <<a, b, c>>
<1>1. ASSUME NEW a
      PROVE  <<a>> # << >> /\ Head(<<a>>) = a /\ Tail(<<a>>) = << >> /\ Append(<< >>, a) = <<a>>
  <2>1. <<a>> # << >> /\ Head(<<a>>) = a /\ Append(<< >>, a) = <<a>> OBVIOUS
  <2>2. Tail(<<a>>) = << >> OBVIOUS
  <2> QED BY <2>1, <2>2
<1>2. ASSUME NEW a, NEW b
      PROVE  <<a, b>> # << >> /\ Head(<<a, b>>) = a /\ Tail(<<a, b>>) = <<b>> /\ Append(<<a>>, b) = <<a, b>>
  <2>1. <<a, b>> # << >> /\ Head(<<a, b>>) = a OBVIOUS
  <2>2. Tail(<<a, b>>) = <<b>> OBVIOUS
  <2>3. Append(<<a>>, b) = <<a, b>>
    <3> DEFINE s == Append(<<a>>, b)
    <3>1. <<a>> \in Seq({a, b}) OBVIOUS
    <3>2. s \in Seq({a, b}) /\ Len(s) = 2 /\ s[1] = a /\ s[2] = b BY <3>1
    <3> HIDE DEF s
    <3>3. s = <<a, b>> BY <3>2
    <3> QED BY <3>3 DEF s
  <2> QED BY <2>1, <2>2, <2>3
<1>3. ASSUME NEW a, NEW b, NEW c
      PROVE  /\ <<a, b, c>> # << >> /\ Head(<<a, b, c>>) = a /\ Tail(<<a, b, c>>) = <<b, c>>
             /\ Append(<<a, b>>, c) = <<a, b, c>>
  <2>1. <<a, b, c>> # << >> /\ Head(<<a, b, c>>) = a OBVIOUS
  <2>2. Tail(<<a, b, c>>) = <<b, c>> OBVIOUS
  <2>3. Append(<<a, b>>, c) = <<a, b, c>>
    <3> DEFINE s == Append(<<a, b>>, c)
    <3>1. <<a, b>> \in Seq({a, b, c}) OBVIOUS
    <3>2. s \in Seq({a, b, c}) /\ Len(s) = 3 /\ s[1] = a /\ s[2] = b /\ s[3] = c BY <3>1
    <3> HIDE DEF s
    <3>3. s = <<a, b, c>> BY <3>2
    <3> QED BY <3>3 DEF s
  <2> QED BY <2>1, <2>2, <2>3
<1> QED BY <1>1, <1>2, <1>3

(* Inputs and events by their type. *)
LEMMA Kinds ==
  /\ Requested.type = "turn-start-requested"
  /\ \A t : /\ Started(t).type = "turn.started" /\ Started(t).turn = t
            /\ Completed(t).type = "turn.completed" /\ Completed(t).turn = t
            /\ Reverting(t).type = "checkpoint-revert-requested" /\ Reverting(t).n = t
BY DEF Requested, Started, Completed, Reverting

(* The queues of a turn. *)
LEMMA TurnQueues ==
  ASSUME NEW t
  PROVE  /\ Tail(<<Requested, Started(t), Completed(t)>>) = <<Started(t), Completed(t)>>
         /\ Tail(<<Requested, Started(t)>>) = <<Started(t)>>
         /\ Tail(<<Started(t), Completed(t)>>) = <<Completed(t)>>
         /\ Tail(<<Started(t)>>) = << >> /\ Tail(<<Completed(t)>>) = << >>
         /\ Append(<<Requested, Started(t)>>, Completed(t)) = <<Requested, Started(t), Completed(t)>>
         /\ Append(<<Started(t)>>, Completed(t)) = <<Started(t), Completed(t)>>
         /\ Append(<< >>, Completed(t)) = <<Completed(t)>>
<1> DEFINE r == Requested s == Started(t) c == Completed(t)
<1> HIDE DEF r, s, c
<1>1. Tail(<<r, s, c>>) = <<s, c>> /\ Append(<<r, s>>, c) = <<r, s, c>> BY Queues
<1>2. Tail(<<r, s>>) = <<s>> /\ Tail(<<s, c>>) = <<c>> /\ Append(<<s>>, c) = <<s, c>> BY Queues
<1>3. Tail(<<s>>) = << >> /\ Tail(<<c>>) = << >> /\ Append(<< >>, c) = <<c>> BY Queues
<1> QED BY <1>1, <1>2, <1>3 DEF r, s, c

(* What the client is told stays *)
LEMMA ToldSame ==
  ASSUME Told, UNCHANGED <<sending, running, activeTurn, ingestion, ends>>
  PROVE  Told'
BY Zenon DEF Told

(* and so do the places of the checkpoints. *)
LEMMA PlacedSame ==
  ASSUME Placed, UNCHANGED <<checkpoints, refs, ends>>, ~At("complete") \/ UNCHANGED reactor
  PROVE  Placed'
BY DEF Placed, At

(* The client asks only of a thread at rest. *)
LEMMA ReadyRests ==
  ASSUME Typed, Tidy, Undisturbed, ClientReady
  PROVE  /\ sending = "none" /\ activeTurn = NoTurn /\ At("idle") /\ inputs = << >>
         /\ ingestion = << >> /\ running = NoTurn /\ Resting
<1>1. sending = "none" /\ activeTurn = NoTurn /\ At("idle") /\ inputs = << >>
  BY DEF ClientReady, Undisturbed
<1>2. ingestion = << >> /\ running = NoTurn
  <2>1. Len(ends) \in Nat BY DEF Typed
  <2> QED BY <1>1, <2>1 DEF Tidy, Told, NoTurn
<1>3. ~Running
  <2>1. Len(ends) \in Nat BY DEF Typed
  <2> QED BY <1>2, <2>1 DEF Running, NoTurn
<1>4. ~Asked /\ ~Ended /\ ~Reverted
  BY <1>1, Queues DEF Asked, Ended, Reverted, At
<1> QED BY <1>1, <1>2, <1>3, <1>4 DEF Tidy, Phase

(* Requests of the client. *)
LEMMA ClientTidy ==
  ASSUME Typed, Tidy, Undisturbed, Client
  PROVE  Tidy'
<1>1. ASSUME RequestTurn PROVE Tidy'
  <2>1. /\ ClientReady /\ sending' = "requested"
        /\ inputs' = Append(inputs, Requested)
        /\ UNCHANGED <<thread, git, provider, reverts, ingestion, reactor, outcome>>
    BY <1>1 DEF RequestTurn, Requested
  <2>2. /\ sending = "none" /\ activeTurn = NoTurn /\ At("idle") /\ inputs = << >>
        /\ ingestion = << >> /\ running = NoTurn /\ Resting
    BY <2>1, ReadyRests
  <2>3. Told' BY <2>1, <2>2 DEF Told, thread, provider
  <2>4. Placed' BY <2>1, PlacedSame DEF Tidy, thread, git, provider
  <2>5. Asked'
    <3>1. inputs' = <<Requested>> BY <2>1, <2>2, Queues
    <3> QED BY <2>1, <2>2, <3>1 DEF Asked, Resting, Shown, thread, provider, At
  <2> QED BY <2>1, <2>2, <2>3, <2>4, <2>5 DEF Tidy, Phase, At
<1>2. ASSUME NEW n \in Counts, RequestRevert(n) PROVE Tidy'
  <2>1. /\ ClientReady /\ inputs' = Append(inputs, Reverting(n))
        /\ UNCHANGED <<thread, git, provider, sending, ingestion, reactor, outcome>>
    BY <1>2 DEF RequestRevert, Reverting
  <2>2. /\ sending = "none" /\ activeTurn = NoTurn /\ At("idle") /\ inputs = << >>
        /\ ingestion = << >> /\ running = NoTurn /\ Resting
    BY <2>1, ReadyRests
  <2>3. Told' BY <2>1, ToldSame DEF Tidy, thread, provider
  <2>4. Placed' BY <2>1, PlacedSame DEF Tidy, thread, git, provider
  <2>5. Reverted'
    <3>1. inputs' = <<Reverting(n)>> BY <2>1, <2>2, Queues
    <3>2. Len(inputs') = 1 /\ inputs'[1].type = "checkpoint-revert-requested" BY <3>1, Kinds
    <3>3. UNCHANGED <<Shown, N>> /\ FilesAt(N)' BY <2>1, <2>2 DEF Shown, N, FilesAt, Resting, thread, git
    <3> QED BY <2>1, <2>2, <3>2, <3>3 DEF Reverted, Resting, thread, provider, At
  <2> QED BY <2>1, <2>2, <2>3, <2>4, <2>5 DEF Tidy, Phase, At
<1> QED BY <1>1, <1>2 DEF Client

(* The client knows no turn as long as the requested one has not started. *)
LEMMA RequestedRests ==
  ASSUME Tidy, sending = "requested"
  PROVE  running = NoTurn /\ activeTurn = NoTurn /\ ingestion = << >>
BY DEF Tidy, Told

(* While a turn runs, the thread is in that phase. *)
LEMMA RunsRunning ==
  ASSUME Tidy, running # NoTurn
  PROVE  Running /\ sending # "requested"
BY DEF Tidy, Told, Phase, Asked, Ended, Resting, Reverted

(* The provider starts the requested turn, *)
LEMMA StartTidy ==
  ASSUME Typed, Tidy, StartTurn
  PROVE  Tidy'
<1> DEFINE t == Len(ends) + 1
<1>1. /\ sending = "requested" /\ sending' = "started" /\ running' = t
      /\ conversation' = Append(conversation, t)
      /\ ingestion' = Append(ingestion, Started(t)) /\ inputs' = Append(inputs, Started(t))
      /\ UNCHANGED <<thread, git, ends, diffs, reverts, reactor, outcome>>
  BY DEF StartTurn, Started
<1>2. running = NoTurn /\ activeTurn = NoTurn /\ ingestion = << >> BY <1>1, RequestedRests
<1>3. Asked BY <1>1, <1>2 DEF Tidy, Phase, Running, Ended, Resting, Reverted, NoTurn, Typed
<1>4. ingestion' = <<Started(t)>> BY <1>1, <1>2, Queues
<1>5. Told' BY <1>1, <1>2, <1>4 DEF Told, thread
<1>6. Placed' BY <1>1, PlacedSame DEF Tidy, thread, git
<1>7. Running'
  <2>1. conversation' = Append(Shown, t)' BY <1>1, <1>3 DEF Asked, Shown, thread
  <2>2. \/ inputs' = <<Requested, Started(t)>> /\ At("idle")
        \/ inputs' = <<Started(t)>> /\ (At("idle") \/ At("baseline"))
    BY <1>1, <1>3, Queues DEF Asked
  <2> QED BY <1>1, <2>1, <2>2 DEF Running, At
<1> QED BY <1>1, <1>5, <1>6, <1>7 DEF Tidy, Phase, At

(* changes files *)
LEMMA EditTidy ==
  ASSUME Typed, Tidy, EditFiles
  PROVE  Tidy'
<1>1. /\ running # NoTurn
      /\ UNCHANGED <<thread, refs, provider, client, ingestion, inputs, reactor, outcome>>
  BY DEF EditFiles
<1>2. Running BY <1>1, RunsRunning
<1>3. Told' BY <1>1, ToldSame DEF Tidy, thread, provider, client
<1>4. Placed' BY <1>1, PlacedSame DEF Tidy, thread, provider
<1>5. Running' BY <1>1, <1>2 DEF Running, Shown, thread, provider, At
<1> QED BY <1>1, <1>3, <1>4, <1>5 DEF Tidy, Phase, At

(* and completes the turn. *)
LEMMA CompleteTidy ==
  ASSUME Typed, Tidy, CompleteTurn
  PROVE  Tidy'
<1> DEFINE t == Len(ends) + 1
<1>1. /\ running # NoTurn /\ running' = NoTurn /\ ends' = Append(ends, files)
      /\ ingestion' = Append(ingestion, Completed(running)) /\ inputs' = Append(inputs, Completed(running))
      /\ UNCHANGED <<thread, git, conversation, diffs, client, reactor, outcome>>
  BY DEF CompleteTurn, Completed
<1>2. Running /\ sending # "requested" BY <1>1, RunsRunning
<1>3. running = t BY <1>2 DEF Running
<1>4. /\ Len(ends') = t /\ ends'[t] = files /\ t > 0 /\ t \in Nat
      /\ \A k \in DOMAIN ends : k \in DOMAIN ends' /\ ends'[k] = ends[k] /\ k < t
  BY <1>1 DEF Typed
<1> HIDE DEF t
<1>5. Told'
  <2>1. \/ sending = "started" /\ activeTurn = NoTurn /\ ingestion = <<Started(t)>>
        \/ sending = "none" /\ activeTurn = t /\ ingestion = << >>
    BY <1>1, <1>2 DEF Tidy, Told, t
  <2>2. \/ sending = "started" /\ activeTurn = NoTurn /\ ingestion' = <<Started(t), Completed(t)>>
        \/ sending = "none" /\ activeTurn = t /\ ingestion' = <<Completed(t)>>
    BY <1>1, <1>3, <2>1, Queues
  <2> QED BY <1>1, <1>4, <2>2 DEF Told, thread, client
<1>6. Placed' BY <1>1, <1>2, <1>4 DEF Tidy, Placed, Running, thread, git, At
<1>7. Ended'
  <2>1. conversation' = Append(Shown', t)
    <3>1. conversation = Append(Shown, t) BY <1>2 DEF Running, t
    <3>2. UNCHANGED Shown BY <1>1 DEF Shown, thread
    <3> QED BY <1>1, <3>1, <3>2
  <2>2. \A i \in DOMAIN checkpoints' : checkpoints'[i].turn < t
    BY <1>1, <1>4 DEF Tidy, Placed, thread
  <2>3. \/ inputs' = <<Requested, Started(t), Completed(t)>> /\ At("idle")
        \/ inputs' \in {<<Started(t), Completed(t)>>, <<Completed(t)>>} /\ (At("idle") \/ At("baseline"))
    <3>1. \/ inputs = <<Requested, Started(t)>> /\ At("idle")
          \/ inputs \in {<<Started(t)>>, << >>} /\ (At("idle") \/ At("baseline"))
      BY <1>2 DEF Running, t
    <3>2. inputs' = Append(inputs, Completed(t)) BY <1>1, <1>3
    <3> QED BY Zenon, <3>1, <3>2, TurnQueues
  <2>4. files' = ends'[t] /\ sending' # "requested" BY <1>1, <1>2, <1>4 DEF git, client
  <2>5. At("idle")' = At("idle") /\ At("baseline")' = At("baseline") BY <1>1 DEF At
  <2> QED BY <1>1, <1>4, <2>1, <2>2, <2>3, <2>4, <2>5 DEF Ended
<1> QED BY <1>1, <1>5, <1>6, <1>7 DEF Tidy, Phase, At

(* The ingestion brings the session up to date. *)
LEMMA LifecycleTidy ==
  ASSUME Typed, Tidy, IngestLifecycle
  PROVE  Tidy'
<1> DEFINE last == Len(ends)
<1>1. /\ ingestion # << >> /\ ingestion' = Tail(ingestion)
      /\ activeTurn' = SessionAfter(Head(ingestion))
      /\ sending' = IF sending = "started" /\ Head(ingestion).type = "turn.started" THEN "none"
                    ELSE sending
      /\ UNCHANGED <<checkpoints, git, provider, reverts, inputs, reactor, outcome>>
  BY DEF IngestLifecycle
<1>2. last \in Nat BY DEF Typed
<1>3. UNCHANGED <<running, ends>> BY <1>1 DEF provider
<1>4. Told' /\ sending' # "requested" /\ sending # "requested"
  <2>1. CASE sending = "started" /\ running = last + 1 /\ activeTurn = NoTurn /\ ingestion = <<Started(last + 1)>>
    <3>1. Head(ingestion) = Started(last + 1) /\ ingestion' = << >> BY <1>1, <2>1, Queues
    <3>2. activeTurn' = last + 1 /\ sending' = "none"
      BY <1>1, <1>2, <2>1, <3>1, Kinds DEF SessionAfter, NoTurn
    <3> QED BY <1>3, <2>1, <3>1, <3>2 DEF Told
  <2>2. CASE /\ sending = "started" /\ running = NoTurn /\ activeTurn = NoTurn /\ last > 0
             /\ ingestion = <<Started(last), Completed(last)>>
    <3>1. Head(ingestion) = Started(last) /\ ingestion' = <<Completed(last)>> BY <1>1, <2>2, Queues
    <3>2. activeTurn' = last /\ sending' = "none"
      BY <1>1, <1>2, <2>2, <3>1, Kinds DEF SessionAfter, NoTurn
    <3> QED BY <1>3, <2>2, <3>1, <3>2 DEF Told
  <2>3. CASE /\ sending = "none" /\ running = NoTurn /\ activeTurn = last /\ last > 0
             /\ ingestion = <<Completed(last)>>
    <3>1. Head(ingestion) = Completed(last) /\ ingestion' = << >> BY <1>1, <2>3, Queues
    <3>2. activeTurn' = NoTurn /\ sending' = "none"
      BY <1>1, <1>2, <2>3, <3>1, Kinds DEF SessionAfter, NoTurn
    <3> QED BY <1>3, <2>3, <3>1, <3>2 DEF Told
  <2> QED BY <1>1, <2>1, <2>2, <2>3 DEF Tidy, Told
<1>5. Placed' BY <1>1, PlacedSame DEF Tidy, git, provider
<1>6. Phase'
  <2>1. UNCHANGED <<Shown, N, running, ends, conversation, files, refs, checkpoints, inputs, reactor>>
    BY <1>1 DEF Shown, N, git, provider
  <2>2. ~Asked /\ ~Reverted BY <1>1, <1>4 DEF Asked, Reverted
  <2>3. CASE Running BY <2>1, <2>3 DEF Phase, Running, At
  <2>4. CASE Ended BY <1>4, <2>1, <2>4 DEF Phase, Ended, At
  <2>5. CASE Resting BY <1>4, <2>1, <2>5 DEF Phase, Resting, FilesAt, At
  <2> QED BY <2>2, <2>3, <2>4, <2>5 DEF Tidy, Phase
<1> QED BY <1>1, <1>4, <1>5, <1>6 DEF Tidy, At

(* There are no diffs to ingest. *)
LEMMA IngestionTidy ==
  ASSUME Typed, Tidy, Ingestion
  PROVE  Tidy'
<1>1. ~IngestDiff
  <2> SUFFICES ASSUME ingestion # << >>, Head(ingestion).type = "turn.diff.updated" PROVE FALSE
    BY DEF IngestDiff
  <2>1. \E t : Head(ingestion) = Started(t) \/ Head(ingestion) = Completed(t)
    BY Queues DEF Tidy, Told
  <2> QED BY <2>1, Kinds
<1> QED BY <1>1, LifecycleTidy DEF Ingestion

(* Without a revert that completes, each checkpoint has its ref. *)
LEMMA PlacedAll ==
  ASSUME Typed, Placed, ~At("complete")
  PROVE  CurrentCount(checkpoints) = N /\ 1 .. N \subseteq DOMAIN refs /\ N \in Nat
<1>1. checkpoints \in Seq(Ckp) BY DEF Typed, Sound
<1>2. \A i \in DOMAIN checkpoints : checkpoints[i].count = i /\ i \in DOMAIN refs BY DEF Placed
<1>3. CurrentCount(checkpoints) = N BY <1>1, <1>2, CurrentAligned DEF N
<1> QED BY <1>1, <1>2, <1>3 DEF N

(* The start of a turn finds the ref of its baseline, unless it is the first. *)
LEMMA TurnStartTidy ==
  ASSUME Typed, Tidy, TakeTurnStart
  PROVE  Tidy'
<1>1. /\ At("idle") /\ inputs # << >> /\ inputs' = Tail(inputs)
      /\ Head(inputs).type \in {"turn-start-requested", "turn.started"}
      /\ UNCHANGED <<thread, git, provider, client, ingestion, abandoned, scope>>
  BY DEF TakeTurnStart, Take
<1>2. CurrentCount(checkpoints) = N /\ 1 .. N \subseteq DOMAIN refs /\ N \in Nat
  BY <1>1, PlacedAll DEF Tidy, At
<1>3. At("idle")' \/ (At("baseline")' /\ reactor'.n = 0)
  <2>1. reactor' = Idle \/ (N \notin DOMAIN refs /\ reactor' = [Idle EXCEPT !.step = "baseline", !.n = N])
    BY <1>2 DEF TakeTurnStart, BaselineCount
  <2>2. N \notin DOMAIN refs => N = 0 BY <1>2
  <2>3. CASE reactor' = Idle BY <2>3, IdleTyped DEF At
  <2>4. CASE N \notin DOMAIN refs /\ reactor' = [Idle EXCEPT !.step = "baseline", !.n = N]
    <3>1. 0 \in Nat /\ "baseline" \in Step BY DEF Step
    <3> QED BY <2>2, <2>4, <3>1, IdleAt DEF At
  <2> QED BY <2>1, <2>3, <2>4
<1>4. Told' BY <1>1, ToldSame DEF Tidy, thread, provider, client
<1>5. Placed'
  <2>1. ~At("complete") BY <1>1 DEF At
  <2> QED BY <1>1, <2>1, PlacedSame DEF Tidy, thread, git, provider
<1>6. UNCHANGED <<Shown, sending, running, conversation, ends, files, checkpoints>>
  BY <1>1 DEF Shown, thread, git, provider, client
<1>7. Phase'
  <2>1. CASE Asked
    <3>1. inputs' = << >> BY <1>1, <2>1, Queues DEF Asked
    <3> QED BY <1>3, <1>6, <2>1, <3>1 DEF Phase, Asked
  <2>2. CASE Running
    <3>1. \/ inputs = <<Requested, Started(Len(ends) + 1)>>
          \/ inputs = <<Started(Len(ends) + 1)>>
      BY <1>1, <2>2 DEF Running
    <3>2. inputs' \in {<<Started(Len(ends) + 1)>>, << >>} BY Zenon, <1>1, <3>1, TurnQueues
    <3> QED BY <1>3, <1>6, <2>2, <3>2 DEF Phase, Running
  <2>3. CASE Ended
    <3> DEFINE t == Len(ends)
    <3>1. \/ inputs = <<Requested, Started(t), Completed(t)>>
          \/ inputs = <<Started(t), Completed(t)>>
          \/ inputs = <<Completed(t)>>
      BY <1>1, <2>3 DEF Ended, At
    <3>2. inputs # <<Completed(t)>> BY <1>1, Queues, Kinds
    <3>3. inputs' \in {<<Started(t), Completed(t)>>, <<Completed(t)>>}
      BY Zenon, <1>1, <3>1, <3>2, TurnQueues
    <3> QED BY <1>3, <1>6, <2>3, <3>3 DEF Phase, Ended
  <2>4. ~Resting BY <1>1 DEF Resting
  <2>5. ~Reverted
    <3>1. Head(inputs) = inputs[1] BY <1>1
    <3> QED BY <1>1, <3>1 DEF Reverted
  <2> QED BY <2>1, <2>2, <2>3, <2>4, <2>5 DEF Tidy, Phase
<1> QED BY <1>3, <1>4, <1>5, <1>7 DEF Tidy, At

(* The baseline of the first turn has no checkpoint. *)
LEMMA BaselineTidy ==
  ASSUME Typed, Tidy, CaptureBaseline
  PROVE  Tidy'
<1>1. /\ At("baseline") /\ refs' = SetRef(reactor.n, files) /\ reactor' = Idle
      /\ UNCHANGED <<thread, files, fresh, provider, client, ingestion, inputs, outcome>>
  BY DEF CaptureBaseline
<1>2. At("idle")' BY <1>1, IdleTyped DEF At
<1>3. reactor.n = 0 BY <1>1 DEF Tidy
<1>4. Told' BY <1>1, ToldSame DEF Tidy, thread, provider, client
<1>5. Placed'
  <2>1. UNCHANGED <<checkpoints, ends>> BY <1>1 DEF thread, provider
  <2>2. ~At("complete") BY <1>1 DEF At
  <2>3. /\ DOMAIN refs \subseteq DOMAIN refs'
        /\ \A i \in DOMAIN checkpoints : i \in DOMAIN refs' => i \in DOMAIN refs /\ refs'[i] = refs[i]
    <3>1. \A i \in DOMAIN checkpoints : i # 0 BY DEF Typed, Sound
    <3>2. DOMAIN refs' = DOMAIN refs \cup {0} /\ \A k \in DOMAIN refs \ {0} : refs'[k] = refs[k]
      BY <1>1, <1>3 DEF SetRef
    <3> QED BY <3>1, <3>2
  <2> QED BY <2>1, <2>2, <2>3 DEF Tidy, Placed
<1>6. Phase'
  <2>1. UNCHANGED <<Shown, sending, running, conversation, ends, files, checkpoints, inputs>>
    BY <1>1 DEF Shown, thread, provider, client
  <2>2. CASE Asked BY <1>1, <1>2, <2>1, <2>2 DEF Phase, Asked, At
  <2>3. CASE Running BY <1>1, <1>2, <2>1, <2>3 DEF Phase, Running, At
  <2>4. CASE Ended BY <1>1, <1>2, <2>1, <2>4 DEF Phase, Ended, At
  <2>5. ~Resting /\ ~Reverted BY <1>1 DEF Resting, Reverted, At
  <2> QED BY <2>2, <2>3, <2>4, <2>5 DEF Tidy, Phase
<1> QED BY <1>2, <1>4, <1>5, <1>6 DEF Tidy, At

(* The end of a turn finds the turn without a checkpoint. *)
LEMMA TurnCompletedTidy ==
  ASSUME Typed, Tidy, TakeTurnCompleted
  PROVE  Tidy'
<1> DEFINE t == Len(ends)
<1>1. /\ At("idle") /\ inputs # << >> /\ inputs' = Tail(inputs) /\ Head(inputs).type = "turn.completed"
      /\ UNCHANGED <<thread, git, provider, client, ingestion, abandoned, scope>>
  BY DEF TakeTurnCompleted, Take
<1>2. Ended /\ inputs = <<Completed(t)>>
  <2>1. ~Asked BY <1>1, Queues, Kinds DEF Asked
  <2>2. ~Running
    <3> SUFFICES ASSUME NEW k, inputs = <<Requested, Started(k)>> \/ inputs = <<Started(k)>> PROVE FALSE
      BY <1>1 DEF Running
    <3>1. Head(inputs) = Requested \/ Head(inputs) = Started(k) BY Queues
    <3> QED BY <1>1, <3>1, Kinds
  <2>3. ~Resting BY <1>1 DEF Resting
  <2>4. ~Reverted
    <3>1. Head(inputs) = inputs[1] BY <1>1
    <3> QED BY <1>1, <3>1 DEF Reverted
  <2>5. Ended BY <2>1, <2>2, <2>3, <2>4 DEF Tidy, Phase
  <2>6. inputs \in {<<Requested, Started(t), Completed(t)>>, <<Started(t), Completed(t)>>, <<Completed(t)>>}
    BY <1>1, <2>5 DEF Ended
  <2>7. inputs = <<Completed(t)>>
    <3> SUFFICES ASSUME inputs = <<Requested, Started(t), Completed(t)>> \/ inputs = <<Started(t), Completed(t)>>
                 PROVE  FALSE
      BY <2>6
    <3>1. Head(inputs) = Requested \/ Head(inputs) = Started(t) BY Queues
    <3> QED BY <1>1, <3>1, Kinds
  <2> QED BY <2>5, <2>7
<1>3. inputs' = << >> /\ Head(inputs).turn = t BY <1>1, <1>2, Queues, Kinds
<1>4. CurrentCount(checkpoints) = N /\ N \in Nat BY <1>1, PlacedAll DEF Tidy, At
<1>5. /\ reactor' = [Idle EXCEPT !.step = "capture", !.turn = t, !.n = N + 1]
      /\ \A i \in DOMAIN checkpoints : checkpoints[i].turn < t
  <2>1. t \in Nat BY DEF Typed
  <2>2. activeTurn \in {NoTurn, t} BY <1>2 DEF Tidy, Told, Ended, NoTurn
  <2>3. \A i \in DOMAIN checkpoints : checkpoints[i].turn < t BY <1>2 DEF Ended
  <2>4. \A i \in DOMAIN checkpoints : checkpoints[i].turn # t BY <2>1, <2>3
  <2> HIDE DEF t
  <2> QED BY <1>3, <1>4, <2>2, <2>3, <2>4 DEF TakeTurnCompleted, NextCount
<1>6. At("capture")' /\ reactor'.turn = t /\ reactor'.n = N + 1
  <2>1. t \in Nat /\ N + 1 \in Nat /\ "capture" \in Step BY <1>4 DEF Typed, Step
  <2> QED BY <1>5, <2>1, IdleAt DEF At
<1>7. Told' BY <1>1, ToldSame DEF Tidy, thread, provider, client
<1>8. Placed'
  <2>1. ~At("complete") BY <1>1 DEF At
  <2> QED BY <1>1, <2>1, PlacedSame DEF Tidy, thread, git, provider
<1>9. Ended'
  <2>1. UNCHANGED <<Shown, N, sending, running, conversation, ends, files, checkpoints>>
    BY <1>1 DEF Shown, N, thread, git, provider, client
  <2> QED BY <1>2, <1>3, <1>6, <2>1 DEF Ended
<1> QED BY <1>6, <1>7, <1>8, <1>9 DEF Tidy, Phase, At

(* The phase in which the reactor captures a turn. *)
LEMMA CaptureEnded ==
  ASSUME Tidy, At("capture") \/ At("report")
  PROVE  /\ Ended /\ inputs = << >> /\ reactor.turn = Len(ends) /\ reactor.n = N + 1
         /\ At("report") => reactor.n \in DOMAIN refs /\ refs[reactor.n] = files
<1>1. ~Asked /\ ~Running /\ ~Resting /\ ~Reverted
  BY DEF Asked, Running, Resting, Reverted, At
<1> QED BY <1>1 DEF Tidy, Phase, Ended, At

(* The files captured are those the turn left. *)
LEMMA CaptureTidy ==
  ASSUME Typed, Tidy, Capture
  PROVE  Tidy'
<1>1. /\ At("capture") /\ refs' = SetRef(reactor.n, files)
      /\ reactor' = [reactor EXCEPT !.step = "report"]
      /\ UNCHANGED <<thread, files, fresh, provider, client, ingestion, inputs, outcome>>
  BY DEF Capture, Goto
<1>2. Ended /\ inputs = << >> /\ reactor.turn = Len(ends) /\ reactor.n = N + 1 BY <1>1, CaptureEnded
<1>3. At("report")' /\ reactor'.turn = reactor.turn /\ reactor'.n = reactor.n
  <2>1. "report" \in Step BY DEF Step
  <2> QED BY <1>1, <2>1, ReactorParts DEF At
<1>4. Told' BY <1>1, ToldSame DEF Tidy, thread, provider, client
<1>5. /\ DOMAIN refs' = DOMAIN refs \cup {N + 1} /\ refs'[N + 1] = files
      /\ \A k \in DOMAIN refs \ {N + 1} : refs'[k] = refs[k]
  BY <1>1, <1>2 DEF SetRef
<1>6. Placed'
  <2>1. UNCHANGED <<checkpoints, ends>> BY <1>1 DEF thread, provider
  <2>2. ~At("complete") BY <1>1 DEF At
  <2>3. \A i \in DOMAIN checkpoints : i # N + 1 BY DEF Typed, Sound, N
  <2>4. /\ DOMAIN refs \subseteq DOMAIN refs'
        /\ \A i \in DOMAIN checkpoints : i \in DOMAIN refs' => i \in DOMAIN refs /\ refs'[i] = refs[i]
    BY <1>5, <2>3
  <2> QED BY <2>1, <2>2, <2>4 DEF Tidy, Placed
<1>7. Ended'
  <2>1. UNCHANGED <<Shown, N, sending, running, conversation, ends, files, checkpoints, inputs>>
    BY <1>1 DEF Shown, N, thread, provider, client
  <2>2. reactor'.n \in DOMAIN refs' /\ refs'[reactor'.n] = files' BY <1>2, <1>3, <1>5, <2>1
  <2> QED BY <1>2, <1>3, <2>1, <2>2 DEF Ended
<1> QED BY <1>3, <1>4, <1>6, <1>7 DEF Tidy, Phase, At

(* Without diffs, a checkpoint is the last one of the thread. *)
LEMMA InsertLast ==
  ASSUME Typed, Placed, NEW t \in Nat, InsertCheckpoint(t, N + 1, N + 1),
         \A i \in DOMAIN checkpoints : checkpoints[i].turn # t
  PROVE  checkpoints' = Append(checkpoints, [turn |-> t, count |-> N + 1, ref |-> N + 1])
<1> DEFINE before == {i \in DOMAIN checkpoints : checkpoints[i].turn # t /\ checkpoints[i].count <= N + 1}
           after == {i \in DOMAIN checkpoints : checkpoints[i].turn # t /\ checkpoints[i].count > N + 1}
           new == [turn |-> t, count |-> N + 1, ref |-> N + 1]
<1>1. checkpoints \in Seq(Ckp) /\ N = Len(checkpoints) /\ N \in Nat BY DEF Typed, Sound, N
<1>2. \A i \in DOMAIN checkpoints : i \in 1 .. N /\ checkpoints[i].count = i BY <1>1 DEF Placed
<1>3. Keep(checkpoints, before) = checkpoints
  <2>1. \A i \in DOMAIN checkpoints : i \in before <=> i <= N BY <1>1, <1>2
  <2> HIDE DEF before
  <2>2. Keep(checkpoints, before) = SubSeq(checkpoints, 1, N) BY <1>1, <2>1, KeepPrefix
  <2>3. SubSeq(checkpoints, 1, N) = checkpoints BY <1>1
  <2> QED BY <2>2, <2>3
<1>4. Keep(checkpoints, after) = << >>
  <2>1. \A i \in DOMAIN checkpoints : i \in after <=> i <= 0 BY <1>1, <1>2
  <2> HIDE DEF after
  <2>2. Keep(checkpoints, after) = SubSeq(checkpoints, 1, 0) BY <1>1, <2>1, KeepPrefix
  <2>3. SubSeq(checkpoints, 1, 0) = << >> BY <1>1
  <2> QED BY <2>2, <2>3
<1>5. checkpoints' = Keep(checkpoints, before) \o <<new>> \o Keep(checkpoints, after)
  BY DEF InsertCheckpoint
<1>6. checkpoints' = checkpoints \o <<new>> \o << >> BY <1>3, <1>4, <1>5
<1>7. new \in Ckp BY <1>1 DEF Ckp
<1> HIDE DEF new
<1>8. checkpoints \o <<new>> \o << >> = Append(checkpoints, new) BY <1>1, <1>7
<1> QED BY <1>6, <1>8 DEF new

(* The turns of a list of checkpoints. *)
TurnsOf(list) == [i \in DOMAIN list |-> list[i].turn]

(* They are a list of the same length. *)
LEMMA TurnsList ==
  ASSUME NEW list \in Seq(Ckp)
  PROVE  /\ TurnsOf(list) \in Seq(Nat) /\ Len(TurnsOf(list)) = Len(list)
         /\ \A i \in 1 .. Len(list) : TurnsOf(list)[i] = list[i].turn
<1>1. \A i \in DOMAIN list : list[i].turn \in Nat
  <2>1. \A i \in DOMAIN list : list[i] \in Ckp OBVIOUS
  <2> QED BY <2>1 DEF Ckp
<1> QED BY <1>1 DEF TurnsOf

(* Lists with the same elements. *)
LEMMA SameList ==
  ASSUME NEW T, NEW a \in Seq(T), NEW b \in Seq(T), Len(a) = Len(b), \A i \in 1 .. Len(a) : a[i] = b[i]
  PROVE  a = b
OBVIOUS

(* The turns after a checkpoint more, *)
LEMMA TurnsAppend ==
  ASSUME NEW list \in Seq(Ckp), NEW e \in Ckp
  PROVE  TurnsOf(Append(list, e)) = Append(TurnsOf(list), e.turn)
<1> DEFINE s == Append(list, e) a == TurnsOf(list) t == e.turn b == Append(a, t) n == Len(list)
<1>1. /\ a \in Seq(Nat) /\ Len(a) = n /\ n \in Nat /\ \A i \in 1 .. n : a[i] = list[i].turn
  BY TurnsList
<1>2. t \in Nat BY DEF Ckp
<1>3. s \in Seq(Ckp) /\ Len(s) = n + 1 /\ s[n + 1] = e /\ \A i \in 1 .. n : s[i] = list[i] OBVIOUS
<1> HIDE DEF s, a, n
<1>4. /\ TurnsOf(s) \in Seq(Nat) /\ Len(TurnsOf(s)) = n + 1
      /\ \A i \in 1 .. n + 1 : TurnsOf(s)[i] = s[i].turn
  BY <1>3, TurnsList
<1>5. b \in Seq(Nat) /\ Len(b) = n + 1 /\ b[n + 1] = t /\ \A i \in 1 .. n : b[i] = a[i]
  BY <1>1, <1>2
<1> HIDE DEF b
<1>6. ASSUME NEW i \in 1 .. n + 1 PROVE TurnsOf(s)[i] = b[i]
  <2>1. CASE i = n + 1 BY <1>1, <1>3, <1>4, <1>5, <2>1
  <2>2. CASE i \in 1 .. n BY <1>1, <1>3, <1>4, <1>5, <2>2
  <2> QED BY <1>1, <2>1, <2>2
<1>7. TurnsOf(s) = b BY <1>4, <1>5, <1>6, SameList
<1> QED BY <1>7 DEF s, a, b

(* and those of the first checkpoints. *)
LEMMA TurnsPrefix ==
  ASSUME NEW list \in Seq(Ckp), NEW n \in 0 .. Len(list)
  PROVE  TurnsOf(SubSeq(list, 1, n)) = SubSeq(TurnsOf(list), 1, n)
<1> DEFINE s == SubSeq(list, 1, n) a == TurnsOf(list) b == SubSeq(a, 1, n)
<1>1. /\ a \in Seq(Nat) /\ Len(a) = Len(list) /\ \A i \in 1 .. Len(list) : a[i] = list[i].turn
  BY TurnsList
<1>2. s \in Seq(Ckp) /\ Len(s) = n /\ \A i \in 1 .. n : s[i] = list[i] OBVIOUS
<1> HIDE DEF s, a
<1>3. TurnsOf(s) \in Seq(Nat) /\ Len(TurnsOf(s)) = n /\ \A i \in 1 .. n : TurnsOf(s)[i] = s[i].turn
  BY <1>2, TurnsList
<1>4. b \in Seq(Nat) /\ Len(b) = n /\ \A i \in 1 .. n : b[i] = a[i] BY <1>1
<1> HIDE DEF b
<1>5. ASSUME NEW i \in 1 .. n PROVE TurnsOf(s)[i] = b[i]
  <2>1. i \in 1 .. Len(list) OBVIOUS
  <2> QED BY <1>1, <1>2, <1>3, <1>4, <2>1
<1>6. TurnsOf(s) = b BY <1>3, <1>4, <1>5, SameList
<1> QED BY <1>6 DEF s, a, b

(* With its checkpoint the turn is shown. *)
LEMMA ReportTidy ==
  ASSUME Typed, Tidy, ReportCheckpoint
  PROVE  Tidy'
<1> DEFINE t == Len(ends)
           new == [turn |-> t, count |-> N + 1, ref |-> N + 1]
<1>1. /\ At("report") /\ InsertCheckpoint(reactor.turn, reactor.n, reactor.n) /\ reactor' = Idle
      /\ UNCHANGED <<activeTurn, git, provider, client, ingestion, inputs, outcome>>
  BY DEF ReportCheckpoint
<1>2. /\ Ended /\ inputs = << >> /\ reactor.turn = t /\ reactor.n = N + 1
      /\ N + 1 \in DOMAIN refs /\ refs[N + 1] = files
  BY <1>1, CaptureEnded
<1>3. At("idle")' BY <1>1, IdleTyped DEF At
<1>4. /\ t \in Nat /\ t \in DOMAIN ends /\ files = ends[t]
      /\ \A i \in DOMAIN checkpoints : checkpoints[i].turn # t
  <2>1. \A i \in DOMAIN checkpoints : checkpoints[i].turn \in DOMAIN ends BY DEF Tidy, Placed
  <2> QED BY <1>2, <2>1 DEF Ended, Typed
<1>5. checkpoints' = Append(checkpoints, new) BY <1>1, <1>2, <1>4, InsertLast DEF Tidy
<1>6. /\ Len(checkpoints') = N + 1 /\ checkpoints'[N + 1] = new
      /\ DOMAIN checkpoints' = DOMAIN checkpoints \cup {N + 1}
      /\ \A i \in DOMAIN checkpoints : checkpoints'[i] = checkpoints[i]
      /\ N \in Nat /\ DOMAIN checkpoints = 1 .. N
  <2>1. checkpoints \in Seq(Ckp) /\ N = Len(checkpoints) /\ N \in Nat BY DEF Typed, Sound, N
  <2>2. new \in Ckp BY <1>4, <2>1 DEF Ckp
  <2> HIDE DEF new
  <2> QED BY <1>5, <2>1, <2>2, AppendParts
<1>7. UNCHANGED <<sending, running, conversation, ends, files, refs, inputs>>
  BY <1>1 DEF git, provider, client
<1>8. Told' BY <1>1, ToldSame DEF Tidy, provider, client
<1>9. Placed'
  <2> SUFFICES ASSUME NEW i \in DOMAIN checkpoints'
               PROVE  /\ checkpoints'[i].count = i /\ checkpoints'[i].ref = i
                      /\ checkpoints'[i].turn \in DOMAIN ends
                      /\ i \in DOMAIN refs /\ refs[i] = ends[checkpoints'[i].turn]
    BY <1>7 DEF Placed
  <2>1. CASE i = N + 1 BY <1>2, <1>4, <1>6, <2>1
  <2>2. CASE i \in DOMAIN checkpoints
    <3>1. ~At("complete") BY <1>1 DEF At
    <3> QED BY <1>6, <2>2, <3>1 DEF Tidy, Placed
  <2> QED BY <1>6, <2>1, <2>2
<1>10. Resting'
  <2>1. Shown' = Append(Shown, t)
    <3>1. checkpoints \in Seq(Ckp) /\ new \in Ckp /\ new.turn = t
      BY <1>4, <1>6 DEF Typed, Sound, Ckp
    <3> HIDE DEF new, t
    <3> QED BY <1>5, <3>1, TurnsAppend DEF Shown, TurnsOf
  <2>2. FilesAt(N)' BY <1>2, <1>6, <1>7 DEF FilesAt, N
  <2> QED BY <1>2, <1>3, <1>7, <2>1, <2>2 DEF Resting, Ended
<1> QED BY <1>3, <1>8, <1>9, <1>10 DEF Tidy, Phase, At

(* The phase in which the reactor reverts. *)
LEMMA RevertPhase ==
  ASSUME Tidy, At("restore") \/ At("rollback") \/ At("delete") \/ At("complete")
  PROVE  /\ Reverted /\ inputs = << >> /\ reactor.known = checkpoints /\ reactor.n <= N
         /\ At("restore") => conversation = Shown
         /\ At("rollback") => conversation = Shown /\ FilesAt(reactor.n)
         /\ At("delete") \/ At("complete") => conversation = SubSeq(Shown, 1, reactor.n) /\ FilesAt(reactor.n)
<1>1. ~Asked /\ ~Running /\ ~Resting /\ ~Ended
  BY DEF Asked, Running, Resting, Ended, At
<1>2. Reverted BY <1>1 DEF Tidy, Phase
<1> QED BY <1>2 DEF Reverted, At

(* A revert starts from a thread at rest. *)
LEMMA TakeRevertTidy ==
  ASSUME Typed, Tidy, TakeRevert
  PROVE  Tidy'
<1> DEFINE n == Head(inputs).n
           r == [step |-> "restore", turn |-> NoTurn, n |-> n, known |-> checkpoints]
<1>1. /\ At("idle") /\ inputs # << >> /\ inputs' = Tail(inputs)
      /\ Head(inputs).type = "checkpoint-revert-requested"
      /\ UNCHANGED <<thread, git, provider, client, ingestion, abandoned, scope>>
  BY DEF TakeRevert, Take
<1>2. Reverted
  <2>1. ~Asked BY <1>1, Queues, Kinds DEF Asked
  <2>2. ~Running
    <3> SUFFICES ASSUME NEW k, inputs = <<Requested, Started(k)>> \/ inputs = <<Started(k)>> PROVE FALSE
      BY <1>1 DEF Running
    <3>1. Head(inputs) = Requested \/ Head(inputs) = Started(k) BY Queues
    <3> QED BY <1>1, <3>1, Kinds
  <2>3. ~Ended
    <3> SUFFICES ASSUME NEW k, \/ inputs = <<Requested, Started(k), Completed(k)>>
                               \/ inputs = <<Started(k), Completed(k)>> \/ inputs = <<Completed(k)>>
                 PROVE  FALSE
      BY <1>1 DEF Ended
    <3>1. Head(inputs) = Requested \/ Head(inputs) = Started(k) \/ Head(inputs) = Completed(k) BY Queues
    <3> QED BY <1>1, <3>1, Kinds
  <2>4. ~Resting BY <1>1 DEF Resting
  <2> QED BY <2>1, <2>2, <2>3, <2>4 DEF Tidy, Phase
<1>3. inputs' = << >> /\ conversation = Shown /\ FilesAt(N)
  <2>1. Len(inputs) = 1 /\ conversation = Shown /\ FilesAt(N) BY <1>1, <1>2 DEF Reverted
  <2>2. inputs' \in Seq(In) /\ Len(inputs') = 0 BY <1>1, <2>1 DEF Typed
  <2>3. inputs' = << >> BY <2>2
  <2> QED BY <2>1, <2>3
<1>4. CurrentCount(checkpoints) = N /\ N \in Nat BY <1>1, PlacedAll DEF Tidy, At
<1>5. n \in Nat BY <1>1, InputParts
<1>6. At("idle")' \/ (At("restore")' /\ reactor'.known = checkpoints /\ reactor'.n <= N)
  <2>1. reactor' = Idle \/ (reactor' = r /\ ~(n > CurrentCount(checkpoints))) BY DEF TakeRevert
  <2>2. CASE reactor' = Idle BY <2>2, IdleTyped DEF At
  <2>3. CASE reactor' = r /\ ~(n > CurrentCount(checkpoints)) BY <1>4, <1>5, <2>3 DEF At
  <2> QED BY <2>1, <2>2, <2>3
<1>7. Told' BY <1>1, ToldSame DEF Tidy, thread, provider, client
<1>8. Placed'
  <2>1. ~At("complete") BY <1>1 DEF At
  <2> QED BY <1>1, <2>1, PlacedSame DEF Tidy, thread, git, provider
<1>9. Phase'
  <2>1. UNCHANGED <<Shown, N, sending, running, activeTurn, ingestion, conversation, files, refs, checkpoints>>
    BY <1>1 DEF Shown, N, thread, git, provider, client
  <2>2. CASE At("idle")' BY <1>2, <1>3, <2>1, <2>2 DEF Phase, Reverted, Resting, FilesAt
  <2>3. CASE At("restore")' /\ reactor'.known = checkpoints /\ reactor'.n <= N
    BY <1>2, <1>3, <2>1, <2>3 DEF Phase, Reverted
  <2> QED BY <1>6, <2>2, <2>3
<1> QED BY <1>6, <1>7, <1>8, <1>9 DEF Tidy, At

(* The ref of an undisturbed thread's checkpoint is that of its place. *)
LEMMA TargetPlace ==
  ASSUME Typed, Tidy, At("restore")
  PROVE  TargetRef = reactor.n /\ (reactor.n = 0 \/ reactor.n \in DOMAIN refs)
<1>1. /\ Reverted /\ reactor.known = checkpoints /\ reactor.n <= N /\ reactor.n \in Nat
      /\ 1 .. N \subseteq DOMAIN refs /\ N \in Nat
  BY RevertPhase, ReactorParts, PlacedAll DEF Tidy, At
<1>2. CASE reactor.n = 0 BY <1>2 DEF TargetRef
<1>3. CASE reactor.n # 0
  <2> DEFINE First(i) == /\ checkpoints[i].count = reactor.n
                         /\ \A j \in 1 .. i - 1 : checkpoints[j].count # reactor.n
             first == CHOOSE i \in DOMAIN checkpoints : First(i)
  <2>1. DOMAIN checkpoints = 1 .. N /\ \A i \in 1 .. N : checkpoints[i].count = i /\ checkpoints[i].ref = i
    BY DEF Tidy, Placed, Typed, Sound, N
  <2>2. reactor.n \in DOMAIN checkpoints /\ First(reactor.n) BY <1>1, <1>3, <2>1
  <2>3. first \in DOMAIN checkpoints /\ First(first) BY <2>2
  <2>4. TargetRef = checkpoints[first].ref BY <1>1, <1>3 DEF TargetRef
  <2> HIDE DEF first
  <2>5. first = reactor.n BY <2>1, <2>3
  <2> QED BY <1>1, <1>3, <2>1, <2>2, <2>4, <2>5
<1> QED BY <1>2, <1>3

(* Each step of a revert brings one more part to its target: the files, *)
LEMMA RestoreTidy ==
  ASSUME Typed, Tidy, Restore
  PROVE  Tidy'
<1>1. /\ At("restore")
      /\ files' = IF TargetRef \in DOMAIN refs THEN refs[TargetRef] ELSE 0
      /\ reactor' = [reactor EXCEPT !.step = "rollback"]
      /\ UNCHANGED <<thread, refs, fresh, provider, client, ingestion, inputs, outcome>>
  BY DEF Restore, Goto
<1>2. /\ Reverted /\ inputs = << >> /\ reactor.known = checkpoints /\ reactor.n <= N
      /\ conversation = Shown
  BY <1>1, RevertPhase
<1>3. TargetRef = reactor.n /\ (reactor.n = 0 \/ reactor.n \in DOMAIN refs) /\ reactor.n \in Nat
  BY <1>1, TargetPlace, ReactorParts
<1>4. At("rollback")' /\ reactor'.n = reactor.n /\ reactor'.known = reactor.known
  <2>1. "rollback" \in Step BY DEF Step
  <2> QED BY <1>1, <2>1, ReactorParts DEF At
<1>5. UNCHANGED <<Shown, N, sending, running, activeTurn, ingestion, conversation, refs, checkpoints, inputs, ends>>
  BY <1>1 DEF Shown, N, thread, provider, client
<1>6. FilesAt(reactor.n)' BY <1>1, <1>3, <1>4, <1>5 DEF FilesAt
<1>7. Told' BY <1>5, ToldSame DEF Tidy
<1>8. Placed'
  <2>1. ~At("complete") BY <1>1 DEF At
  <2> QED BY <1>5, <2>1, PlacedSame DEF Tidy
<1>9. Reverted' BY <1>2, <1>4, <1>5, <1>6 DEF Reverted
<1> QED BY <1>4, <1>7, <1>8, <1>9 DEF Tidy, Phase, At

(* the conversation, *)
LEMMA RollbackTidy ==
  ASSUME Typed, Tidy, Rollback
  PROVE  Tidy'
<1>1. /\ At("rollback") /\ conversation' = SubSeq(conversation, 1, Len(conversation) - RolledBackTurns)
      /\ reactor' = [reactor EXCEPT !.step = "delete"]
      /\ UNCHANGED <<thread, git, running, ends, diffs, client, ingestion, inputs, outcome>>
  BY DEF Rollback, Goto
<1>2. /\ Reverted /\ inputs = << >> /\ reactor.known = checkpoints /\ reactor.n <= N
      /\ conversation = Shown /\ FilesAt(reactor.n)
  BY <1>1, RevertPhase
<1>3. CurrentCount(checkpoints) = N /\ N \in Nat /\ reactor.n \in Nat
  BY <1>1, PlacedAll, ReactorParts DEF Tidy, At
<1>4. At("delete")' /\ reactor'.n = reactor.n /\ reactor'.known = reactor.known
  <2>1. "delete" \in Step BY DEF Step
  <2> QED BY <1>1, <2>1, ReactorParts DEF At
<1>5. UNCHANGED <<Shown, N, sending, running, activeTurn, ingestion, files, refs, checkpoints, inputs, ends>>
  BY <1>1 DEF Shown, N, thread, git, client
<1>6. conversation' = SubSeq(Shown, 1, reactor.n)
  <2>1. Len(Shown) = N
    <3>1. checkpoints \in Seq(Ckp) BY DEF Typed, Sound
    <3> QED BY <3>1, TurnsList DEF Shown, TurnsOf, N
  <2>2. Len(conversation) - RolledBackTurns = reactor.n BY <1>2, <1>3, <2>1 DEF RolledBackTurns
  <2> QED BY <1>1, <1>2, <2>2
<1>7. Told' BY <1>5, ToldSame DEF Tidy
<1>8. Placed'
  <2>1. ~At("complete") BY <1>1 DEF At
  <2> QED BY <1>5, <2>1, PlacedSame DEF Tidy
<1>9. Reverted' BY <1>2, <1>4, <1>5, <1>6 DEF Reverted, FilesAt
<1> QED BY <1>4, <1>7, <1>8, <1>9 DEF Tidy, Phase, At

(* the refs *)
LEMMA DeleteTidy ==
  ASSUME Typed, Tidy, DeleteRefs
  PROVE  Tidy'
<1>1. /\ At("delete") /\ refs' = DropRefs(StaleRefs)
      /\ reactor' = [reactor EXCEPT !.step = "complete"]
      /\ UNCHANGED <<thread, files, fresh, provider, client, ingestion, inputs, outcome>>
  BY DEF DeleteRefs, Goto
<1>2. /\ Reverted /\ inputs = << >> /\ reactor.known = checkpoints /\ reactor.n <= N
      /\ conversation = SubSeq(Shown, 1, reactor.n) /\ FilesAt(reactor.n)
  BY <1>1, RevertPhase
<1>3. N \in Nat /\ reactor.n \in Nat /\ 1 .. N \subseteq DOMAIN refs
  BY <1>1, PlacedAll, ReactorParts DEF Tidy, At
<1>4. At("complete")' /\ reactor'.n = reactor.n /\ reactor'.known = reactor.known
  <2>1. "complete" \in Step BY DEF Step
  <2> QED BY <1>1, <2>1, ReactorParts DEF At
<1>5. UNCHANGED <<Shown, N, sending, running, activeTurn, ingestion, conversation, files, checkpoints, inputs, ends>>
  BY <1>1 DEF Shown, N, thread, provider, client
<1>6. \A k \in StaleRefs : k \in Nat /\ k > reactor.n
  <2>1. DOMAIN checkpoints = 1 .. N /\ \A i \in 1 .. N : checkpoints[i].count = i /\ checkpoints[i].ref = i
    BY DEF Tidy, Placed, Typed, Sound, N
  <2> QED BY <1>2, <2>1 DEF StaleRefs
<1>7. /\ \A k \in DOMAIN refs' : k \in DOMAIN refs /\ refs'[k] = refs[k]
      /\ \A k \in DOMAIN refs : k \in 0 .. reactor.n => k \in DOMAIN refs'
  <2>1. DOMAIN refs' = DOMAIN refs \ StaleRefs /\ \A k \in DOMAIN refs \ StaleRefs : refs'[k] = refs[k]
    BY <1>1 DEF DropRefs
  <2> QED BY <1>3, <1>6, <2>1
<1>8. FilesAt(reactor.n)' BY <1>2, <1>3, <1>4, <1>5, <1>7 DEF FilesAt
<1>9. Told' BY <1>5, ToldSame DEF Tidy
<1>10. Placed'
  <2>1. DOMAIN checkpoints = 1 .. N BY DEF Typed, Sound, N
  <2>2. \A i \in DOMAIN checkpoints : i \in DOMAIN refs' \/ i > reactor.n BY <1>3, <1>7, <2>1
  <2> QED BY <1>4, <1>5, <1>7, <2>2 DEF Tidy, Placed
<1>11. Reverted' BY <1>2, <1>4, <1>5, <1>8 DEF Reverted
<1> QED BY <1>4, <1>9, <1>10, <1>11 DEF Tidy, Phase, At

(* and at last the thread. *)
LEMMA RevertedTidy ==
  ASSUME Typed, Tidy, CompleteRevert
  PROVE  Tidy'
<1> DEFINE kept == {i \in DOMAIN checkpoints : checkpoints[i].count <= reactor.n}
           n == reactor.n
<1>1. /\ At("complete") /\ checkpoints' = Keep(checkpoints, kept) /\ reactor' = Idle
      /\ UNCHANGED <<activeTurn, git, provider, client, ingestion, inputs, failures, abandoned, scope>>
  BY DEF CompleteRevert
<1>2. /\ Reverted /\ inputs = << >> /\ n <= N
      /\ conversation = SubSeq(Shown, 1, n) /\ FilesAt(n)
  BY <1>1, RevertPhase
<1>3. checkpoints \in Seq(Ckp) /\ N = Len(checkpoints) /\ N \in Nat /\ n \in 0 .. N
  BY <1>2, ReactorParts DEF Typed, Sound, N
<1>4. checkpoints' = SubSeq(checkpoints, 1, n)
  <2>1. \A i \in DOMAIN checkpoints : i \in kept <=> i <= n BY DEF Tidy, Placed
  <2> HIDE DEF kept, n
  <2> QED BY <1>1, <1>3, <2>1, KeepPrefix
<1>5. At("idle")' BY <1>1, IdleTyped DEF At
<1>6. Len(checkpoints') = n /\ \A i \in 1 .. n : checkpoints'[i] = checkpoints[i] BY <1>3, <1>4
<1>7. UNCHANGED <<sending, running, activeTurn, ingestion, conversation, files, refs, inputs, ends>>
  BY <1>1 DEF git, provider, client
<1>8. Told' BY <1>7, ToldSame DEF Tidy
<1>9. Placed'
  <2>1. DOMAIN checkpoints' = 1 .. n /\ \A i \in 1 .. n : i \in DOMAIN checkpoints /\ ~(i > n)
    BY <1>3, <1>4, <1>6
  <2> QED BY <1>6, <1>7, <2>1 DEF Tidy, Placed
<1>10. Resting'
  <2>1. Shown' = SubSeq(Shown, 1, n)
    <3> HIDE DEF n
    <3> QED BY <1>3, <1>4, TurnsPrefix DEF Shown, TurnsOf
  <2>2. FilesAt(N)' BY <1>2, <1>6, <1>7 DEF FilesAt, N
  <2> QED BY <1>2, <1>5, <1>7, <2>1, <2>2 DEF Resting, Reverted
<1> QED BY <1>5, <1>8, <1>9, <1>10 DEF Tidy, Phase, At

(* A step after which the thread is undisturbed starts from one that is.   *)
LEMMA UndisturbedBefore ==
  ASSUME Typed, [Next]_vars, Undisturbed'
  PROVE  /\ Undisturbed /\ ~ReportDiff /\ ~CaptureFails /\ ~RevertFails
<1>1. diffs' = 0 /\ failures' = 0 /\ scope'.patient BY DEF Undisturbed
<1>2. diffs \in Nat /\ failures \in Nat BY DEF Typed
<1>3. ~ReportDiff BY <1>1, <1>2 DEF ReportDiff
<1>4. ~CaptureFails /\ ~RevertFails BY <1>1, <1>2 DEF CaptureFails, RevertFails, MayFail
<1>6. Refuse => UNCHANGED failures BY <1>1, <1>2, RefuseCounts
<1>5. UNCHANGED <<diffs, failures, scope>>
  <2>1. CASE UNCHANGED vars BY <2>1 DEF vars, provider, outcome
  <2>2. CASE Client BY <2>2 DEF Client, RequestTurn, RequestRevert, provider, outcome
  <2>3. CASE Provider BY <1>3, <2>3 DEF Provider, StartTurn, EditFiles, CompleteTurn, provider, outcome
  <2>4. CASE Ingestion BY <2>4 DEF Ingestion, IngestLifecycle, IngestDiff, provider, outcome
  <2>5. CASE TakeTurnStart \/ TakeTurnCompleted \/ TakeRevert
    BY <1>6, <2>5 DEF TakeTurnStart, TakeTurnCompleted, TakeRevert, Take, provider
  <2>6. CASE CaptureBaseline \/ Capture \/ ReportCheckpoint
    BY <2>6 DEF CaptureBaseline, Capture, ReportCheckpoint, provider, outcome
  <2>7. CASE Restore \/ RestoreUnavailable \/ Rollback
    BY <1>6, <2>7 DEF Restore, RestoreUnavailable, Rollback, provider, outcome
  <2>8. CASE DeleteRefs \/ CompleteRevert
    BY <2>8 DEF DeleteRefs, CompleteRevert, provider, outcome
  <2> QED BY <1>4, <2>1, <2>2, <2>3, <2>4, <2>5, <2>6, <2>7, <2>8 DEF Next, Reactor
<1> QED BY <1>1, <1>3, <1>4, <1>5 DEF Undisturbed

(* The invariant holds at first *)
LEMMA InitInv == Init => IInv
<1> SUFFICES ASSUME Init PROVE IInv OBVIOUS
<1>1. At("idle") /\ checkpoints = << >> BY IdleTyped DEF Init, At
<1>2. Told BY DEF Init, Told
<1>3. Placed BY <1>1 DEF Placed
<1>4. Resting BY <1>1 DEF Init, Resting, Shown, FilesAt, N
<1>5. Tidy BY <1>1, <1>2, <1>3, <1>4 DEF Tidy, Phase, At
<1> QED BY <1>5, InitBase DEF IInv, Base

(* and after every step. *)
LEMMA NextInv == IInv /\ [Next]_vars => IInv'
<1> SUFFICES ASSUME IInv, [Next]_vars PROVE IInv' OBVIOUS
<1>1. Base' BY NextBase DEF IInv, Base
<1>2. ASSUME Undisturbed' PROVE Tidy'
  <2>1. Typed /\ Undisturbed /\ Tidy /\ ~ReportDiff /\ ~CaptureFails /\ ~RevertFails
    BY <1>2, UndisturbedBefore DEF IInv
  <2>2. CASE UNCHANGED vars
    <3>1. UNCHANGED <<sending, running, activeTurn, ingestion, conversation, files, refs, inputs, ends,
                      checkpoints, reactor>>
      BY <2>2 DEF vars, thread, git, provider, client
    <3>2. Told' BY <2>1, <3>1, ToldSame DEF Tidy
    <3>3. Placed' BY <2>1, <3>1, PlacedSame DEF Tidy
    <3>4. Phase' BY <2>1, <3>1 DEF Tidy, Phase, Asked, Running, Ended, Resting, Reverted, Shown, FilesAt, N, At
    <3> QED BY <2>1, <3>1, <3>2, <3>3, <3>4 DEF Tidy, At
  <2>3. CASE Client BY <2>1, <2>3, ClientTidy
  <2>4. CASE Provider BY <2>1, <2>4, StartTidy, EditTidy, CompleteTidy DEF Provider
  <2>5. CASE Ingestion BY <2>1, <2>5, IngestionTidy
  <2>6. CASE TakeTurnStart \/ TakeTurnCompleted \/ TakeRevert
    BY <2>1, <2>6, TurnStartTidy, TurnCompletedTidy, TakeRevertTidy
  <2>7. CASE CaptureBaseline \/ Capture \/ ReportCheckpoint
    BY <2>1, <2>7, BaselineTidy, CaptureTidy, ReportTidy
  <2>8. ~RestoreUnavailable
    <3> SUFFICES ASSUME At("restore"), TargetRef \notin DOMAIN refs, reactor.n # 0 PROVE FALSE
      BY DEF RestoreUnavailable
    <3> QED BY <2>1, TargetPlace
  <2>9. CASE Restore \/ Rollback \/ DeleteRefs \/ CompleteRevert
    BY <2>1, <2>9, RestoreTidy, RollbackTidy, DeleteTidy, RevertedTidy
  <2> QED BY <2>1, <2>2, <2>3, <2>4, <2>5, <2>6, <2>7, <2>8, <2>9 DEF Next, Reactor
<1> QED BY <1>1, <1>2 DEF IInv, Base

(* The invariant of the checkpoints, for any bounds. *)
LEMMA InvHolds == Spec => []IInv
BY InitInv, NextInv, PTL DEF Spec

(* A checkpoint that was captured keeps its git ref, except after the      *)
(* target of a revert that has not completed: CheckpointReactor deletes    *)
(* refs of checkpoints it is about to remove, and no others.               *)
THEOREM StoredRefsHold == Spec => []StoredRefsExist
<1>1. IInv => StoredRefsExist BY DEF IInv, Stored
<1> QED BY <1>1, InvHolds, PTL

(* Where the user waits for the reactor and nothing fails, the ref of a    *)
(* checkpoint holds the files as its turn left them.                       *)
THEOREM CheckpointsHold == Spec => []CheckpointHoldsTurn
<1>1. IInv => CheckpointHoldsTurn
  BY DEF IInv, Tidy, Placed, CheckpointHoldsTurn, Captured
<1> QED BY <1>1, InvHolds, PTL

(* Then, whenever all is quiet, the provider's conversation is that of the *)
(* shown turns and the worktree is that of the last checkpoint.            *)
THEOREM ThreadHolds == Spec => []ThreadAgrees
<1>1. IInv => ThreadAgrees
  <2> SUFFICES ASSUME IInv, Quiet, Undisturbed
               PROVE  /\ conversation = Shown
                      /\ 0 \in DOMAIN refs \/ CurrentCount(checkpoints) > 0
                           => files = refs[CurrentCount(checkpoints)]
    BY DEF ThreadAgrees, Shown
  <2>1. Typed /\ Tidy BY DEF IInv
  <2>2. At("idle") /\ inputs = << >> /\ running = NoTurn /\ sending = "none" BY DEF Quiet
  <2>3. Resting
    <3>1. ~Asked /\ ~Ended /\ ~Reverted BY <2>2, Queues DEF Asked, Ended, Reverted, At
    <3>2. ~Running
      <4>1. Len(ends) \in Nat BY <2>1 DEF Typed
      <4> QED BY <2>2, <4>1 DEF Running, NoTurn
    <3> QED BY <2>1, <3>1, <3>2 DEF Tidy, Phase
  <2>4. CurrentCount(checkpoints) = N BY <2>1, <2>2, PlacedAll DEF Tidy, At
  <2> QED BY <2>3, <2>4 DEF Resting, FilesAt
<1> QED BY <1>1, InvHolds, PTL
================================================================================
