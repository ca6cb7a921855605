------------------------------- MODULE EventLog -------------------------------
(***************************************************************************)
(* The event log, the receipts that go with it, and the state it adds up   *)
(* to, defined from the log as a whole instead of by replaying it.         *)
(*                                                                         *)
(* Source: persistence/Layers/OrchestrationEventStore.ts and               *)
(* persistence/Layers/OrchestrationCommandReceipts.ts.                     *)
(***************************************************************************)
EXTENDS Decider

CONSTANTS
  CommandIds,     \* ids of the commands that are ever dispatched
  Commands,       \* what each id stands for: [CommandIds -> Command]
  LegacyLog,      \* the events persisted by earlier runs of the server,
  LegacyReceipts  \* and the receipts: [CommandIds -> Receipt]

-----------------------------------------------------------------------------
(* Receipts, and the answers a dispatch gets.  The sequence a rejected     *)
(* receipt is stored with is never read.                                   *)
Accepted(sequence) == [status |-> "accepted", seq |-> sequence]
Rejected           == [status |-> "rejected", seq |-> 0]
Failed             == [status |-> "failed", seq |-> 0]
NoReceipt          == [status |-> "none", seq |-> 0]

Receipt == [status : {"accepted"}, seq : Nat] \cup {Rejected, NoReceipt}
Answer  == [status : {"accepted"}, seq : Nat] \cup {Rejected, Failed}

(* The positions of the events a command id caused. *)
EventsOf(evs, c) == {i \in DOMAIN evs : evs[i].cmd = c}

(* A receipt tells what the log holds of its command: with an accepted one *)
(* the consecutive events that end at its sequence, all of them and no     *)
(* others; without one nothing.                                            *)
EventCount(command) == IF command.type = "thread.turn.start" THEN 2 ELSE 1
ReceiptMatches(evs, c, receipt) ==
  EventsOf(evs, c) = IF receipt.status = "accepted"
                     THEN receipt.seq - EventCount(Commands[c]) + 1 .. receipt.seq
                     ELSE {}

ASSUME CommandAssumption == Commands \in [CommandIds -> Command]
ASSUME LegacyAssumption ==
  /\ LegacyLog \in Seq(Event(CommandIds))
  /\ LegacyReceipts \in [CommandIds -> Receipt]
  /\ \A c \in CommandIds : ReceiptMatches(LegacyLog, c, LegacyReceipts[c])

-----------------------------------------------------------------------------
IsLast(i, S) == i \in S /\ \A j \in S : j <= i

(* The state a log adds up to, defined without replaying it. *)
Creates(event, type, entity) == event.type = type /\ event.entity = entity
ProjectsIn(evs) == {p \in Projects : \E i \in DOMAIN evs : Creates(evs[i], "project.created", p)}
ThreadsIn(evs)  == {t \in Threads : \E i \in DOMAIN evs : Creates(evs[i], "thread.created", t)}
ModeSetters(evs, t) ==
  {i \in DOMAIN evs : /\ SetsMode(evs[i], t)
                      /\ \E j \in 1 .. i : Creates(evs[j], "thread.created", t)}
ModeIn(evs, t) == IF ModeSetters(evs, t) = {} THEN NoMode
                  ELSE evs[CHOOSE i \in ModeSetters(evs, t) : IsLast(i, ModeSetters(evs, t))].mode
StateOf(evs) == [seq      |-> Len(evs),
                 projects |-> ProjectsIn(evs),
                 threads  |-> ThreadsIn(evs),
                 mode     |-> [t \in Threads |-> ModeIn(evs, t)]]
=============================================================================
