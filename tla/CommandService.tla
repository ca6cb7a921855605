---------------------------- MODULE CommandService ----------------------------
(***************************************************************************)
(* What the orchestration engine promises to those who dispatch commands,  *)
(* without workers, transactions, caches or restarts: one durable log, a   *)
(* receipt per command id, and the answers dispatchers were given.         *)
(*                                                                         *)
(* The promise is stated over the log alone.  A command is decided against *)
(* StateOf(log), the state every persisted event adds up to; it takes      *)
(* effect once, all of its events at the same time; and an answer is given *)
(* only for what is already durable.  orchestration/Services/              *)
(* OrchestrationEngine.ts documents the interface ("Dispatch is serialized *)
(* through an internal queue and deduplicated via command receipts").      *)
(***************************************************************************)
EXTENDS EventLog

VARIABLES
  log,       \* orchestration_events: the event with sequence n is log[n]
  receipts,  \* orchestration_command_receipts, by command id
  answers    \* every answer given to a dispatch of the command so far

serviceVars == <<log, receipts, answers>>

-----------------------------------------------------------------------------
Init ==
  /\ log = LegacyLog
  /\ receipts = LegacyReceipts
  /\ answers = [c \in CommandIds |-> {}]

Accept(c) ==
  /\ receipts[c] = NoReceipt
  /\ Legal(Commands[c], StateOf(log))
  /\ log' = log \o Decide(Commands[c], c, StateOf(log))
  /\ receipts' = [receipts EXCEPT ![c] = Accepted(Len(log'))]
  /\ UNCHANGED answers

Reject(c) ==
  /\ receipts[c] = NoReceipt
  /\ ~Legal(Commands[c], StateOf(log))
  /\ receipts' = [receipts EXCEPT ![c] = Rejected]
  /\ UNCHANGED <<log, answers>>

GiveAnswer(c, answer) ==
  /\ answers' = [answers EXCEPT ![c] = @ \cup {answer}]
  /\ UNCHANGED <<log, receipts>>

(* An answer repeats the receipt; a rejection may also be answered when   *)
(* the attempt to record it failed; a failure promises nothing.           *)
AnswerDispatch(c) ==
  \/ receipts[c] # NoReceipt /\ GiveAnswer(c, receipts[c])
  \/ receipts[c] = NoReceipt /\ ~Legal(Commands[c], StateOf(log)) /\ GiveAnswer(c, Rejected)
  \/ GiveAnswer(c, Failed)

Next == \E c \in CommandIds : Accept(c) \/ Reject(c) \/ AnswerDispatch(c)

Spec == Init /\ [][Next]_serviceVars
=============================================================================
