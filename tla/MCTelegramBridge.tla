--------------------------- MODULE MCTelegramBridge ---------------------------
(* Instances of TelegramBridge for TLC. *)
EXTENDS TelegramBridge, TLC

MCUpdates == <<"text", "text", "other">>

Base == [servers |-> {"A"}, born |-> TRUE, updates |-> 2, messages |-> 0, crashes |-> 0,
         failures |-> 0, reloads |-> 0, switches |-> 0, configs |-> 0, commands |-> 0]
Two == [Base EXCEPT !.servers = {"A", "B"}, !.updates = 1]

(* One server with three updates; that dies and fails; that reloads; that  *)
(* is configured again, and dies, with a batch or with an update; whose    *)
(* target comes and goes, and fails; that relays a message of several      *)
(* events and forgets, fails, reloads and dies; that has an update and a   *)
(* message of its own.  Two that hand the lock over; of which one creates  *)
(* the thread; of which one commits messages the other one publishes.      *)
MCScopes == {[Base EXCEPT !.updates = 3],
             [Base EXCEPT !.crashes = 1, !.failures = 1],
             [Base EXCEPT !.reloads = 1],
             [Base EXCEPT !.configs = 1],
             [Base EXCEPT !.updates = 1, !.configs = 1, !.crashes = 1],
             [Base EXCEPT !.switches = 2],
             [Base EXCEPT !.updates = 1, !.switches = 1, !.failures = 1],
             [Base EXCEPT !.updates = 0, !.messages = 3, !.failures = 1],
             [Base EXCEPT !.updates = 1, !.messages = 1],
             [Base EXCEPT !.updates = 0, !.messages = 2, !.crashes = 1, !.reloads = 1],
             [Two EXCEPT !.crashes = 1],
             [Two EXCEPT !.born = FALSE],
             [Two EXCEPT !.updates = 0, !.messages = 1, !.commands = 1]}
=============================================================================
