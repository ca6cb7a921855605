------------------------- MODULE MCRuntimeIngestion -------------------------
(* Instances of RuntimeIngestion for TLC. *)
EXTENDS RuntimeIngestion, TLC

Quiet == [turns |-> 1, others |-> 0, messages |-> 0, chunks |-> 0, modes |-> {"buffered"},
          plans |-> {FALSE}, asks |-> 0, answers |-> 0, stops |-> 0, deaths |-> 0, failures |-> 0,
          unreadable |-> {}]

(* Text, all of it buffered, with a failure; delivered both ways; plans;   *)
(* and a process that is stopped or ends.                                  *)
Text   == [Quiet EXCEPT !.turns = 2, !.messages = 2, !.chunks = 3, !.failures = 1]
Mixed  == [Quiet EXCEPT !.messages = 2, !.chunks = 3, !.others = 1, !.failures = 1,
                        !.modes = Modes]
Plans  == [Quiet EXCEPT !.messages = 2, !.chunks = 2, !.failures = 1, !.plans = BOOLEAN]
Dying  == [Quiet EXCEPT !.turns = 2, !.messages = 2, !.chunks = 2, !.deaths = 1, !.stops = 1,
                        !.modes = Modes]

(* An approval and a question, three answers, and a process that ends; and *)
(* a question the adapter cannot read.                                     *)
Requests  == [Quiet EXCEPT !.asks = 2, !.answers = 3, !.deaths = 1, !.stops = 1]
Unread    == [Requests EXCEPT !.answers = 1, !.unreadable = {2}]
All == {Text, Mixed, Plans, Dying, Requests, Unread}
Stale == {[Quiet EXCEPT !.asks = 1, !.answers = 1, !.deaths = 1]}
=============================================================================
