------------------------------ MODULE MCLiveness ------------------------------
(* Two streams of one token, one of which may be paused, a sender who may  *)
(* cancel or top up and an operator who may halt: does the recipient of    *)
(* the other get paid?                                                     *)
EXTENDS FluxoraStream

CONSTANTS alice, bob, gold

Firm ==
  [sender |-> alice, recipient |-> bob, token |-> gold, deposit |-> 2,
   start_time |-> 0, end_time |-> 2, cliff_time |-> 1,
   cliff_mode |-> "Schedule", cancellable |-> TRUE, pausable |-> FALSE,
   transferable |-> FALSE, curve |-> "Linear"]

Requests == {Firm, [Firm EXCEPT !.pausable = TRUE, !.cancellable = FALSE, !.deposit = 1, !.end_time = 1]}
=============================================================================
