-------------------------------- MODULE MCRent --------------------------------
(* A short and a long stream, on ledgers that close as the code assumes or *)
(* as fast as its margin allows, touched or left alone by their parties,   *)
(* a delegate and a keeper.  The long one outlives the network's maximum.  *)
EXTENDS FluxoraRent

CONSTANTS alice, bob, carol, gold

Short ==
  [sender |-> alice, recipient |-> bob, token |-> gold, deposit |-> 4,
   start_time |-> 0, end_time |-> 4, cliff_time |-> 2,
   cliff_mode |-> "Schedule", cancellable |-> TRUE, pausable |-> TRUE,
   transferable |-> TRUE, curve |-> "Linear"]

Long ==
  [Short EXCEPT !.deposit = 16, !.end_time = 16, !.curve = "Step"]

Requests == {Short, Long, [Short EXCEPT !.cliff_mode = "WallClock"]}

LenientFactory ==
  {[creation_paused |-> FALSE, max_deposit |-> 16, min_duration |-> 0,
    min_rate |-> None, max_rate |-> None, allowlist |-> {gold}]}

OperationSets ==
  {{"PAUSE", "RESUME", "TOP_UP", "CANCEL"}, {"WITHDRAW", "TRANSFER_RECIPIENT"}}
=============================================================================
