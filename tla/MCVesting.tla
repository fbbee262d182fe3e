------------------------------ MODULE MCVesting ------------------------------
(* One stream at a time, of every curve and cliff mode, its own parties    *)
(* calling: the vesting rules.  Amounts and times are small, and I128Max   *)
(* is small enough for a second top-up to meet the product guard.          *)
EXTENDS FluxoraStream

CONSTANTS alice, bob, gold

Terms(deposit, from, to, cliff) ==
  [sender |-> alice, recipient |-> bob, token |-> gold, deposit |-> deposit,
   start_time |-> from, end_time |-> to, cliff_time |-> cliff,
   cliff_mode |-> "Schedule", cancellable |-> TRUE, pausable |-> TRUE,
   transferable |-> TRUE, curve |-> "Linear"]

Requests ==
  { Terms(6, 1, 5, 2),
    [Terms(6, 1, 5, 3) EXCEPT !.cliff_mode = "WallClock"],
    [Terms(7, 1, 6, 2) EXCEPT !.curve = "Step"],
    [Terms(5, 1, 5, 1) EXCEPT !.curve = "FrontLoaded"],
    [Terms(7, 0, 5, 1) EXCEPT !.cancellable = FALSE, !.pausable = FALSE],
    Terms(3, 1, 5, 2),                          \* below one unit a second
    [Terms(6, 1, 5, 2) EXCEPT !.recipient = alice] }

OpenFactory ==
  [creation_paused |-> FALSE, max_deposit |-> 6, min_duration |-> 4,
   min_rate |-> None, max_rate |-> None, allowlist |-> {gold}]
FactoryAnswerSet == {OpenFactory}

(* The recipient may stop the stream for the sender, for a while.          *)
SenderSide == {{"PAUSE", "RESUME", "CANCEL"}}
UpToThree == {3}

=============================================================================
