-------------------------------- MODULE MCPool --------------------------------
(* Several streams on two tokens, batches, tokens that charge fees and     *)
(* rebase, and an operator that halts: the pool.                           *)
EXTENDS FluxoraStream

CONSTANTS alice, bob, carol, gold, silver

Terms(recipient, token, from, to) ==
  [sender |-> alice, recipient |-> recipient, token |-> token, deposit |-> 2,
   start_time |-> from, end_time |-> to, cliff_time |-> from,
   cliff_mode |-> "Schedule", cancellable |-> TRUE, pausable |-> FALSE,
   transferable |-> FALSE, curve |-> "Linear"]

Requests ==
  { Terms(bob, gold, 0, 2),
    [Terms(bob, silver, 0, 1) EXCEPT !.pausable = TRUE],
    [Terms(carol, gold, 1, 2) EXCEPT !.cancellable = FALSE] }


TokenChanges == {-1, 1}
=============================================================================
