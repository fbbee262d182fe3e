------------------------------ MODULE MCFindings ------------------------------
(* Small instances on which a sentence of the repository's documentation   *)
(* is at odds with what the code does.  Each .cfg checks one sentence.     *)
EXTENDS FluxoraStream

CONSTANTS alice, bob, gold

Terms(deposit, duration, curve) ==
  [sender |-> alice, recipient |-> bob, token |-> gold, deposit |-> deposit,
   start_time |-> 0, end_time |-> duration, cliff_time |-> 0,
   cliff_mode |-> "Schedule", cancellable |-> TRUE, pausable |-> FALSE,
   transferable |-> FALSE, curve |-> curve]

LinearRequests == {Terms(2, 2, "Linear")}
StepRequests == {Terms(4, 3, "Step")}
FrontLoadedRequests == {Terms(33, 33, "FrontLoaded")}

TopUpGrants == {{"TOP_UP"}}
Never == {None}
=============================================================================
