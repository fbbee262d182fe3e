------------------------------- MODULE MCEvents -------------------------------
(* One stream whose parties delegate, revoke and transfer, or one that     *)
(* vests in steps and can only be paid and topped up; an operator that     *)
(* halts, and an indexer up to two invocations behind: who may move what,  *)
(* on direct and delegated paths, what a top-up at the linear rate does to *)
(* either stream, and what the events say of it.                           *)
EXTENDS FluxoraEvents

CONSTANTS alice, bob, carol, gold

Requests ==
  {[sender |-> alice, recipient |-> bob, token |-> gold, deposit |-> 4,
    start_time |-> 0, end_time |-> 2, cliff_time |-> 0,
    cliff_mode |-> "Schedule", cancellable |-> plain, pausable |-> plain,
    transferable |-> plain, curve |-> IF plain THEN "Linear" ELSE "Step"] :
   plain \in BOOLEAN}

OperationSets ==
  {{"WITHDRAW", "TRANSFER_RECIPIENT"}, {"CANCEL", "PAUSE"}, {"RESUME", "TOP_UP"},
   {"WITHDRAW", "CANCEL"}}

ExpirySet == {1}
=============================================================================
