------------------------------ MODULE MCProtocol ------------------------------
(* A factory whose admin key changes hands, and one stream created through *)
(* it or directly, then topped up by its sender or by its delegate.        *)
EXTENDS FluxoraProtocol

CONSTANTS alice, bob, gold, contract

Requests ==
  {[sender |-> alice, recipient |-> bob, token |-> gold, deposit |-> 5,
    start_time |-> 0, end_time |-> 2, cliff_time |-> 0,
    cliff_mode |-> "Schedule", cancellable |-> FALSE, pausable |-> FALSE,
    transferable |-> FALSE, curve |-> "Linear"]}

TopUpOnly == {{"TOP_UP"}}
NoExpiry == {None}

RateArguments == {-2, None, 1, 2}
=============================================================================
