---------------------------- MODULE VestingPromise ----------------------------
(***************************************************************************)
(* What a stream promises its two parties, with no clock, schedule, pool   *)
(* or delegate: an amount earned that never falls, payments never beyond   *)
(* it, money added only while the stream is open, and a closing that gives *)
(* the sender back exactly what was not earned.                            *)
(*                                                                         *)
(* One call may move several streams and the clock moves all of them, so   *)
(* a step lets every stream make one move of its own.                      *)
(***************************************************************************)
EXTENDS Integers

CONSTANT StreamIds

VARIABLES
  total,    \* put into the stream and not given back to the sender
  earned,   \* by the recipient, in all
  paid,     \* to the recipient, in all
  closed    \* nothing more will be earned

promise == <<total, earned, paid, closed>>

Init ==
  /\ total = [i \in StreamIds |-> 0]
  /\ earned = [i \in StreamIds |-> 0]
  /\ paid = [i \in StreamIds |-> 0]
  /\ closed = [i \in StreamIds |-> FALSE]

Rest(i) ==
  /\ total'[i] = total[i] /\ earned'[i] = earned[i]
  /\ paid'[i] = paid[i] /\ closed'[i] = closed[i]

(* The sender opens the stream, or adds to it; funds already due by the    *)
(* clock may be earned at once.                                            *)
Fund(i) ==
  /\ ~ closed[i] /\ ~ closed'[i]
  /\ total'[i] > total[i]
  /\ earned'[i] \in earned[i] .. total'[i]
  /\ paid'[i] = paid[i]

(* Time passes.                                                            *)
Earn(i) ==
  /\ earned'[i] \in earned[i] .. total[i]
  /\ total'[i] = total[i] /\ paid'[i] = paid[i] /\ closed'[i] = closed[i]

(* The recipient is paid; a stream paid in full is closed.                 *)
Pay(i) ==
  /\ paid'[i] \in paid[i] + 1 .. earned[i]
  /\ closed'[i] = (closed[i] \/ paid'[i] = total[i])
  /\ total'[i] = total[i] /\ earned'[i] = earned[i]

(* The sender takes back what is not earned.                               *)
Close(i) ==
  /\ ~ closed[i] /\ closed'[i]
  /\ total'[i] = earned[i]
  /\ earned'[i] = earned[i] /\ paid'[i] = paid[i]

Move(i) == Rest(i) \/ Fund(i) \/ Earn(i) \/ Pay(i) \/ Close(i)

Next == \A i \in StreamIds : Move(i)

Spec == Init /\ [][Next]_promise
=============================================================================
