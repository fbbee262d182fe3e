---------------------------- MODULE StreamRecord ----------------------------
(***************************************************************************)
(* A stream's record and what each operation writes into it                *)
(* (contracts/stream/src/types.rs and the bodies of lib.rs).  Everything   *)
(* here is a pure function of the record; guards, storage and tokens are   *)
(* in FluxoraStream.                                                       *)
(***************************************************************************)
EXTENDS Accrual

CONSTANTS
  Accounts,      \* addresses that may be a sender, a recipient or a delegate
  Tokens,        \* token contracts
  U64Max         \* the largest u64 value

Statuses == {"Active", "Paused", "Cancelled", "Depleted"}
Curves == {"Linear", "Step", "FrontLoaded"}
CliffModes == {"Schedule", "WallClock"}

(* The terms fixed by whoever creates the stream, as the entry points      *)
(* receive them: the values are not yet validated.                         *)
CreateRequest ==
  [sender: Accounts, recipient: Accounts, token: Tokens, deposit: Int,
   start_time: Nat, end_time: Nat, cliff_time: Nat, cliff_mode: CliffModes,
   cancellable: BOOLEAN, pausable: BOOLEAN, transferable: BOOLEAN,
   curve: Curves]

Stream ==
  [sender: Accounts, recipient: Accounts, token: Tokens,
   deposited: Nat, withdrawn: Nat,
   start_time: Nat, end_time: Nat, cliff_time: Nat, cliff_mode: CliffModes,
   cancellable: BOOLEAN, pausable: BOOLEAN, transferable: BOOLEAN,
   paused_at: Nat \cup {None}, paused_total: Nat,
   status: Statuses, curve: Curves]

Terminal(s) == s.status \in {"Cancelled", "Depleted"}

-----------------------------------------------------------------------------
(* The terms create_stream_inner refuses, before any token moves.          *)
ValidTerms(req) ==
  /\ req.sender # req.recipient
  /\ req.deposit > 0
  /\ req.end_time > req.start_time
  /\ req.cliff_time \in req.start_time .. req.end_time
  /\ req.deposit >= req.end_time - req.start_time

(* The guard that lets every later product fit.                            *)
ProductFits(amount, seconds) == amount * seconds <= I128Max

NewStream(req) ==
  [sender |-> req.sender, recipient |-> req.recipient, token |-> req.token,
   deposited |-> req.deposit, withdrawn |-> 0,
   start_time |-> req.start_time, end_time |-> req.end_time,
   cliff_time |-> req.cliff_time, cliff_mode |-> req.cliff_mode,
   cancellable |-> req.cancellable, pausable |-> req.pausable,
   transferable |-> req.transferable,
   paused_at |-> None, paused_total |-> 0,
   status |-> "Active", curve |-> req.curve]

-----------------------------------------------------------------------------
(* The time left in the current pause is added to the pauses served.       *)
PauseServed(s, now) == s.paused_total + SatSub(now, s.paused_at)

(* Mutant: draining a paused stream leaves its pause open.                 *)
PaidOutPauseLeftOpen(s, payout, now) ==
  LET drained == s.withdrawn + payout >= s.deposited /\ s.status # "Cancelled"
  IN  [s EXCEPT !.withdrawn = @ + payout,
                !.status = IF drained THEN "Depleted" ELSE @]

(* Mutant: a drained stream stays in the status it had.                    *)
PaidOutNeverDepletes(s, payout, now) == [s EXCEPT !.withdrawn = @ + payout]

(* apply_withdrawal: a live stream paid in full becomes Depleted, and an   *)
(* open pause is closed with it.  Cancelled is sticky.                     *)
PaidOut(s, payout, now) ==
  LET drained == s.withdrawn + payout >= s.deposited /\ s.status # "Cancelled"
      paid    == [s EXCEPT !.withdrawn = @ + payout]
  IN  IF ~ drained THEN paid
      ELSE IF s.paused_at = None THEN [paid EXCEPT !.status = "Depleted"]
      ELSE [paid EXCEPT !.status = "Depleted",
                        !.paused_total = PauseServed(s, now),
                        !.paused_at = None]

(* Mutant: the schedule is not collapsed onto the cancel instant.          *)
SettledKeepsSchedule(s, now) ==
  [s EXCEPT !.deposited = Vested(s, now), !.paused_at = None,
            !.status = "Cancelled"]

(* Mutant: the refund leaves out what is vested but not yet withdrawn.     *)
SettledAtWithdrawn(s, now) ==
  [s EXCEPT !.deposited = s.withdrawn,
            !.end_time = Greatest(StreamTime(s, now), s.start_time),
            !.paused_at = None, !.status = "Cancelled"]

(* settle_cancel: the schedule is collapsed onto the stream clock, so that *)
(* the stream reads as one that has matured.                               *)
Settled(s, now) ==
  [s EXCEPT !.deposited = Vested(s, now),
            !.end_time = Greatest(StreamTime(s, now), s.start_time),
            !.paused_at = None,
            !.status = "Cancelled"]

Paused(s, now) == [s EXCEPT !.paused_at = now, !.status = "Paused"]

(* Mutant: the pause in progress is forgotten when the stream resumes.     *)
ResumedForgetsPause(s, now) ==
  [s EXCEPT !.paused_at = None, !.status = "Active"]

Resumed(s, now) ==
  [s EXCEPT !.paused_total = PauseServed(s, now),
            !.paused_at = None,
            !.status = "Active"]

-----------------------------------------------------------------------------
(* Mutant: the extension is rounded up.                                    *)
RateDeltaCeil(s, amount) == CeilDiv(amount * Duration(s), s.deposited)

(* Mutant: the rate is that of the stream with the amount already added.   *)
RateDeltaOfSum(s, amount) == (amount * Duration(s)) \div (s.deposited + amount)

(* Seconds that keep the per-second rate: floor(amount * duration / deposited). *)
RateDelta(s, amount) == (amount * Duration(s)) \div s.deposited

(* top_up_duration_delta: a curved stream keeps its end and scales.        *)
TopUpDelta(s, amount) == IF s.curve = "Linear" THEN RateDelta(s, amount) ELSE 0

Extended(s, amount, delta) ==
  [s EXCEPT !.deposited = @ + amount, !.end_time = @ + delta]

(* Mutant: the product that prices accrual is not checked again.           *)
TopUpFitsUnpriced(s, amount, delta) ==
  LET t == Extended(s, amount, delta)
  IN  /\ t.deposited <= I128Max
      /\ t.end_time <= U64Max
      /\ t.deposited >= Duration(t)

(* What top_up and delegate_top_up demand of the new figures.              *)
TopUpFits(s, amount, delta) ==
  LET t == Extended(s, amount, delta)
  IN  /\ t.deposited <= I128Max
      /\ t.end_time <= U64Max
      /\ ProductFits(t.deposited, Duration(t))
      /\ t.deposited >= Duration(t)

=============================================================================
