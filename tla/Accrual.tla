------------------------------- MODULE Accrual -------------------------------
(***************************************************************************)
(* The vesting arithmetic of a stream, contracts/stream/src/accrual.rs.    *)
(*                                                                         *)
(* Every operator is a pure function of a stream record s (StreamRecord)   *)
(* and the ledger timestamp now.  Times and amounts are naturals; the u64  *)
(* subtractions of the code saturate at zero, and so do these.             *)
(***************************************************************************)
EXTENDS Integers

CONSTANT I128Max      \* the largest i128 value: the ceiling of every product

(* An absent Option<u64>: timestamps are never negative. *)
None == -1

SatSub(a, b) == IF a >= b THEN a - b ELSE 0

Least(a, b) == IF a <= b THEN a ELSE b
Greatest(a, b) == IF a >= b THEN a ELSE b

CeilDiv(a, b) == (a + b - 1) \div b

-----------------------------------------------------------------------------
(* The stream's own clock: frozen at paused_at while paused, and behind    *)
(* the ledger by the pauses already served.                                *)
StreamTime(s, now) ==
  SatSub(IF s.paused_at = None THEN now ELSE s.paused_at, s.paused_total)

Duration(s) == SatSub(s.end_time, s.start_time)

Elapsed(s, now) ==
  SatSub(Least(StreamTime(s, now), s.end_time), s.start_time)

(* The gate reads the stream clock or, in WallClock mode, the ledger's.    *)
CliffReached(s, now) ==
  \/ s.cliff_mode = "Schedule" /\ StreamTime(s, now) >= s.cliff_time
  \/ s.cliff_mode = "WallClock" /\ now >= s.cliff_time

-----------------------------------------------------------------------------
(* The three release curves, for 0 <= consumed < duration.                 *)

VestedLinear(deposited, consumed, duration) ==
  Least((deposited * consumed) \div duration, deposited)

(* Tranche k of four opens at ceil(k * duration / 4).                      *)
TranchesOpen(consumed, duration) ==
    (IF consumed >= CeilDiv(duration, 4)     THEN 1 ELSE 0)
  + (IF consumed >= CeilDiv(2 * duration, 4) THEN 1 ELSE 0)
  + (IF consumed >= CeilDiv(3 * duration, 4) THEN 1 ELSE 0)

(* floor(deposited * part / parts), split so that no product outgrows the  *)
(* deposit: what both curves that read a fixed grid compute.               *)
Share(deposited, part, parts) ==
  (deposited \div parts) * part + ((deposited % parts) * part) \div parts

VestedStep(deposited, consumed, duration) ==
  Share(deposited, TranchesOpen(consumed, duration), 4)

(* 2u - u^2 on a grid of thousandths, u the fraction consumed.             *)
FrontFraction(consumed, duration) == (consumed * 1000) \div duration
FrontCurve(u) == 2 * u - (u * u) \div 1000

VestedFrontLoaded(deposited, consumed, duration) ==
  Share(deposited, FrontCurve(FrontFraction(consumed, duration)), 1000)

-----------------------------------------------------------------------------
(* What the schedule has released at now, once the gate is open.           *)
Released(s, now) ==
  LET consumed == Elapsed(s, now)
      duration == Duration(s)
  IN  IF duration = 0 \/ consumed >= duration THEN s.deposited
      ELSE CASE s.curve = "Linear" ->
                  VestedLinear(s.deposited, consumed, duration)
             [] s.curve = "Step" ->
                  VestedStep(s.deposited, consumed, duration)
             [] s.curve = "FrontLoaded" ->
                  VestedFrontLoaded(s.deposited, consumed, duration)

(* What the recipient has earned in total, ever.                           *)
Vested(s, now) == IF CliffReached(s, now) THEN Released(s, now) ELSE 0

(* vested() answers Ok: the one checked product fits an i128.              *)
AccrualFits(s, now) ==
  \/ ~ CliffReached(s, now)
  \/ s.curve # "Linear"
  \/ Elapsed(s, now) >= Duration(s)
  \/ s.deposited * Elapsed(s, now) <= I128Max

Withdrawable(s, now) == Greatest(Vested(s, now) - s.withdrawn, 0)

Refundable(s, now) == s.deposited - Vested(s, now)

Liability(s) == s.deposited - s.withdrawn

=============================================================================
