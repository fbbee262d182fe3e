------------------------- MODULE StreamRecordTheorems -------------------------
(***************************************************************************)
(* What holds of every stream record and every clock, and of every sum.    *)
(*                                                                         *)
(* The vesting arithmetic: the amount vested lies between zero and the     *)
(* deposit, and time never lowers it, however the record came about; how   *)
(* the three curves compare, roundings included.  Then what each operation *)
(* of StreamRecord does to a record in good order, the arithmetic half of  *)
(* the inductive invariant of FluxoraStreamProofs, and what two of them in *)
(* a row come to: draws, a pause and its end, top-ups.                     *)
(* Last, the sums: SumTo satisfies its recursion for every length, keeps   *)
(* to integers, and follows a change of one entry, of several, or an       *)
(* appended list.                                                          *)
(***************************************************************************)
EXTENDS StreamRecord, Sums, WellFoundedInduction, TLAPS

(* Rust's integer division, for a positive divisor.                        *)
LEMMA DivBounds ==
  ASSUME NEW a \in Int, NEW b \in Int, b > 0
  PROVE  /\ a \div b \in Int
         /\ b * (a \div b) <= a
         /\ a < b * (a \div b) + b
BY SMT

(* A larger dividend has no smaller quotient.                            *)
LEMMA DivMonotone ==
  ASSUME NEW a \in Int, NEW b \in Int, NEW c \in Int, c > 0, a <= b
  PROVE  a \div c <= b \div c
BY SMT

(* A quotient is no smaller than what its divisor fits into the dividend.  *)
LEMMA DivAtLeast ==
  ASSUME NEW a \in Nat, NEW b \in Nat, b > 0, NEW q \in Nat, b * q <= a
  PROVE  a \div b >= q
BY SMT

(* Quotients of naturals are naturals.                                   *)
LEMMA DivOfNat ==
  ASSUME NEW a \in Nat, NEW b \in Nat, b > 0
  PROVE  a \div b \in Nat
BY SMT

(* Multiplying keeps the order.                                          *)
LEMMA TimesMonotone ==
  ASSUME NEW a \in Nat, NEW b \in Nat, NEW c \in Nat, a <= b
  PROVE  /\ c * a \in Nat /\ c * b \in Nat
         /\ c * a <= c * b
BY SMT

(* A quotient is the only number its bounds allow.                        *)
LEMMA DivUnique ==
  ASSUME NEW a \in Nat, NEW b \in Nat, b > 0, NEW q \in Nat, b * q <= a, a < b * q + b
  PROVE  a \div b = q
<1> DEFINE x == a \div b
<1>1. x \in Int /\ x >= q /\ b * x <= a
  BY DivAtLeast, DivBounds
<1> HIDE DEF x
<1>2. ~ (x >= q + 1)
  <2> SUFFICES ASSUME x >= q + 1
               PROVE  FALSE
    OBVIOUS
  <2>1. b * (q + 1) <= b * x
    BY <1>1, TimesMonotone
  <2>2. b * (q + 1) = b * q + b /\ b * q \in Nat /\ b * x \in Int
    BY <1>1, SMT
  <2> QED
    BY <1>1, <2>1, <2>2
<1>3. x = q
  BY <1>1, <1>2
<1> QED
  BY <1>3 DEF x

-----------------------------------------------------------------------------
(* vested_linear answers between 0 and the deposit.                      *)
LEMMA LinearBounds ==
  ASSUME NEW d \in Nat, NEW c \in Nat, NEW t \in Nat, t > 0
  PROVE  VestedLinear(d, c, t) \in 0 .. d
<1>1. d * c \in Nat
  BY SMT
<1>2. (d * c) \div t \in Nat
  BY <1>1, DivOfNat
<1> QED
  BY <1>2 DEF VestedLinear, Least

(* vested_linear never falls as time is consumed.                        *)
LEMMA LinearMonotone ==
  ASSUME NEW d \in Nat, NEW c1 \in Nat, NEW c2 \in Nat, c1 <= c2,
         NEW t \in Nat, t > 0
  PROVE  VestedLinear(d, c1, t) <= VestedLinear(d, c2, t)
<1>1. d * c1 \in Nat /\ d * c2 \in Nat /\ d * c1 <= d * c2
  BY TimesMonotone
<1>2. (d * c1) \div t <= (d * c2) \div t
  BY <1>1, DivMonotone
<1>3. (d * c1) \div t \in Nat /\ (d * c2) \div t \in Nat
  BY <1>1, DivOfNat
<1> QED
  BY <1>2, <1>3 DEF VestedLinear, Least

(* A linear stream is fully vested at its end and not before.              *)
LEMMA LinearNotBeforeEnd ==
  ASSUME NEW d \in Nat, d > 0, NEW c \in Nat, NEW t \in Nat, c < t
  PROVE  VestedLinear(d, c, t) < d
<1>1. d * c \in Nat /\ d * c < t * d
  BY SMT
<1>2. (d * c) \div t < d
  BY <1>1, DivBounds, SMT
<1>3. (d * c) \div t \in Nat
  BY <1>1, DivOfNat
<1> QED
  BY <1>2, <1>3 DEF VestedLinear, Least

-----------------------------------------------------------------------------
(* The boundary of a tranche is a natural.                               *)
LEMMA CeilDivType ==
  ASSUME NEW a \in Nat, NEW b \in Nat, b > 0
  PROVE  CeilDiv(a, b) \in Nat
BY DivOfNat DEF CeilDiv

(* Before the end at most three of the four tranches are open.           *)
LEMMA TranchesType ==
  ASSUME NEW c \in Nat, NEW t \in Nat
  PROVE  TranchesOpen(c, t) \in 0 .. 3
BY CeilDivType DEF TranchesOpen

(* An open tranche stays open.                                           *)
LEMMA TranchesMonotone ==
  ASSUME NEW c1 \in Nat, NEW c2 \in Nat, c1 <= c2, NEW t \in Nat
  PROVE  TranchesOpen(c1, t) <= TranchesOpen(c2, t)
<1>1. /\ CeilDiv(t, 4) \in Nat /\ CeilDiv(2 * t, 4) \in Nat
      /\ CeilDiv(3 * t, 4) \in Nat
  BY CeilDivType
<1> QED
  BY <1>1 DEF TranchesOpen

(* A part of the deposit is between nothing and all of it.               *)
LEMMA ShareBounds ==
  ASSUME NEW d \in Nat, NEW n \in Nat, n > 0, NEW k \in Nat, k <= n
  PROVE  Share(d, k, n) \in 0 .. d
<1> DEFINE q == d \div n
           r == d % n
<1>1. q \in Nat /\ r \in 0 .. n - 1 /\ d = n * q + r
  BY SMT
<1> HIDE DEF q, r
<1>2. q * k \in Nat /\ q * k <= n * q
  BY <1>1, SMT
<1>3. r * k \in Nat /\ r * k <= n * r
  BY <1>1, SMT
<1>4. (r * k) \div n \in Nat
  BY <1>3, DivOfNat
<1>5. (r * k) \div n <= r
  BY <1>1, <1>3, <1>4, DivBounds, SMT
<1>6. q * k + (r * k) \div n \in 0 .. d
  BY <1>1, <1>2, <1>4, <1>5, SMT
<1> QED
  BY <1>6 DEF q, r, Share

(* More parts are no smaller a share, split product and all.             *)
LEMMA ShareMonotone ==
  ASSUME NEW d \in Nat, NEW n \in Nat, n > 0,
         NEW k1 \in Nat, NEW k2 \in Nat, k1 <= k2
  PROVE  Share(d, k1, n) <= Share(d, k2, n)
<1> DEFINE q == d \div n
           r == d % n
<1>1. q \in Nat /\ r \in Nat
  BY SMT
<1> HIDE DEF q, r
<1>2. q * k1 \in Nat /\ q * k2 \in Nat /\ q * k1 <= q * k2
  BY <1>1, TimesMonotone
<1>3. r * k1 \in Nat /\ r * k2 \in Nat /\ r * k1 <= r * k2
  BY <1>1, TimesMonotone
<1>4. (r * k1) \div n <= (r * k2) \div n
  BY <1>3, DivMonotone
<1>5. (r * k1) \div n \in Nat /\ (r * k2) \div n \in Nat
  BY <1>3, DivOfNat
<1>6. q * k1 + (r * k1) \div n <= q * k2 + (r * k2) \div n
  BY <1>2, <1>4, <1>5, SMT
<1> QED
  BY <1>6 DEF q, r, Share

(* vested_step answers between 0 and the deposit.                        *)
LEMMA StepBounds ==
  ASSUME NEW d \in Nat, NEW c \in Nat, NEW t \in Nat
  PROVE  VestedStep(d, c, t) \in 0 .. d
<1>1. TranchesOpen(c, t) \in Nat /\ TranchesOpen(c, t) <= 4
  BY TranchesType
<1> DEFINE k == TranchesOpen(c, t)
<1>2. k \in Nat /\ k <= 4
  BY <1>1
<1> HIDE DEF k
<1>3. Share(d, k, 4) \in 0 .. d
  BY <1>2, ShareBounds
<1> QED
  BY <1>3, Zenon DEF VestedStep, k

(* vested_step never falls as time is consumed.                          *)
LEMMA StepMonotone ==
  ASSUME NEW d \in Nat, NEW c1 \in Nat, NEW c2 \in Nat, c1 <= c2, NEW t \in Nat
  PROVE  VestedStep(d, c1, t) <= VestedStep(d, c2, t)
<1>1. /\ TranchesOpen(c1, t) \in Nat /\ TranchesOpen(c2, t) \in Nat
      /\ TranchesOpen(c1, t) <= TranchesOpen(c2, t)
  BY TranchesType, TranchesMonotone
<1> QED
  BY <1>1, ShareMonotone DEF VestedStep

-----------------------------------------------------------------------------
(* 2u - u^2 in thousandths stays a fraction, and rises.                    *)
LEMMA FrontCurveType ==
  ASSUME NEW u \in Nat, u <= 1000
  PROVE  FrontCurve(u) \in Nat /\ FrontCurve(u) <= 1000
BY SMT DEF FrontCurve

(* A square below 1000 grows by at most 2000 for each unit.              *)
LEMMA SquareGrowth ==
  ASSUME NEW u \in Nat, NEW w \in Nat, u + w <= 1000
  PROVE  (u + w) * (u + w) <= u * u + 2000 * w
<1>1. (u + w) * (u + w) = u * u + (2 * u + w) * w
  BY SMT
<1>2. (2 * u + w) * w <= 2000 * w
  BY SMT
<1> QED
  BY <1>1, <1>2, SMT

(* The front-loaded curve never falls, its rounding included.            *)
LEMMA FrontCurveMonotone ==
  ASSUME NEW u1 \in Nat, NEW u2 \in Nat, u1 <= u2, u2 <= 1000
  PROVE  FrontCurve(u1) <= FrontCurve(u2)
<1>1. PICK w \in Nat : u2 = u1 + w
  <2> u2 - u1 \in Nat /\ u2 = u1 + (u2 - u1)
    OBVIOUS
  <2> QED
    OBVIOUS
<1>2. u1 * u1 \in Nat /\ u2 * u2 \in Nat /\ u2 * u2 <= u1 * u1 + 2000 * w
  BY <1>1, SquareGrowth, SMT
<1>3. (u2 * u2) \div 1000 <= (u1 * u1) \div 1000 + 2 * w
  BY <1>2, SMT
<1>4. (u2 * u2) \div 1000 \in Nat /\ (u1 * u1) \div 1000 \in Nat
  BY <1>2, DivOfNat
<1> QED
  BY <1>1, <1>3, <1>4 DEF FrontCurve

(* The fraction consumed is at most a thousand thousandths.              *)
LEMMA FrontFractionType ==
  ASSUME NEW c \in Nat, NEW t \in Nat, c < t
  PROVE  FrontFraction(c, t) \in Nat /\ FrontFraction(c, t) <= 1000
<1>1. c * 1000 \in Nat /\ c * 1000 <= t * 1000
  BY SMT
<1>2. (c * 1000) \div t \in Nat
  BY <1>1, DivOfNat
<1>3. (c * 1000) \div t <= 1000
  BY <1>1, <1>2, DivBounds, SMT
<1> QED
  BY <1>2, <1>3 DEF FrontFraction

(* vested_front_loaded answers between 0 and the deposit.                *)
LEMMA FrontLoadedBounds ==
  ASSUME NEW d \in Nat, NEW c \in Nat, NEW t \in Nat, c < t
  PROVE  VestedFrontLoaded(d, c, t) \in 0 .. d
<1>1. FrontFraction(c, t) \in Nat /\ FrontFraction(c, t) <= 1000
  BY FrontFractionType
<1>2. /\ FrontCurve(FrontFraction(c, t)) \in Nat
      /\ FrontCurve(FrontFraction(c, t)) <= 1000
  BY <1>1, FrontCurveType
<1> DEFINE k == FrontCurve(FrontFraction(c, t))
<1>3. k \in Nat /\ k <= 1000
  BY <1>2
<1> HIDE DEF k
<1>4. Share(d, k, 1000) \in 0 .. d
  BY <1>3, ShareBounds
<1>5. VestedFrontLoaded(d, c, t) = Share(d, k, 1000)
  BY DEF VestedFrontLoaded, k
<1> QED
  BY <1>4, <1>5

(* vested_front_loaded never falls as time is consumed.                  *)
LEMMA FrontLoadedMonotone ==
  ASSUME NEW d \in Nat, NEW c1 \in Nat, NEW c2 \in Nat, c1 <= c2,
         NEW t \in Nat, c2 < t
  PROVE  VestedFrontLoaded(d, c1, t) <= VestedFrontLoaded(d, c2, t)
<1>1. FrontFraction(c1, t) <= FrontFraction(c2, t)
  BY DivMonotone DEF FrontFraction
<1>2. /\ FrontFraction(c1, t) \in Nat /\ FrontFraction(c1, t) <= 1000
      /\ FrontFraction(c2, t) \in Nat /\ FrontFraction(c2, t) <= 1000
  BY FrontFractionType
<1>3. /\ FrontCurve(FrontFraction(c1, t)) \in Nat
      /\ FrontCurve(FrontFraction(c2, t)) \in Nat
  BY <1>2, FrontCurveType
<1>4. FrontCurve(FrontFraction(c1, t)) <= FrontCurve(FrontFraction(c2, t))
  BY <1>1, <1>2, FrontCurveMonotone
<1> QED
  BY <1>3, <1>4, ShareMonotone DEF VestedFrontLoaded

-----------------------------------------------------------------------------
(* The fields the clock reads.                                             *)
LEMMA ClockFields ==
  ASSUME NEW s \in Stream
  PROVE  /\ s.start_time \in Nat /\ s.end_time \in Nat /\ s.cliff_time \in Nat
         /\ s.cliff_mode \in CliffModes
         /\ s.paused_total \in Nat /\ s.paused_at \in Int
         /\ s.paused_at # None => s.paused_at \in Nat
BY DEF Stream, None

(* A saturating difference is a natural.                                 *)
LEMMA SatSubType ==
  ASSUME NEW a \in Nat, NEW b \in Nat
  PROVE  SatSub(a, b) \in Nat
BY DEF SatSub

(* A saturating difference keeps the order of its first argument.        *)
LEMMA SatSubMonotone ==
  ASSUME NEW a1 \in Nat, NEW a2 \in Nat, a1 <= a2, NEW b \in Nat
  PROVE  SatSub(a1, b) <= SatSub(a2, b)
BY DEF SatSub

(* A record's clock readings are naturals, and grow with the ledger's.     *)
LEMMA ClockType ==
  ASSUME NEW s \in Stream, NEW t \in Nat
  PROVE  /\ StreamTime(s, t) \in Nat
         /\ Duration(s) \in Nat
         /\ Elapsed(s, t) \in Nat
         /\ CliffReached(s, t) \in BOOLEAN
<1>1. StreamTime(s, t) \in Nat
  BY ClockFields, SatSubType DEF StreamTime
<1>2. Duration(s) \in Nat
  BY ClockFields, SatSubType DEF Duration
<1>3. Elapsed(s, t) \in Nat
  <2>1. Least(StreamTime(s, t), s.end_time) \in Nat
    BY <1>1, ClockFields DEF Least
  <2> QED
    BY <2>1, ClockFields, SatSubType DEF Elapsed
<1>4. CliffReached(s, t) \in BOOLEAN
  BY <1>1, ClockFields DEF CliffReached, CliffModes
<1> QED
  BY <1>1, <1>2, <1>3, <1>4

(* The stream clock, the time consumed and the cliff gate never go back. *)
LEMMA ClockMonotone ==
  ASSUME NEW s \in Stream, NEW t1 \in Nat, NEW t2 \in Nat, t1 <= t2
  PROVE  /\ StreamTime(s, t1) <= StreamTime(s, t2)
         /\ Elapsed(s, t1) <= Elapsed(s, t2)
         /\ CliffReached(s, t1) => CliffReached(s, t2)
<1>1. StreamTime(s, t1) \in Nat /\ StreamTime(s, t2) \in Nat
  BY ClockType
<1>2. StreamTime(s, t1) <= StreamTime(s, t2)
  BY ClockFields DEF StreamTime, SatSub
<1>3. Elapsed(s, t1) <= Elapsed(s, t2)
  BY <1>1, <1>2, ClockFields DEF Elapsed, Least, SatSub
<1>4. CliffReached(s, t1) => CliffReached(s, t2)
  BY <1>1, <1>2, ClockFields DEF CliffReached, CliffModes
<1> QED
  BY <1>2, <1>3, <1>4

(* Past the cliff, between 0 and the deposit is released.                *)
LEMMA ReleasedBounds ==
  ASSUME NEW s \in Stream, NEW t \in Nat
  PROVE  Released(s, t) \in 0 .. s.deposited
<1> DEFINE c == Elapsed(s, t)
           d == Duration(s)
<1>1. s.deposited \in Nat /\ s.curve \in Curves
  BY DEF Stream
<1>2. c \in Nat /\ d \in Nat
  BY ClockType
<1> HIDE DEF c, d
<1>3. CASE d = 0 \/ c >= d
  BY <1>1, <1>3 DEF Released, c, d
<1>4. CASE d > 0 /\ c < d
  <2>1. /\ VestedLinear(s.deposited, c, d) \in 0 .. s.deposited
        /\ VestedStep(s.deposited, c, d) \in 0 .. s.deposited
        /\ VestedFrontLoaded(s.deposited, c, d) \in 0 .. s.deposited
    BY <1>1, <1>2, <1>4, LinearBounds, StepBounds, FrontLoadedBounds
  <2> QED
    BY <1>1, <1>2, <1>4, <2>1 DEF Released, c, d, Curves
<1> QED
  BY <1>2, <1>3, <1>4

(* Past the cliff, what is released never falls.                         *)
LEMMA ReleasedMonotone ==
  ASSUME NEW s \in Stream, NEW t1 \in Nat, NEW t2 \in Nat, t1 <= t2
  PROVE  Released(s, t1) <= Released(s, t2)
<1> DEFINE c1 == Elapsed(s, t1)
           c2 == Elapsed(s, t2)
           d  == Duration(s)
<1>1. s.deposited \in Nat /\ s.curve \in Curves
  BY DEF Stream
<1>2. c1 \in Nat /\ c2 \in Nat /\ d \in Nat /\ c1 <= c2
  BY ClockType, ClockMonotone
<1>3. Released(s, t1) \in 0 .. s.deposited
  BY ReleasedBounds
<1> HIDE DEF c1, c2, d
<1>4. CASE d = 0 \/ c2 >= d
  <2>1. Released(s, t2) = s.deposited
    BY <1>4 DEF Released, c2, d
  <2> QED
    BY <1>1, <1>3, <2>1
<1>5. CASE d > 0 /\ c2 < d
  <2>1. /\ VestedLinear(s.deposited, c1, d) <= VestedLinear(s.deposited, c2, d)
        /\ VestedStep(s.deposited, c1, d) <= VestedStep(s.deposited, c2, d)
        /\ VestedFrontLoaded(s.deposited, c1, d)
              <= VestedFrontLoaded(s.deposited, c2, d)
    BY <1>1, <1>2, <1>5, LinearMonotone, StepMonotone, FrontLoadedMonotone
  <2> QED
    BY <1>1, <1>2, <1>5, <2>1 DEF Released, c1, c2, d, Curves
<1> QED
  BY <1>2, <1>4, <1>5

(* I1 of accrual.rs, the part that is arithmetic: 0 <= vested <= deposited *)
(* for every record, whatever its curve, its cliff and its pauses.         *)
THEOREM VestedBounds ==
  ASSUME NEW s \in Stream, NEW t \in Nat
  PROVE  Vested(s, t) \in 0 .. s.deposited
<1>1. s.deposited \in Nat /\ Released(s, t) \in 0 .. s.deposited
  BY ReleasedBounds DEF Stream
<1> QED
  BY <1>1 DEF Vested

(* I2 of accrual.rs: vested is monotone in time, for every record: no      *)
(* curve dips, and a cliff once passed stays passed.                       *)
THEOREM VestedMonotone ==
  ASSUME NEW s \in Stream, NEW t1 \in Nat, NEW t2 \in Nat, t1 <= t2
  PROVE  Vested(s, t1) <= Vested(s, t2)
<1>1. Vested(s, t1) \in 0 .. s.deposited /\ Vested(s, t2) \in 0 .. s.deposited
  BY VestedBounds
<1>2. Released(s, t1) <= Released(s, t2)
  BY ReleasedMonotone
<1>3. CliffReached(s, t1) => CliffReached(s, t2)
  BY ClockMonotone
<1> QED
  BY <1>1, <1>2, <1>3 DEF Vested, Stream

-----------------------------------------------------------------------------
(* The curves compared.                                                    *)

(* The split that keeps both products small loses nothing: it computes the *)
(* floor of deposited * part / parts (accrual.rs, vested_step and          *)
(* vested_front_loaded).                                                   *)
THEOREM ShareIsTheFloor ==
  ASSUME NEW d \in Nat, NEW n \in Nat, n > 0, NEW k \in Nat
  PROVE  Share(d, k, n) = (d * k) \div n
<1> DEFINE q == d \div n
           r == d % n
           e == (r * k) \div n
<1>1. q \in Nat /\ r \in Nat /\ d = n * q + r
  BY SMT
<1>2. Share(d, k, n) = q * k + e
  BY DEF Share
<1>3. r * k \in Nat
  BY <1>1, SMT
<1>4. e \in Nat /\ n * e <= r * k /\ r * k < n * e + n
  BY <1>3, DivOfNat, DivBounds
<1> HIDE DEF q, r, e
<1>5. d * k = n * (q * k) + r * k
  BY <1>1, SMT
<1>6. q * k \in Nat /\ n * (q * k) \in Nat /\ n * e \in Nat
      /\ n * (q * k + e) = n * (q * k) + n * e
  BY <1>1, <1>4, SMT
<1>7. d * k \in Nat /\ q * k + e \in Nat
      /\ n * (q * k + e) <= d * k /\ d * k < n * (q * k + e) + n
  BY <1>3, <1>4, <1>5, <1>6
<1>8. (d * k) \div n = q * k + e
  BY <1>7, DivUnique
<1> QED
  BY <1>2, <1>8

(* A common factor does not change an order.                               *)
LEMMA TimesCancel ==
  ASSUME NEW a \in Int, NEW b \in Int, NEW c \in Nat, c > 0, c * a <= c * b
  PROVE  a <= b
<1> SUFFICES ASSUME b + 1 <= a
             PROVE  FALSE
  OBVIOUS
<1>1. c * (a - b) >= c
  <2>1. a - b \in Nat /\ 1 <= a - b
    OBVIOUS
  <2>2. c * 1 <= c * (a - b)
    BY <2>1, TimesMonotone
  <2> QED
    BY <2>2
<1>2. c * (a - b) = c * a - c * b /\ c * a \in Int /\ c * b \in Int
  BY SMT
<1> QED
  BY <1>1, <1>2

(* The tranches open are no more quarters than have gone by.               *)
LEMMA QuartersGone ==
  ASSUME NEW c \in Nat, NEW t \in Nat
  PROVE  TranchesOpen(c, t) * t <= 4 * c
<1>1. /\ c >= CeilDiv(t, 4) => t <= 4 * c
      /\ c >= CeilDiv(2 * t, 4) => 2 * t <= 4 * c
      /\ c >= CeilDiv(3 * t, 4) => 3 * t <= 4 * c
  BY SMT DEF CeilDiv
<1>2. \/ TranchesOpen(c, t) = 0
      \/ TranchesOpen(c, t) = 1 /\ t <= 4 * c
      \/ TranchesOpen(c, t) = 2 /\ 2 * t <= 4 * c
      \/ TranchesOpen(c, t) = 3 /\ 3 * t <= 4 * c
  <2>1. /\ CeilDiv(t, 4) \in Nat /\ CeilDiv(2 * t, 4) \in Nat
        /\ CeilDiv(3 * t, 4) \in Nat
    BY CeilDivType
  <2>2. CeilDiv(t, 4) <= CeilDiv(2 * t, 4) /\ CeilDiv(2 * t, 4) <= CeilDiv(3 * t, 4)
    BY SMT DEF CeilDiv
  <2> QED
    BY <1>1, <2>1, <2>2 DEF TranchesOpen
<1> QED
  BY <1>2

(* vested_step is never ahead of vested_linear.                            *)
LEMMA StepBehindLinear ==
  ASSUME NEW d \in Nat, NEW c \in Nat, NEW t \in Nat, c < t
  PROVE  VestedStep(d, c, t) <= VestedLinear(d, c, t)
<1> DEFINE k == TranchesOpen(c, t)
           x == VestedStep(d, c, t)
<1>1. k \in Nat /\ k * t <= 4 * c
  BY TranchesType, QuartersGone
<1>2. x = (d * k) \div 4
  BY <1>1, ShareIsTheFloor DEF VestedStep
<1>3. x \in 0 .. d
  BY StepBounds
<1> HIDE DEF k, x
<1>4. d * k \in Nat /\ 4 * x <= d * k
  <2>1. d * k \in Nat
    BY <1>1, SMT
  <2> QED
    BY <1>2, <2>1, DivBounds
<1>5. 4 * (t * x) <= 4 * (d * c)
  <2>1. t * (4 * x) <= t * (d * k)
    BY <1>3, <1>4, TimesMonotone
  <2>2. d * (k * t) <= d * (4 * c)
    <3>1. k * t \in Nat
      BY <1>1, SMT
    <3> QED
      BY <1>1, <3>1, TimesMonotone
  <2>3. /\ t * (4 * x) = 4 * (t * x) /\ t * (d * k) = d * (k * t)
        /\ d * (4 * c) = 4 * (d * c)
        /\ t * x \in Int /\ d * c \in Int /\ d * (k * t) \in Int
    BY <1>1, <1>3, SMT
  <2> QED
    BY <2>1, <2>2, <2>3
<1>6. t * x <= d * c /\ d * c \in Nat
  <2>1. t * x \in Int /\ d * c \in Nat
    BY <1>3, SMT
  <2> QED
    BY <1>5, <2>1
<1>7. (d * c) \div t >= x /\ (d * c) \div t \in Nat
  BY <1>3, <1>6, DivAtLeast, DivOfNat
<1> QED
  BY <1>3, <1>7 DEF VestedLinear, Least, x

(* Once a thousandth of the schedule is consumed, vested_front_loaded is   *)
(* never behind vested_linear.                                             *)
LEMMA FrontAheadOfLinear ==
  ASSUME NEW d \in Nat, NEW c \in Nat, NEW t \in Nat, c < t, t <= 1000 * c
  PROVE  VestedLinear(d, c, t) <= VestedFrontLoaded(d, c, t)
<1> DEFINE u == FrontFraction(c, t)
           k == FrontCurve(u)
           x == VestedLinear(d, c, t)
<1>1. c * 1000 \in Nat /\ t > 0
  OBVIOUS
<1>2. u \in Nat /\ t * u <= c * 1000 /\ c * 1000 < t * u + t
  BY <1>1, DivBounds, DivOfNat DEF FrontFraction
<1>3. x \in 0 .. d /\ t * x <= d * c
  <2>1. d * c \in Nat
    BY SMT
  <2>2. (d * c) \div t \in Nat /\ t * ((d * c) \div t) <= d * c
    BY <1>1, <2>1, DivOfNat, DivBounds
  <2>3. x \in 0 .. d /\ x <= (d * c) \div t
    BY <1>1, <2>2, LinearBounds DEF VestedLinear, Least
  <2>4. t * x <= t * ((d * c) \div t)
    BY <2>2, <2>3, TimesMonotone
  <2>5. t * x \in Int /\ t * ((d * c) \div t) \in Int
    BY <2>2, <2>3, SMT
  <2> QED
    BY <2>1, <2>2, <2>3, <2>4, <2>5
<1>4. k \in Nat /\ VestedFrontLoaded(d, c, t) = (d * k) \div 1000
  BY <1>2, FrontFractionType, FrontCurveType, ShareIsTheFloor DEF VestedFrontLoaded
<1>5. u >= 1 /\ u <= 999
  <2>1. u # 0
    BY <1>2
  <2>2. ~ (u >= 1000)
    <3> SUFFICES ASSUME u >= 1000
                 PROVE  FALSE
      BY <1>2
    <3>1. t * 1000 <= t * u
      BY <1>2, TimesMonotone
    <3> QED
      BY <1>2, <3>1
  <2> QED
    BY <1>2, <2>1, <2>2
<1>6. k >= u + 1
  <2>1. u * u \in Nat /\ u * u <= 999 * u
    <3>1. u * u <= u * 999
      BY <1>2, <1>5, TimesMonotone
    <3> QED
      BY <1>2, <3>1, SMT
  <2>2. (u * u) \div 1000 \in Nat /\ 1000 * ((u * u) \div 1000) <= u * u
    BY <2>1, DivOfNat, DivBounds
  <2>3. (u * u) \div 1000 <= u - 1
    BY <1>2, <1>5, <2>1, <2>2
  <2> QED
    BY <1>2, <2>2, <2>3 DEF FrontCurve
<1> HIDE DEF u, k, x
<1>7. c * 1000 <= t * k
  <2>1. t * (u + 1) <= t * k
    BY <1>2, <1>4, <1>6, TimesMonotone
  <2>2. t * (u + 1) = t * u + t /\ t * u \in Int /\ t * k \in Int
    BY <1>2, <1>4, SMT
  <2> QED
    BY <1>2, <2>1, <2>2
<1>8. t * (1000 * x) <= t * (d * k)
  <2>1. d * (c * 1000) <= d * (t * k)
    <3>1. t * k \in Nat /\ c * 1000 \in Nat
      BY <1>4, SMT
    <3> QED
      BY <1>7, <3>1, TimesMonotone
  <2>2. /\ d * (c * 1000) = 1000 * (d * c) /\ d * (t * k) = t * (d * k)
        /\ t * (1000 * x) = 1000 * (t * x)
        /\ d * c \in Int /\ t * (d * k) \in Int /\ t * x \in Int
    BY <1>3, <1>4, SMT
  <2> QED
    BY <1>3, <2>1, <2>2
<1>9. 1000 * x <= d * k /\ d * k \in Nat
  <2>1. 1000 * x \in Int /\ d * k \in Nat
    BY <1>3, <1>4, SMT
  <2> QED
    BY <1>1, <1>8, <2>1, TimesCancel
<1>10. (d * k) \div 1000 >= x
  BY <1>3, <1>9, DivAtLeast
<1> QED
  BY <1>4, <1>10 DEF x

(* How far the rounding of the front-loaded curve reaches: its thousandths *)
(* and its square lie a thousandth above and two below 2u - u^2.           *)
LEMMA FrontCurveTracks ==
  ASSUME NEW c \in Nat, NEW t \in Nat, c < t, NEW k, k = FrontCurve(FrontFraction(c, t))
  PROVE  /\ k \in Nat
         /\ k * (t * t) <= 1000 * (2 * (c * t) - c * c) + t * t
         /\ 1000 * (2 * (c * t) - c * c) <= k * (t * t) + 2 * (t * t)
<1> DEFINE u == FrontFraction(c, t)
           e == (u * u) \div 1000
           A == t * u
           B == c * 1000
           T == t * 1000
<1>1. u \in Nat /\ A <= B /\ B < A + t /\ t > 0
  BY DivBounds, DivOfNat DEF FrontFraction
<1>2. k \in Nat /\ k = 2 * u - e
  <2>1. u \in Nat /\ u <= 1000
    BY FrontFractionType
  <2>2. k = FrontCurve(u) /\ FrontCurve(u) = 2 * u - e
    BY DEF FrontCurve
  <2> HIDE DEF u, e
  <2>3. FrontCurve(u) \in Nat
    BY <2>1, FrontCurveType
  <2> QED
    BY <2>2, <2>3
<1>3. e \in Nat /\ 1000 * e <= u * u /\ u * u < 1000 * e + 1000 /\ u * u \in Nat
  <2>1. u * u \in Nat
    BY <1>1, SMT
  <2> QED
    BY <2>1, DivOfNat, DivBounds
<1>4. A \in Nat /\ B \in Nat /\ T \in Nat /\ B <= T
  BY <1>1, SMT
<1>5. /\ (t * t) * (u * u) = A * A
      /\ (t * t) * (2000 * u) = 2 * (T * A)
      /\ 1000000 * (c * c) = B * B
      /\ 2000000 * (c * t) = 2 * (T * B)
  BY <1>1, SMT
<1> HIDE DEF u, e
<1>6. /\ (t * t) * (1000 * e) <= (t * t) * (u * u)
      /\ (t * t) * (u * u) <= (t * t) * (1000 * e + 1000)
  <2>1. t * t \in Nat
    BY SMT
  <2> QED
    BY <1>3, <2>1, TimesMonotone
<1>7. 1000 * (k * (t * t)) = (t * t) * (2000 * u) - (t * t) * (1000 * e)
  BY <1>1, <1>2, <1>3, SMT
<1>8. (t * t) * (1000 * e + 1000) = (t * t) * (1000 * e) + 1000 * (t * t)
  BY <1>3, SMT
<1>9. 1000 * (1000 * (2 * (c * t) - c * c)) = 2 * (T * B) - B * B
  BY <1>5, SMT
<1> DEFINE g == 2 * (T * A) - A * A
           h == 2 * (T * B) - B * B
<1>10. g <= h
  <2>1. h - g = (B - A) * ((T - A) + (T - B))
    BY <1>4, SMT
  <2>2. B - A \in Nat /\ (T - A) + (T - B) \in Nat
    BY <1>1, <1>4
  <2> HIDE DEF A, B, T, g, h
  <2>3. (B - A) * ((T - A) + (T - B)) \in Nat
    BY <2>2, SMT
  <2>4. g \in Int /\ h \in Int
    BY <1>4, SMT DEF g, h
  <2> QED
    BY <2>1, <2>3, <2>4
<1>11. h <= g + 2 * (T * t)
  <2>1. h - g = (B - A) * ((T - A) + (T - B))
    BY <1>4, SMT
  <2>2. B - A \in Nat /\ (T - A) + (T - B) \in Nat /\ B - A <= t /\ (T - A) + (T - B) <= 2 * T
    BY <1>1, <1>4
  <2> HIDE DEF A, B, T, g, h
  <2> DEFINE x == B - A
             y == (T - A) + (T - B)
  <2>3. x * y <= x * (2 * T) /\ (2 * T) * x <= (2 * T) * t
    BY <1>4, <2>2, TimesMonotone
  <2>4. /\ x * (2 * T) = (2 * T) * x /\ (2 * T) * t = 2 * (T * t)
        /\ x * y \in Int /\ (2 * T) * x \in Int /\ T * t \in Int
    <3> HIDE DEF x, y
    <3> QED
      BY <1>4, <2>2, SMT DEF x, y
  <2>5. g \in Int /\ h \in Int
    BY <1>4, SMT DEF g, h
  <2> QED
    BY <2>1, <2>3, <2>4, <2>5
<1>12. T * t = 1000 * (t * t) /\ t * t \in Nat /\ k * (t * t) \in Int
       /\ 1000 * (2 * (c * t) - c * c) \in Int
  BY <1>2, SMT
<1>13. /\ (t * t) * (2000 * u) \in Int /\ (t * t) * (1000 * e) \in Int
       /\ A * A \in Int /\ T * A \in Int
  BY <1>1, <1>3, <1>4, SMT
<1>14. 2 * (T * B) - B * B = h /\ g \in Int /\ h \in Int
       /\ g = (t * t) * (2000 * u) - (t * t) * (u * u)
  BY <1>4, <1>5, SMT
<1>15. (t * t) * (u * u) \in Int
  BY <1>1, SMT
<1> HIDE DEF A, B, T, g, h
<1>16. 1000 * (k * (t * t)) <= h + 1000 * (t * t)
  BY <1>6, <1>7, <1>8, <1>10, <1>12, <1>13, <1>14, <1>15
<1>17. h <= 1000 * (k * (t * t)) + 2000 * (t * t)
  BY <1>6, <1>7, <1>11, <1>12, <1>13, <1>14, <1>15
<1> QED
  BY <1>2, <1>9, <1>12, <1>14, <1>16, <1>17

(* What vested_front_loaded answers is never more than a thousandth of the *)
(* deposit above deposited * (2u - u^2), u the exact fraction consumed,    *)
(* nor two thousandths and one unit below: the rounding that the comment   *)
(* on vested denies is bounded.  (Both sides times 1000 * duration^2.)     *)
THEOREM FrontLoadedTracksTheCurve ==
  ASSUME NEW d \in Nat, NEW c \in Nat, NEW t \in Nat, c < t
  PROVE  /\ 1000 * ((t * t) * VestedFrontLoaded(d, c, t))
              <= d * (1000 * (2 * (c * t) - c * c)) + d * (t * t)
         /\ d * (1000 * (2 * (c * t) - c * c))
              <= 1000 * ((t * t) * (VestedFrontLoaded(d, c, t) + 1)) + 2 * (d * (t * t))
<1> DEFINE k == FrontCurve(FrontFraction(c, t))
           v == VestedFrontLoaded(d, c, t)
           m == 1000 * (2 * (c * t) - c * c)
           tt == t * t
<1>1. /\ k \in Nat /\ k * tt <= m + tt /\ m <= k * tt + 2 * tt
  BY FrontCurveTracks
<1>2. v = (d * k) \div 1000
  BY <1>1, ShareIsTheFloor DEF VestedFrontLoaded
<1>3. m \in Int /\ m >= 0 /\ tt \in Nat
  <2>1. c * c \in Nat /\ c * t \in Nat /\ c * c <= c * t
    BY TimesMonotone
  <2>2. tt \in Nat
    BY SMT
  <2> QED
    BY <2>1, <2>2
<1> HIDE DEF k, v, m, tt
<1>4. d * k \in Nat
  BY <1>1, SMT
<1>5. v \in Nat /\ 1000 * v <= d * k /\ d * k <= 1000 * v + 1000
  BY <1>2, <1>4, DivOfNat, DivBounds
<1>6. tt * (1000 * v) <= tt * (d * k) /\ tt * (d * k) <= tt * (1000 * v + 1000)
  BY <1>3, <1>4, <1>5, TimesMonotone
<1>7. k * tt \in Nat
  BY <1>1, <1>3, SMT
<1>8. d * (k * tt) <= d * (m + tt) /\ d * m <= d * (k * tt + 2 * tt)
  BY <1>1, <1>3, <1>7, TimesMonotone
<1>9. /\ tt * (1000 * v) = 1000 * (tt * v)
      /\ tt * (1000 * v + 1000) = 1000 * (tt * (v + 1))
      /\ tt * (d * k) = d * (k * tt)
      /\ d * (m + tt) = d * m + d * tt
      /\ d * (k * tt + 2 * tt) = d * (k * tt) + 2 * (d * tt)
      /\ tt * v \in Int /\ tt * (v + 1) \in Int /\ d * (k * tt) \in Int
      /\ d * m \in Int /\ d * tt \in Int
  BY <1>1, <1>3, <1>5, SMT
<1>10. /\ 1000 * (tt * v) <= d * m + d * tt
       /\ d * m <= 1000 * (tt * (v + 1)) + 2 * (d * tt)
  BY <1>6, <1>8, <1>9
<1> QED
  BY <1>10 DEF v, m, tt

(* The same stream on another curve, apart from the curve.                 *)
LEMMA CurveAlone ==
  ASSUME NEW s \in Stream, NEW curve \in Curves, NEW t \in Nat
  PROVE  /\ [s EXCEPT !.curve = curve] \in Stream
         /\ [s EXCEPT !.curve = curve].curve = curve
         /\ [s EXCEPT !.curve = curve].deposited = s.deposited
         /\ Elapsed([s EXCEPT !.curve = curve], t) = Elapsed(s, t)
         /\ Duration([s EXCEPT !.curve = curve]) = Duration(s)
         /\ CliffReached([s EXCEPT !.curve = curve], t) <=> CliffReached(s, t)
BY DEF Stream, Elapsed, Duration, CliffReached, StreamTime

(* A stepped stream is never ahead of the linear stream on the same terms, *)
(* whatever the pauses, the cliff and the instant: money that vests in     *)
(* tranches vests late, never early.                                       *)
THEOREM StepNeverAhead ==
  ASSUME NEW s \in Stream, s.curve = "Step", NEW t \in Nat
  PROVE  Vested(s, t) <= Vested([s EXCEPT !.curve = "Linear"], t)
<1> DEFINE l == [s EXCEPT !.curve = "Linear"]
           c == Elapsed(s, t)
           d == Duration(s)
<1>1. s.deposited \in Nat /\ c \in Nat /\ d \in Nat
  BY ClockType DEF Stream
<1>2. /\ l \in Stream /\ l.curve = "Linear" /\ l.deposited = s.deposited
      /\ Elapsed(l, t) = c /\ Duration(l) = d
      /\ CliffReached(l, t) <=> CliffReached(s, t)
  <2>1. "Linear" \in Curves
    BY DEF Curves
  <2> QED
    BY <2>1, CurveAlone, ZenonT(40)
<1> HIDE DEF l, c, d
<1>3. CASE d = 0 \/ c >= d
  <2>1. Released(s, t) = s.deposited /\ Released(l, t) = s.deposited
    BY <1>2, <1>3 DEF Released, c, d
  <2> QED
    BY <1>1, <1>2, <2>1 DEF Vested, l
<1>4. CASE d # 0 /\ c < d
  <2>1. /\ Released(s, t) = VestedStep(s.deposited, c, d)
        /\ Released(l, t) = VestedLinear(s.deposited, c, d)
    BY <1>1, <1>2, <1>4 DEF Released, c, d
  <2>2. VestedStep(s.deposited, c, d) <= VestedLinear(s.deposited, c, d)
    BY <1>1, <1>4, StepBehindLinear
  <2> QED
    BY <1>1, <1>2, <2>1, <2>2 DEF Vested, l
<1> QED
  BY <1>1, <1>3, <1>4

(* A front-loaded stream, from the first thousandth of its schedule on, is *)
(* never behind the linear stream on the same terms, its rounding included. *)
THEOREM FrontLoadedNeverBehind ==
  ASSUME NEW s \in Stream, s.curve = "FrontLoaded", NEW t \in Nat,
         Duration(s) <= 1000 * Elapsed(s, t)
  PROVE  Vested([s EXCEPT !.curve = "Linear"], t) <= Vested(s, t)
<1> DEFINE l == [s EXCEPT !.curve = "Linear"]
           c == Elapsed(s, t)
           d == Duration(s)
<1>1. s.deposited \in Nat /\ c \in Nat /\ d \in Nat /\ d <= 1000 * c
  BY ClockType DEF Stream
<1>2. /\ l \in Stream /\ l.curve = "Linear" /\ l.deposited = s.deposited
      /\ Elapsed(l, t) = c /\ Duration(l) = d
      /\ CliffReached(l, t) <=> CliffReached(s, t)
  <2>1. "Linear" \in Curves
    BY DEF Curves
  <2> QED
    BY <2>1, CurveAlone, ZenonT(40)
<1> HIDE DEF l, c, d
<1>3. CASE d = 0 \/ c >= d
  <2>1. Released(s, t) = s.deposited /\ Released(l, t) = s.deposited
    BY <1>2, <1>3 DEF Released, c, d
  <2> QED
    BY <1>1, <1>2, <2>1 DEF Vested, l
<1>4. CASE d # 0 /\ c < d
  <2>1. /\ Released(s, t) = VestedFrontLoaded(s.deposited, c, d)
        /\ Released(l, t) = VestedLinear(s.deposited, c, d)
    BY <1>1, <1>2, <1>4 DEF Released, c, d
  <2>2. VestedLinear(s.deposited, c, d) <= VestedFrontLoaded(s.deposited, c, d)
    BY <1>1, <1>4, FrontAheadOfLinear
  <2> QED
    BY <1>1, <1>2, <2>1, <2>2 DEF Vested, l
<1> QED
  BY <1>1, <1>3, <1>4

-----------------------------------------------------------------------------
(* A record in good order at ledger time t: its parties differ, it owes    *)
(* something exactly as long as it must, its pause is coherent, and if it  *)
(* is settled it reads as matured.                                         *)
PartiesDiffer(s) == s.sender # s.recipient

OwesWhileLive(s) ==
  /\ ~ Terminal(s) => s.withdrawn < s.deposited
  /\ s.status = "Depleted" => s.withdrawn = s.deposited

PauseCoherent(s, t) ==
  /\ s.status = "Paused" <=> s.paused_at # None
  /\ s.paused_at # None => s.paused_total <= s.paused_at /\ s.paused_at <= t
  /\ s.paused_total <= t

MaturedIfSettled(s, t) == Terminal(s) => Vested(s, t) = s.deposited

Sound(s, t) ==
  /\ s \in Stream
  /\ PartiesDiffer(s)
  /\ OwesWhileLive(s)
  /\ PauseCoherent(s, t)
  /\ MaturedIfSettled(s, t)

-----------------------------------------------------------------------------
(* The fields and their types.                                             *)
LEMMA StreamFields ==
  ASSUME NEW s \in Stream
  PROVE  /\ s.sender \in Accounts /\ s.recipient \in Accounts /\ s.token \in Tokens
         /\ s.deposited \in Nat /\ s.withdrawn \in Nat
         /\ s.start_time \in Nat /\ s.end_time \in Nat /\ s.cliff_time \in Nat
         /\ s.cliff_mode \in CliffModes /\ s.curve \in Curves
         /\ s.paused_total \in Nat /\ s.paused_at \in Int
         /\ s.paused_at # None => s.paused_at \in Nat
         /\ s.status \in Statuses
BY DEF Stream, None

(* vested reads the schedule and the stream's clock, nothing else.         *)
SameSchedule(s, u) ==
  /\ u.deposited = s.deposited /\ u.curve = s.curve
  /\ u.start_time = s.start_time /\ u.end_time = s.end_time
  /\ u.cliff_time = s.cliff_time /\ u.cliff_mode = s.cliff_mode

(* vested reads the schedule, the deposit and the stream clock only.     *)
LEMMA VestedReadsSchedule ==
  ASSUME NEW s, NEW u, NEW t,
         SameSchedule(s, u), StreamTime(u, t) = StreamTime(s, t)
  PROVE  Vested(u, t) = Vested(s, t)
BY DEF SameSchedule, Vested, Released, CliffReached, Elapsed, Duration

(* A created stream is in good order.                                      *)
LEMMA NewStreamSound ==
  ASSUME NEW req \in CreateRequest, ValidTerms(req), NEW t \in Nat
  PROVE  Sound(NewStream(req), t)
<1> DEFINE s == NewStream(req)
<1>1. s \in Stream
  BY DEF NewStream, CreateRequest, Stream, ValidTerms, Statuses, None
<1>2. /\ s.sender = req.sender /\ s.recipient = req.recipient
      /\ s.deposited = req.deposit /\ s.withdrawn = 0
      /\ s.status = "Active" /\ s.paused_at = None /\ s.paused_total = 0
  BY DEF NewStream
<1>3. req.sender # req.recipient /\ req.deposit > 0 /\ req.deposit \in Int
  BY DEF ValidTerms, CreateRequest
<1> HIDE DEF s
<1>4. PartiesDiffer(s)
  BY <1>2, <1>3 DEF PartiesDiffer
<1>5. OwesWhileLive(s) /\ MaturedIfSettled(s, t)
  BY <1>2, <1>3 DEF OwesWhileLive, MaturedIfSettled, Terminal
<1>6. PauseCoherent(s, t)
  BY <1>2 DEF PauseCoherent
<1> QED
  BY <1>1, <1>4, <1>5, <1>6 DEF Sound, s

(* Time passing keeps a record in good order.                              *)
LEMMA SoundLater ==
  ASSUME NEW s, NEW t1 \in Nat, NEW t2 \in Nat, t1 <= t2, Sound(s, t1)
  PROVE  Sound(s, t2)
<1>1. s \in Stream /\ Vested(s, t1) <= Vested(s, t2)
  BY VestedMonotone DEF Sound
<1>2. Vested(s, t1) \in 0 .. s.deposited /\ Vested(s, t2) \in 0 .. s.deposited
  BY <1>1, VestedBounds
<1>3. MaturedIfSettled(s, t2)
  BY <1>1, <1>2, StreamFields DEF Sound, MaturedIfSettled
<1>4. PauseCoherent(s, t2)
  BY <1>1, StreamFields DEF Sound, PauseCoherent
<1> QED
  BY <1>3, <1>4 DEF Sound

-----------------------------------------------------------------------------
(* Closing a pause leaves the stream's clock where it was.                 *)
LEMMA PauseServedKeepsClock ==
  ASSUME NEW s, NEW u, NEW t \in Nat, Sound(s, t), s.paused_at # None,
         u.paused_at = None, u.paused_total = PauseServed(s, t)
  PROVE  /\ StreamTime(u, t) = StreamTime(s, t)
         /\ u.paused_total \in Nat /\ u.paused_total <= t
<1>1. /\ s.paused_total \in Nat /\ s.paused_at \in Nat
      /\ s.paused_total <= s.paused_at /\ s.paused_at <= t
  BY StreamFields DEF Sound, PauseCoherent
<1>2. PauseServed(s, t) = s.paused_total + (t - s.paused_at)
  BY <1>1 DEF PauseServed, SatSub
<1>3. StreamTime(s, t) = s.paused_at - s.paused_total
  BY <1>1 DEF StreamTime, SatSub
<1>4. StreamTime(u, t) = SatSub(t, u.paused_total)
  BY DEF StreamTime
<1> QED
  BY <1>1, <1>2, <1>3, <1>4 DEF SatSub

(* What can be withdrawn never exceeds what is left of the deposit.        *)
LEMMA WithdrawableBounds ==
  ASSUME NEW s \in Stream, NEW t \in Nat, NEW payout \in 1 .. Withdrawable(s, t)
  PROVE  /\ payout \in Nat /\ payout > 0
         /\ s.withdrawn + payout <= Vested(s, t)
         /\ s.withdrawn + payout <= s.deposited
<1>1. Vested(s, t) \in 0 .. s.deposited /\ s.deposited \in Nat /\ s.withdrawn \in Nat
  BY VestedBounds, StreamFields
<1> QED
  BY <1>1 DEF Withdrawable, Greatest

(* The fields of a record that a payout rewrites.                          *)
LEMMA PaidOutFields ==
  ASSUME NEW s \in Stream, NEW payout \in Nat, NEW t \in Nat
  PROVE  LET u       == PaidOut(s, payout, t)
             drained == s.withdrawn + payout >= s.deposited /\ s.status # "Cancelled"
         IN  /\ u.withdrawn = s.withdrawn + payout
             /\ SameSchedule(s, u)
             /\ u.sender = s.sender /\ u.recipient = s.recipient
             /\ u.token = s.token
             /\ u.cancellable = s.cancellable /\ u.pausable = s.pausable
             /\ u.transferable = s.transferable
             /\ u.status = IF drained THEN "Depleted" ELSE s.status
             /\ u.paused_at = IF drained THEN None ELSE s.paused_at
             /\ u.paused_total = IF drained /\ s.paused_at # None
                                 THEN PauseServed(s, t) ELSE s.paused_total
BY DEF PaidOut, SameSchedule, Stream

(* What pausing and resuming leave of a record.                          *)
LEMMA PausingLeaves ==
  ASSUME NEW s \in Stream, NEW t, NEW u \in {Paused(s, t), Resumed(s, t)}
  PROVE  /\ SameSchedule(s, u)
         /\ u.withdrawn = s.withdrawn
         /\ u.sender = s.sender /\ u.recipient = s.recipient /\ u.token = s.token
         /\ u.cancellable = s.cancellable /\ u.pausable = s.pausable
         /\ u.transferable = s.transferable
<1>1. CASE u = Paused(s, t)
  BY <1>1 DEF Paused, SameSchedule, Stream
<1>2. CASE u = Resumed(s, t)
  <2> DEFINE served == PauseServed(s, t)
  <2>1. u = [s EXCEPT !.paused_total = served, !.paused_at = None, !.status = "Active"]
    BY <1>2 DEF Resumed
  <2> HIDE DEF served
  <2> QED
    BY <2>1 DEF SameSchedule, Stream
<1> QED
  BY <1>1, <1>2

(* A payout within what is withdrawable keeps a record sound.            *)
LEMMA PaidOutSound ==
  ASSUME NEW s, NEW t \in Nat, Sound(s, t), NEW payout \in 1 .. Withdrawable(s, t)
  PROVE  Sound(PaidOut(s, payout, t), t)
<1> DEFINE u == PaidOut(s, payout, t)
           drained == s.withdrawn + payout >= s.deposited /\ s.status # "Cancelled"
<1>1. s \in Stream
  BY DEF Sound
<1>2. /\ payout \in Nat /\ payout > 0
      /\ s.withdrawn + payout <= Vested(s, t)
      /\ s.withdrawn + payout <= s.deposited
  BY <1>1, WithdrawableBounds
<1>3. /\ u.withdrawn = s.withdrawn + payout
      /\ SameSchedule(s, u)
      /\ u.sender = s.sender /\ u.recipient = s.recipient
      /\ u.status = IF drained THEN "Depleted" ELSE s.status
      /\ u.paused_at = IF drained THEN None ELSE s.paused_at
      /\ u.paused_total = IF drained /\ s.paused_at # None
                          THEN PauseServed(s, t) ELSE s.paused_total
  BY <1>1, <1>2, PaidOutFields
<1>4. PauseServed(s, t) \in Nat
  BY <1>1, StreamFields, SatSubType DEF PauseServed, SatSub
<1>5. u \in Stream
  <2> DEFINE paid == [s EXCEPT !.withdrawn = s.withdrawn + payout]
             ended == [paid EXCEPT !.status = "Depleted"]
             closed == [paid EXCEPT !.status = "Depleted",
                                    !.paused_total = PauseServed(s, t),
                                    !.paused_at = None]
  <2>1. paid \in Stream
    BY <1>1, <1>2 DEF Stream
  <2> HIDE DEF paid
  <2>2. ended \in Stream /\ closed \in Stream
    BY <1>4, <2>1 DEF Stream, Statuses
  <2>3. u \in {paid, ended, closed}
    BY DEF PaidOut, paid
  <2> QED
    BY <2>1, <2>2, <2>3
<1> HIDE DEF u
<1>6. StreamTime(u, t) = StreamTime(s, t)
  BY <1>1, <1>3, PauseServedKeepsClock DEF StreamTime
<1>7. Vested(u, t) = Vested(s, t) /\ u.deposited = s.deposited
  BY <1>3, <1>6, VestedReadsSchedule DEF SameSchedule
<1>8. Vested(s, t) \in 0 .. s.deposited /\ s.deposited \in Nat /\ s.withdrawn \in Nat
  BY <1>1, VestedBounds, StreamFields
<1>9. PartiesDiffer(u)
  BY <1>3 DEF Sound, PartiesDiffer
<1>10. OwesWhileLive(u)
  BY <1>2, <1>3, <1>7, <1>8 DEF Sound, OwesWhileLive, Terminal
<1>11. PauseCoherent(u, t)
  BY <1>1, <1>3, StreamFields, PauseServedKeepsClock DEF Sound, PauseCoherent, Terminal
<1>12. MaturedIfSettled(u, t)
  BY <1>2, <1>3, <1>7, <1>8 DEF Sound, MaturedIfSettled, Terminal
<1> QED
  BY <1>5, <1>9, <1>10, <1>11, <1>12 DEF Sound, u

-----------------------------------------------------------------------------
(* settle_cancel: a settled record reads as matured at the cancel instant, *)
(* whatever its curve, its cliff and its pauses.                           *)
LEMMA SettledMatures ==
  ASSUME NEW s, NEW t \in Nat, Sound(s, t)
  PROVE  /\ Settled(s, t) \in Stream
         /\ Vested(Settled(s, t), t) = Vested(s, t)
         /\ Settled(s, t).deposited = Vested(s, t)
<1> DEFINE u == Settled(s, t)
<1>1. /\ s \in Stream
      /\ s.start_time \in Nat /\ s.paused_total \in Nat /\ s.paused_at \in Int
      /\ s.paused_at # None => s.paused_at \in Nat /\ s.paused_at <= t
  BY StreamFields DEF Sound, PauseCoherent
<1>2. StreamTime(s, t) \in Nat /\ Vested(s, t) \in Nat
  BY <1>1, ClockType, VestedBounds, StreamFields
<1>3. Greatest(StreamTime(s, t), s.start_time) \in Nat
  BY <1>1, <1>2 DEF Greatest
<1>4. u \in Stream
  BY <1>1, <1>2, <1>3 DEF Settled, Stream, Statuses
<1>5. /\ u.deposited = Vested(s, t) /\ u.start_time = s.start_time
      /\ u.end_time = Greatest(StreamTime(s, t), s.start_time)
      /\ u.cliff_time = s.cliff_time /\ u.cliff_mode = s.cliff_mode
      /\ u.paused_at = None /\ u.paused_total = s.paused_total
  BY <1>1 DEF Settled, Stream
<1> HIDE DEF u
<1>6. StreamTime(u, t) \in Nat /\ StreamTime(u, t) >= StreamTime(s, t)
  <2>1. StreamTime(u, t) = SatSub(t, s.paused_total)
    BY <1>5 DEF StreamTime
  <2>2. StreamTime(s, t) = SatSub(IF s.paused_at = None THEN t ELSE s.paused_at,
                                  s.paused_total)
    BY DEF StreamTime
  <2> QED
    BY <1>1, <2>1, <2>2 DEF SatSub
<1>7. Elapsed(u, t) >= Duration(u)
  BY <1>1, <1>2, <1>3, <1>5, <1>6 DEF Elapsed, Duration, Least, Greatest, SatSub
<1>8. Released(u, t) = u.deposited
  BY <1>7 DEF Released
<1>9. CliffReached(s, t) => CliffReached(u, t)
  BY <1>1, <1>2, <1>5, <1>6, StreamFields DEF CliffReached
<1>10. Vested(u, t) = u.deposited
  BY <1>5, <1>8, <1>9 DEF Vested
<1> QED
  BY <1>4, <1>5, <1>10 DEF u

(* Cancelling keeps a record sound.                                      *)
LEMMA SettledSound ==
  ASSUME NEW s, NEW t \in Nat, Sound(s, t)
  PROVE  Sound(Settled(s, t), t)
<1> DEFINE u == Settled(s, t)
<1>1. s \in Stream /\ u \in Stream
  BY SettledMatures DEF Sound
<1>2. /\ u.sender = s.sender /\ u.recipient = s.recipient
      /\ u.status = "Cancelled"
      /\ u.paused_at = None /\ u.paused_total = s.paused_total
  BY <1>1 DEF Settled, Stream
<1>3. MaturedIfSettled(u, t)
  BY SettledMatures DEF MaturedIfSettled
<1> HIDE DEF u
<1>4. PartiesDiffer(u)
  BY <1>2 DEF Sound, PartiesDiffer
<1>5. OwesWhileLive(u)
  BY <1>2 DEF OwesWhileLive, Terminal
<1>6. PauseCoherent(u, t)
  BY <1>2 DEF Sound, PauseCoherent
<1> QED
  BY <1>1, <1>3, <1>4, <1>5, <1>6 DEF Sound, u

(* A pause, and its end, leave the record in good order.                   *)
LEMMA PausedSound ==
  ASSUME NEW s, NEW t \in Nat, Sound(s, t), s.status = "Active"
  PROVE  Sound(Paused(s, t), t)
<1> DEFINE u == Paused(s, t)
<1>1. s \in Stream
  BY DEF Sound
<1>2. u \in Stream
  BY <1>1 DEF Paused, Stream, Statuses
<1>3. /\ u.sender = s.sender /\ u.recipient = s.recipient
      /\ u.withdrawn = s.withdrawn /\ u.deposited = s.deposited
      /\ u.status = "Paused" /\ u.paused_at = t /\ u.paused_total = s.paused_total
  BY <1>1 DEF Paused, Stream
<1> HIDE DEF u
<1>4. PartiesDiffer(u)
  BY <1>3 DEF Sound, PartiesDiffer
<1>5. OwesWhileLive(u)
  BY <1>3 DEF Sound, OwesWhileLive, Terminal
<1>6. PauseCoherent(u, t)
  BY <1>3 DEF Sound, PauseCoherent, None
<1>7. MaturedIfSettled(u, t)
  BY <1>3 DEF MaturedIfSettled, Terminal
<1> QED
  BY <1>2, <1>4, <1>5, <1>6, <1>7 DEF Sound, u

(* Resuming keeps a record sound.                                        *)
LEMMA ResumedSound ==
  ASSUME NEW s, NEW t \in Nat, Sound(s, t), s.status = "Paused"
  PROVE  Sound(Resumed(s, t), t)
<1> DEFINE u == Resumed(s, t)
<1>1. s \in Stream /\ s.paused_at # None
  BY DEF Sound, PauseCoherent
<1>2. PauseServed(s, t) \in Nat
  BY <1>1, StreamFields DEF PauseServed, SatSub
<1>3. u \in Stream
  BY <1>1, <1>2 DEF Resumed, Stream, Statuses
<1>4. /\ u.sender = s.sender /\ u.recipient = s.recipient
      /\ u.withdrawn = s.withdrawn /\ u.deposited = s.deposited
      /\ u.status = "Active" /\ u.paused_at = None
      /\ u.paused_total = PauseServed(s, t)
  BY <1>1 DEF Resumed, Stream
<1> HIDE DEF u
<1>5. PartiesDiffer(u)
  BY <1>4 DEF Sound, PartiesDiffer
<1>6. OwesWhileLive(u)
  BY <1>4 DEF Sound, OwesWhileLive, Terminal
<1>7. PauseCoherent(u, t)
  BY <1>1, <1>4, PauseServedKeepsClock DEF PauseCoherent
<1>8. MaturedIfSettled(u, t)
  BY <1>4 DEF MaturedIfSettled, Terminal
<1> QED
  BY <1>3, <1>5, <1>6, <1>7, <1>8 DEF Sound, u

(* A live record grows by a deposit and by the seconds that come with it.  *)
LEMMA RateDeltaType ==
  ASSUME NEW s, NEW t \in Nat, Sound(s, t), ~ Terminal(s), NEW amount \in Nat
  PROVE  RateDelta(s, amount) \in Nat /\ TopUpDelta(s, amount) \in Nat
<1>1. s.deposited \in Nat \ {0} /\ Duration(s) \in Nat
  <2>1. s \in Stream /\ s.withdrawn < s.deposited
    BY DEF Sound, OwesWhileLive
  <2>2. s.deposited \in Nat /\ s.withdrawn \in Nat
    BY <2>1, StreamFields
  <2>3. Duration(s) \in Nat
    BY <2>1, ClockType
  <2> QED
    BY <2>1, <2>2, <2>3
<1> DEFINE product == amount * Duration(s)
<1>2. product \in Nat
  BY <1>1
<1> HIDE DEF product
<1>3. product \div s.deposited \in Nat
  BY <1>1, <1>2, DivOfNat
<1>4. RateDelta(s, amount) \in Nat
  BY <1>3, Zenon DEF RateDelta, product
<1> QED
  BY <1>4 DEF TopUpDelta

(* A top-up of a live stream keeps its record sound.                     *)
LEMMA ExtendedSound ==
  ASSUME NEW s, NEW t \in Nat, Sound(s, t), ~ Terminal(s),
         NEW amount \in Nat, NEW delta \in Nat
  PROVE  Sound(Extended(s, amount, delta), t)
<1> DEFINE u == Extended(s, amount, delta)
<1>1. s \in Stream /\ s.deposited \in Nat /\ s.withdrawn \in Nat /\ s.end_time \in Nat
  BY StreamFields DEF Sound
<1>2. u \in Stream
  <2> DEFINE more == s.deposited + amount
             later == s.end_time + delta
  <2>1. more \in Nat /\ later \in Nat
    BY <1>1
  <2> HIDE DEF more, later
  <2>2. [s EXCEPT !.deposited = more, !.end_time = later] \in Stream
    BY <1>1, <2>1 DEF Stream
  <2>3. u = [s EXCEPT !.deposited = more, !.end_time = later]
    BY DEF Extended, more, later
  <2> QED
    BY <2>2, <2>3
<1>3. /\ u.sender = s.sender /\ u.recipient = s.recipient
      /\ u.withdrawn = s.withdrawn /\ u.deposited = s.deposited + amount
      /\ u.status = s.status
      /\ u.paused_at = s.paused_at /\ u.paused_total = s.paused_total
  BY <1>1 DEF Extended, Stream
<1> HIDE DEF u
<1>4. PartiesDiffer(u)
  BY <1>3 DEF Sound, PartiesDiffer
<1>5. OwesWhileLive(u)
  BY <1>1, <1>3 DEF Sound, OwesWhileLive, Terminal
<1>6. PauseCoherent(u, t)
  BY <1>3 DEF Sound, PauseCoherent
<1>7. MaturedIfSettled(u, t)
  BY <1>3 DEF MaturedIfSettled, Terminal
<1> QED
  BY <1>2, <1>4, <1>5, <1>6, <1>7 DEF Sound, u

(* The claim moves to another account that is not the sender.              *)
LEMMA TransferredSound ==
  ASSUME NEW s, NEW t \in Nat, Sound(s, t), NEW to \in Accounts, to # s.sender
  PROVE  Sound([s EXCEPT !.recipient = to], t)
<1> DEFINE u == [s EXCEPT !.recipient = to]
<1>1. s \in Stream
  BY DEF Sound
<1>2. u \in Stream
  BY <1>1 DEF Stream
<1>3. /\ u.sender = s.sender /\ u.recipient = to
      /\ u.withdrawn = s.withdrawn /\ u.status = s.status
      /\ u.paused_at = s.paused_at /\ u.paused_total = s.paused_total
      /\ SameSchedule(s, u)
  BY <1>1 DEF Stream, SameSchedule
<1> HIDE DEF u
<1>4. Vested(u, t) = Vested(s, t) /\ u.deposited = s.deposited
  BY <1>3, VestedReadsSchedule DEF StreamTime, SameSchedule
<1>5. PartiesDiffer(u)
  BY <1>3 DEF PartiesDiffer
<1>6. OwesWhileLive(u)
  BY <1>3, <1>4 DEF Sound, OwesWhileLive, Terminal
<1>7. PauseCoherent(u, t)
  BY <1>3 DEF Sound, PauseCoherent
<1>8. MaturedIfSettled(u, t)
  BY <1>3, <1>4 DEF Sound, MaturedIfSettled, Terminal
<1> QED
  BY <1>2, <1>5, <1>6, <1>7, <1>8 DEF Sound, u

(* A settled record has no dust: the whole of its tail can be withdrawn.   *)
LEMMA SettledHasNoDust ==
  ASSUME NEW s, NEW t \in Nat, Sound(s, t), Terminal(s)
  PROVE  Greatest(Liability(s) - Withdrawable(s, t), 0) = 0
<1>1. /\ Vested(s, t) = s.deposited
      /\ s.deposited \in Nat /\ s.withdrawn \in Nat
  BY StreamFields DEF Sound, MaturedIfSettled
<1> QED
  BY <1>1 DEF Liability, Withdrawable, Greatest

(* Taking nothing from the deposit leaves the record as it was.          *)
LEMMA NothingTaken ==
  ASSUME NEW s \in Stream
  PROVE  [s EXCEPT !.deposited = @ - 0] = s
BY DEF Stream

-----------------------------------------------------------------------------
(* Operations one after the other.                                         *)

(* However a recipient splits what it draws, and whatever time passes in   *)
(* between, the record left is that of one draw of the sum.                *)
THEOREM DrawsAddUp ==
  ASSUME NEW s \in Stream, NEW t1, NEW t2,
         NEW a \in Nat, NEW b \in Nat, b > 0, a + b <= s.deposited - s.withdrawn
  PROVE  PaidOut(PaidOut(s, a, t1), b, t2) = PaidOut(s, a + b, t2)
<1>1. s.deposited \in Nat /\ s.withdrawn \in Nat
  BY StreamFields
<1> DEFINE m == [s EXCEPT !.withdrawn = @ + a]
<1>2. PaidOut(s, a, t1) = m
  <2>1. ~ (s.withdrawn + a >= s.deposited)
    BY <1>1
  <2> QED
    BY <2>1 DEF PaidOut
<1>3. /\ m.withdrawn = s.withdrawn + a /\ m.deposited = s.deposited
      /\ m.status = s.status /\ m.paused_at = s.paused_at
      /\ PauseServed(m, t2) = PauseServed(s, t2)
      /\ [m EXCEPT !.withdrawn = @ + b] = [s EXCEPT !.withdrawn = @ + (a + b)]
  <2>1. (s.withdrawn + a) + b = s.withdrawn + (a + b)
    BY <1>1
  <2> QED
    BY <2>1 DEF Stream, PauseServed
<1>4. m.withdrawn + b = s.withdrawn + (a + b)
  BY <1>1, <1>3
<1> HIDE DEF m
<1>5. PaidOut(m, b, t2) = PaidOut(s, a + b, t2)
  BY <1>3, <1>4 DEF PaidOut
<1> QED
  BY <1>2, <1>5

(* A pause that is resumed in the same ledger leaves no trace.             *)
THEOREM PauseAndResumeCancelOut ==
  ASSUME NEW s, NEW t \in Nat, Sound(s, t), s.status = "Active"
  PROVE  Resumed(Paused(s, t), t) = s
<1>1. s \in Stream /\ s.paused_at = None /\ s.paused_total \in Nat
  BY StreamFields DEF Sound, PauseCoherent
<1> DEFINE p == Paused(s, t)
<1>2. /\ p.paused_at = t /\ p.paused_total = s.paused_total
      /\ p = [s EXCEPT !.paused_at = t, !.status = "Paused"]
  BY <1>1 DEF Paused, Stream
<1>3. PauseServed(p, t) = s.paused_total
  BY <1>1, <1>2 DEF PauseServed, SatSub
<1> QED
  BY <1>1, <1>2, <1>3 DEF Resumed, Stream

(* A pause delays a schedule by exactly its own length: from then on the   *)
(* stream shows what it would have shown that much earlier.  (The gate of  *)
(* a WallClock cliff is a date, and does not move.)                        *)
THEOREM PausesDelayExactly ==
  ASSUME NEW s, NEW p \in Nat, Sound(s, p), s.status = "Active",
         s.cliff_mode = "Schedule",
         NEW r \in Nat, p <= r, NEW t \in Nat, r <= t
  PROVE  Vested(Resumed(Paused(s, p), r), t) = Vested(s, t - (r - p))
<1>1. s \in Stream /\ s.paused_at = None /\ s.paused_total \in Nat
  BY StreamFields DEF Sound, PauseCoherent
<1> DEFINE u == Resumed(Paused(s, p), r)
           e == t - (r - p)
<1>2. /\ u.paused_at = None /\ u.paused_total = s.paused_total + (r - p)
      /\ u.deposited = s.deposited /\ u.start_time = s.start_time
      /\ u.end_time = s.end_time /\ u.cliff_time = s.cliff_time
      /\ u.cliff_mode = s.cliff_mode /\ u.curve = s.curve
  <2>1. PauseServed(Paused(s, p), r) = s.paused_total + (r - p)
    BY <1>1 DEF PauseServed, Paused, SatSub, Stream
  <2> QED
    BY <1>1, <2>1 DEF Resumed, Paused, Stream
<1>3. StreamTime(u, t) = StreamTime(s, e)
  <2>1. /\ StreamTime(u, t) = SatSub(t, s.paused_total + (r - p))
        /\ StreamTime(s, e) = SatSub(e, s.paused_total)
    BY <1>1, <1>2 DEF StreamTime
  <2> QED
    BY <1>1, <2>1 DEF SatSub
<1> HIDE DEF u, e
<1>4. /\ Elapsed(u, t) = Elapsed(s, e) /\ Duration(u) = Duration(s)
      /\ CliffReached(u, t) <=> CliffReached(s, e)
  BY <1>2, <1>3 DEF Elapsed, Duration, CliffReached
<1>5. Released(u, t) = Released(s, e)
  BY <1>2, <1>4 DEF Released
<1>6. Vested(u, t) = Vested(s, e)
  BY <1>4, <1>5 DEF Vested
<1> QED
  BY <1>6 DEF u, e

(* The arithmetic of two top-ups: d and e seconds for a and then b on a    *)
(* deposit D over T seconds are no more than the seconds for a + b.        *)
LEMMA TwoExtensions ==
  ASSUME NEW D \in Nat, D > 0, NEW T \in Nat, NEW a \in Nat, NEW b \in Nat,
         NEW d \in Nat, D * d <= a * T,
         NEW e \in Nat, (D + a) * e <= b * (T + d)
  PROVE  D * (d + e) <= (a + b) * T
<1>1. D * ((D + a) * e) <= D * (b * (T + d))
  <2>1. (D + a) * e \in Nat /\ b * (T + d) \in Nat
    BY SMT
  <2> QED
    BY <2>1, TimesMonotone
<1>2. b * (D * (T + d)) <= b * ((D + a) * T)
  <2>1. /\ D * (T + d) = D * T + D * d /\ (D + a) * T = D * T + a * T
        /\ D * T \in Nat /\ D * d \in Nat /\ a * T \in Nat
    BY SMT
  <2>2. D * (T + d) \in Nat /\ (D + a) * T \in Nat /\ D * (T + d) <= (D + a) * T
    BY <2>1
  <2> QED
    BY <2>2, TimesMonotone
<1>3. /\ D * ((D + a) * e) = (D + a) * (D * e)
      /\ D * (b * (T + d)) = b * (D * (T + d))
      /\ b * ((D + a) * T) = (D + a) * (b * T)
      /\ (D + a) * (D * e) \in Int /\ b * (D * (T + d)) \in Int
      /\ (D + a) * (b * T) \in Int
  BY SMT
<1>4. (D + a) * (D * e) <= (D + a) * (b * T)
  BY <1>1, <1>2, <1>3
<1>5. D * e \in Int /\ b * T \in Int /\ D + a \in Nat /\ D + a > 0
  BY SMT
<1>6. D * e <= b * T
  BY <1>4, <1>5, TimesCancel
<1>7. /\ D * (d + e) = D * d + D * e /\ (a + b) * T = a * T + b * T
      /\ D * d \in Int /\ a * T \in Int
  BY SMT
<1> QED
  BY <1>5, <1>6, <1>7

(* Splitting a top-up of a linear stream never delays its recipient: the   *)
(* amounts are the same and the end is no later, although each extension   *)
(* is rounded against a deposit that the one before has grown.             *)
THEOREM SplitTopUpsEndNoLater ==
  ASSUME NEW s \in Stream, s.curve = "Linear", s.deposited > 0,
         s.start_time <= s.end_time, NEW a \in Nat, NEW b \in Nat
  PROVE  LET once  == Extended(s, a + b, TopUpDelta(s, a + b))
             first == Extended(s, a, TopUpDelta(s, a))
             twice == Extended(first, b, TopUpDelta(first, b))
         IN  twice.deposited = once.deposited /\ twice.end_time <= once.end_time
<1> DEFINE D == s.deposited
           T == s.end_time - s.start_time
           d == TopUpDelta(s, a)
           first == Extended(s, a, d)
           e == TopUpDelta(first, b)
           f == TopUpDelta(s, a + b)
<1>1. /\ s.deposited = D /\ D \in Nat /\ D > 0
      /\ s.start_time \in Nat /\ s.end_time \in Nat /\ T \in Nat
      /\ s.end_time = s.start_time + T
  BY StreamFields
<1>2. Duration(s) = T
  BY <1>1 DEF Duration, SatSub
<1> HIDE DEF D, T
<1>3. a * T \in Nat /\ (a + b) * T \in Nat
  BY <1>1, SMT
<1>4. d = (a * T) \div D /\ f = ((a + b) * T) \div D
  BY <1>1, <1>2 DEF TopUpDelta, RateDelta
<1> HIDE DEF d, f
<1>5. d \in Nat /\ D * d <= a * T /\ f \in Nat
  BY <1>1, <1>3, <1>4, DivOfNat, DivBounds
<1>6. /\ first.deposited = D + a /\ first.end_time = s.end_time + d
      /\ first.start_time = s.start_time /\ first.curve = "Linear"
  BY <1>1 DEF Extended, Stream
<1>7. Duration(first) = T + d
  BY <1>1, <1>5, <1>6 DEF Duration, SatSub
<1>8. e = (b * (T + d)) \div (D + a)
  BY <1>6, <1>7 DEF TopUpDelta, RateDelta
<1>9. e \in Nat /\ (D + a) * e <= b * (T + d)
  <2>1. b * (T + d) \in Nat /\ D + a \in Nat /\ D + a > 0
    BY <1>1, <1>5, SMT
  <2> QED
    BY <1>8, <2>1, DivOfNat, DivBounds
<1>10. /\ Extended(first, b, e).deposited = (D + a) + b
       /\ Extended(first, b, e).end_time = (s.end_time + d) + e
       /\ Extended(s, a + b, f).deposited = D + (a + b)
       /\ Extended(s, a + b, f).end_time = s.end_time + f
  <2>1. DOMAIN first = DOMAIN s
    BY DEF Extended
  <2> HIDE DEF e
  <2> QED
    BY <1>1, <1>6, <2>1 DEF Extended, Stream
<1> HIDE DEF first, e
<1>11. D * (d + e) <= (a + b) * T
  BY <1>1, <1>5, <1>9, TwoExtensions
<1>12. f >= d + e
  <2>1. d + e \in Nat
    BY <1>5, <1>9
  <2> QED
    BY <1>1, <1>3, <1>4, <1>11, <2>1, DivAtLeast
<1>13. /\ Extended(first, b, e).deposited = Extended(s, a + b, f).deposited
       /\ Extended(first, b, e).end_time <= Extended(s, a + b, f).end_time
  BY <1>1, <1>5, <1>9, <1>10, <1>12
<1> QED
  BY <1>13 DEF first, d, e, f, D, T

-----------------------------------------------------------------------------
(* Induction on the naturals, as a statement about a set.                  *)
LEMMA NatSetInduction ==
  ASSUME NEW S, 0 \in S, \A n \in Nat : n \in S => n + 1 \in S
  PROVE  Nat \subseteq S
<1> DEFINE T == {n \in Nat : n \notin S}
<1>1. SUFFICES ASSUME T # {} PROVE FALSE
  OBVIOUS
<1>2. PICK x \in T : \A y \in T : ~ (<<y, x>> \in OpToRel(<, Nat))
  <2>1. IsWellFoundedOn(OpToRel(<, Nat), Nat)
    BY NatLessThanWellFounded
  <2>2. T \subseteq Nat
    OBVIOUS
  <2> HIDE DEF T
  <2> QED
    BY <1>1, <2>1, <2>2, WFMin
<1>3. x - 1 \in T /\ x - 1 < x
  OBVIOUS
<1>4. <<x - 1, x>> \in OpToRel(<, Nat)
  BY <1>3 DEF OpToRel
<1> QED
  BY <1>2, <1>3, <1>4

-----------------------------------------------------------------------------
(* g lists the partial sums of f up to n.                                  *)
PartialSums(g, f, n) ==
  g = [k \in 0 .. n |-> IF k = 0 THEN 0 ELSE g[k - 1] + f[k]]

Summable(f, n) == \A k \in 1 .. n : f[k] \in Int

(* Every list of integers has partial sums.                              *)
LEMMA PartialSumsExist ==
  ASSUME NEW f, NEW n \in Nat, Summable(f, n)
  PROVE  \E g \in [0 .. n -> Int] : PartialSums(g, f, n)
<1> DEFINE S == {m \in Nat : m <= n => \E g \in [0 .. m -> Int] : PartialSums(g, f, m)}
<1>1. 0 \in S
  <2> DEFINE g == [k \in 0 .. 0 |-> 0]
  <2>1. g \in [0 .. 0 -> Int] /\ PartialSums(g, f, 0)
    BY DEF PartialSums
  <2> QED
    BY <2>1
<1>2. ASSUME NEW m \in Nat, m \in S
      PROVE  m + 1 \in S
  <2>1. SUFFICES ASSUME m + 1 <= n
                 PROVE  \E g \in [0 .. m + 1 -> Int] : PartialSums(g, f, m + 1)
    OBVIOUS
  <2>2. PICK g \in [0 .. m -> Int] : PartialSums(g, f, m)
    BY <1>2, <2>1
  <2>3. f[m + 1] \in Int
    BY <2>1 DEF Summable
  <2> DEFINE h == [k \in 0 .. m + 1 |-> IF k = m + 1 THEN g[m] + f[m + 1] ELSE g[k]]
  <2>4. h \in [0 .. m + 1 -> Int]
    BY <2>3
  <2>5. ASSUME NEW k \in 0 .. m + 1
        PROVE  h[k] = IF k = 0 THEN 0 ELSE h[k - 1] + f[k]
    <3>1. \A j \in 0 .. m : g[j] = IF j = 0 THEN 0 ELSE g[j - 1] + f[j]
      BY <2>2, Zenon DEF PartialSums
    <3>2. CASE k = m + 1
      BY <3>2
    <3>3. CASE k \in 0 .. m
      BY <3>1, <3>3
    <3> QED
      BY <3>2, <3>3
  <2>6. PartialSums(h, f, m + 1)
    BY <2>5 DEF PartialSums
  <2> QED
    BY <2>4, <2>6
<1> HIDE DEF S
<1>3. Nat \subseteq S
  BY <1>1, <1>2, NatSetInduction
<1> QED
  BY <1>3 DEF S

(* Two lists of partial sums of one list agree where both are defined.   *)
LEMMA PartialSumsUnique ==
  ASSUME NEW f, NEW n \in Nat, NEW m \in Nat, m <= n,
         NEW g, PartialSums(g, f, n), NEW h, PartialSums(h, f, m)
  PROVE  \A k \in 0 .. m : g[k] = h[k]
<1> DEFINE S == {k \in Nat : k <= m => g[k] = h[k]}
<1>1. /\ \A k \in 0 .. n : g[k] = IF k = 0 THEN 0 ELSE g[k - 1] + f[k]
      /\ \A k \in 0 .. m : h[k] = IF k = 0 THEN 0 ELSE h[k - 1] + f[k]
  BY Zenon DEF PartialSums
<1>2. 0 \in S
  BY <1>1
<1>3. ASSUME NEW k \in Nat, k \in S
      PROVE  k + 1 \in S
  <2>1. SUFFICES ASSUME k + 1 <= m
                 PROVE  g[k + 1] = h[k + 1]
    OBVIOUS
  <2>2. k + 1 \in 0 .. n /\ k + 1 \in 0 .. m /\ k + 1 # 0 /\ (k + 1) - 1 = k
    BY <2>1
  <2>3. g[k] = h[k]
    BY <1>3, <2>1
  <2>4. g[k + 1] = g[k] + f[k + 1] /\ h[k + 1] = h[k] + f[k + 1]
    BY <1>1, <2>2
  <2> QED
    BY <2>3, <2>4
<1> HIDE DEF S
<1>4. Nat \subseteq S
  BY <1>2, <1>3, NatSetInduction
<1> QED
  BY <1>4 DEF S

(* SumTo is the last of any list of partial sums.                          *)
LEMMA SumToLast ==
  ASSUME NEW f, NEW n \in Nat, Summable(f, n), NEW m \in 0 .. n,
         NEW g, PartialSums(g, f, n)
  PROVE  SumTo(f, m) = g[m]
<1> DEFINE total == CHOOSE t : PartialSums(t, f, m)
<1>1. Summable(f, m)
  BY DEF Summable
<1>2. \E t : PartialSums(t, f, m)
  BY <1>1, PartialSumsExist
<1>3. PartialSums(total, f, m)
  BY <1>2, Zenon
<1>4. SumTo(f, m) = total[m]
  BY DEF SumTo, PartialSums
<1> HIDE DEF total
<1>5. \A k \in 0 .. m : g[k] = total[k]
  BY <1>3, PartialSumsUnique
<1> QED
  BY <1>4, <1>5

-----------------------------------------------------------------------------
(* The recursion SumTo stands for.                                         *)
THEOREM SumToRecursion ==
  ASSUME NEW f, NEW n \in Nat, Summable(f, n)
  PROVE  /\ SumTo(f, 0) = 0
         /\ \A k \in 1 .. n : SumTo(f, k) = SumTo(f, k - 1) + f[k]
         /\ \A k \in 0 .. n : SumTo(f, k) \in Int
<1>1. PICK g \in [0 .. n -> Int] : PartialSums(g, f, n)
  BY PartialSumsExist
<1>2. \A k \in 0 .. n : SumTo(f, k) = g[k]
  BY <1>1, SumToLast
<1>3. \A k \in 0 .. n : g[k] = IF k = 0 THEN 0 ELSE g[k - 1] + f[k]
  BY <1>1, Zenon DEF PartialSums
<1>4. 0 \in 0 .. n /\ \A k \in 1 .. n : k \in 0 .. n /\ k - 1 \in 0 .. n /\ k # 0
  OBVIOUS
<1>5. SumTo(f, 0) = 0
  BY <1>2, <1>3, <1>4
<1>6. ASSUME NEW k \in 1 .. n
      PROVE  SumTo(f, k) = SumTo(f, k - 1) + f[k]
  BY <1>2, <1>3, <1>4
<1> QED
  BY <1>1, <1>2, <1>5, <1>6

(* A sum of integers is an integer.                                      *)
LEMMA SumToType ==
  ASSUME NEW f, NEW n \in Nat, Summable(f, n)
  PROVE  SumTo(f, n) \in Int
BY SumToRecursion

(* The beginning of a list that can be summed can be summed.             *)
LEMMA SumToPrefix ==
  ASSUME NEW f, NEW n \in Nat, Summable(f, n), NEW m \in 0 .. n
  PROVE  Summable(f, m)
BY DEF Summable

(* A sum of nothing is nothing.                                            *)
LEMMA SumToNone ==
  ASSUME NEW f, NEW n \in Nat, \A k \in 1 .. n : f[k] = 0
  PROVE  SumTo(f, n) = 0
<1> DEFINE S == {k \in Nat : k <= n => SumTo(f, k) = 0}
<1>1. Summable(f, n)
  BY DEF Summable
<1>2. 0 \in S
  BY <1>1, SumToRecursion
<1>3. ASSUME NEW k \in Nat, k \in S
      PROVE  k + 1 \in S
  <2>1. SUFFICES ASSUME k + 1 <= n
                 PROVE  SumTo(f, k + 1) = 0
    OBVIOUS
  <2>2. SumTo(f, k) = 0
    BY <1>3, <2>1
  <2>3. k + 1 \in 1 .. n /\ (k + 1) - 1 = k
    BY <2>1
  <2>4. SumTo(f, k + 1) = SumTo(f, k) + f[k + 1]
    BY <1>1, <2>3, SumToRecursion
  <2> QED
    BY <2>2, <2>3, <2>4
<1> HIDE DEF S
<1>4. Nat \subseteq S
  BY <1>2, <1>3, NatSetInduction
<1> QED
  BY <1>4 DEF S

(* A sum of naturals is a natural.                                         *)
LEMMA SumToNat ==
  ASSUME NEW f, NEW n \in Nat, \A k \in 1 .. n : f[k] \in Nat
  PROVE  SumTo(f, n) \in Nat
<1> DEFINE S == {k \in Nat : k <= n => SumTo(f, k) \in Nat}
<1>1. Summable(f, n)
  BY DEF Summable
<1>2. 0 \in S
  BY <1>1, SumToRecursion
<1>3. ASSUME NEW k \in Nat, k \in S
      PROVE  k + 1 \in S
  <2>1. SUFFICES ASSUME k + 1 <= n
                 PROVE  SumTo(f, k + 1) \in Nat
    OBVIOUS
  <2>2. SumTo(f, k) \in Nat
    BY <1>3, <2>1
  <2>3. k + 1 \in 1 .. n /\ (k + 1) - 1 = k
    BY <2>1
  <2>4. SumTo(f, k + 1) = SumTo(f, k) + f[k + 1]
    BY <1>1, <2>3, SumToRecursion
  <2> QED
    BY <2>2, <2>3, <2>4
<1> HIDE DEF S
<1>4. Nat \subseteq S
  BY <1>2, <1>3, NatSetInduction
<1> QED
  BY <1>4 DEF S

(* Lists that differ by at most one entry.                                 *)
THEOREM SumToChange ==
  ASSUME NEW f, NEW g, NEW n \in Nat, Summable(f, n), Summable(g, n),
         NEW j \in 1 .. n, \A k \in 1 .. n : k # j => g[k] = f[k]
  PROVE  SumTo(g, n) = SumTo(f, n) + (g[j] - f[j])
<1> DEFINE S == {k \in Nat : k <= n =>
                   SumTo(g, k) = SumTo(f, k) + (IF k < j THEN 0 ELSE g[j] - f[j])}
<1>1. f[j] \in Int /\ g[j] \in Int
  BY DEF Summable
<1>2. 0 \in S
  <2>1. SumTo(f, 0) = 0 /\ SumTo(g, 0) = 0
    BY SumToRecursion
  <2> QED
    BY <2>1
<1>3. ASSUME NEW k \in Nat, k \in S
      PROVE  k + 1 \in S
  <2>1. SUFFICES ASSUME k + 1 <= n
                 PROVE  SumTo(g, k + 1) =
                          SumTo(f, k + 1) + (IF k + 1 < j THEN 0 ELSE g[j] - f[j])
    OBVIOUS
  <2>2. SumTo(g, k) = SumTo(f, k) + (IF k < j THEN 0 ELSE g[j] - f[j])
    BY <1>3, <2>1
  <2>3. k + 1 \in 1 .. n /\ (k + 1) - 1 = k /\ k \in 0 .. n
    BY <2>1
  <2>4. /\ SumTo(f, k + 1) = SumTo(f, k) + f[k + 1]
        /\ SumTo(g, k + 1) = SumTo(g, k) + g[k + 1]
    BY <2>3, SumToRecursion
  <2>5. /\ SumTo(f, k) \in Int /\ SumTo(g, k) \in Int
        /\ f[k + 1] \in Int /\ g[k + 1] \in Int
    BY <2>3, SumToRecursion DEF Summable
  <2>6. CASE k + 1 = j
    BY <1>1, <2>2, <2>4, <2>5, <2>6
  <2>7. CASE k + 1 # j
    <3>1. g[k + 1] = f[k + 1]
      BY <2>3, <2>7
    <3> QED
      BY <1>1, <2>2, <2>4, <2>5, <2>7, <3>1
  <2> QED
    BY <2>6, <2>7
<1> HIDE DEF S
<1>4. Nat \subseteq S
  BY <1>2, <1>3, NatSetInduction
<1>5. SumTo(g, n) = SumTo(f, n) + (IF n < j THEN 0 ELSE g[j] - f[j])
  BY <1>4 DEF S
<1> QED
  BY <1>5

(* Lists that agree entry by entry.                                        *)
LEMMA SumToAgree ==
  ASSUME NEW f, NEW g, NEW n \in Nat, Summable(f, n),
         \A k \in 1 .. n : g[k] = f[k]
  PROVE  SumTo(g, n) = SumTo(f, n)
<1> DEFINE S == {k \in Nat : k <= n => SumTo(g, k) = SumTo(f, k)}
<1>1. Summable(g, n)
  BY DEF Summable
<1>2. 0 \in S
  BY <1>1, SumToRecursion
<1>3. ASSUME NEW k \in Nat, k \in S
      PROVE  k + 1 \in S
  <2>1. SUFFICES ASSUME k + 1 <= n
                 PROVE  SumTo(g, k + 1) = SumTo(f, k + 1)
    OBVIOUS
  <2>2. k + 1 \in 1 .. n /\ (k + 1) - 1 = k /\ SumTo(g, k) = SumTo(f, k)
    BY <1>3, <2>1
  <2>3. /\ SumTo(f, k + 1) = SumTo(f, k) + f[k + 1]
        /\ SumTo(g, k + 1) = SumTo(g, k) + g[k + 1]
    BY <1>1, <2>2, SumToRecursion
  <2> QED
    BY <2>2, <2>3
<1> HIDE DEF S
<1>4. Nat \subseteq S
  BY <1>2, <1>3, NatSetInduction
<1> QED
  BY <1>4 DEF S

(* g is the n entries of f, then the m entries of h.                       *)
Appended(f, n, h, m, g) ==
  /\ \A k \in 1 .. n : g[k] = f[k]
  /\ \A k \in 1 .. m : g[n + k] = h[k]

(* One list after another.                                                 *)
THEOREM SumToAppend ==
  ASSUME NEW f, NEW n \in Nat, Summable(f, n), NEW h, NEW m \in Nat, Summable(h, m),
         NEW g, Summable(g, n + m), Appended(f, n, h, m, g)
  PROVE  SumTo(g, n + m) = SumTo(f, n) + SumTo(h, m)
<1> USE DEF Appended
<1> DEFINE S == {k \in Nat : k <= m => SumTo(g, n + k) = SumTo(f, n) + SumTo(h, k)}
<1>1. 0 \in S
  <2>1. SumTo(h, 0) = 0
    BY SumToRecursion
  <2>2. SumTo(g, n) = SumTo(f, n) /\ SumTo(f, n) \in Int
    BY SumToAgree, SumToType
  <2> QED
    BY <2>1, <2>2
<1>2. ASSUME NEW k \in Nat, k \in S
      PROVE  k + 1 \in S
  <2>1. SUFFICES ASSUME k + 1 <= m
                 PROVE  SumTo(g, n + (k + 1)) = SumTo(f, n) + SumTo(h, k + 1)
    OBVIOUS
  <2>2. SumTo(g, n + k) = SumTo(f, n) + SumTo(h, k)
    BY <1>2, <2>1
  <2> DEFINE last == n + (k + 1)
  <2>3. /\ k + 1 \in 1 .. m /\ (k + 1) - 1 = k /\ k \in 0 .. m
        /\ last \in 1 .. (n + m) /\ last - 1 = n + k
    BY <2>1
  <2>4. SumTo(h, k + 1) = SumTo(h, k) + h[k + 1]
    BY <2>3, SumToRecursion
  <2>5. g[last] = h[k + 1]
    BY <2>3
  <2> HIDE DEF last
  <2>6. SumTo(g, last) = SumTo(g, last - 1) + g[last]
    BY <2>3, SumToRecursion
  <2>7. SumTo(f, n) \in Int /\ SumTo(h, k) \in Int /\ h[k + 1] \in Int
    BY <2>3, SumToRecursion, SumToType DEF Summable
  <2>8. SumTo(g, last) = SumTo(f, n) + SumTo(h, k + 1)
    BY <2>2, <2>3, <2>4, <2>5, <2>6, <2>7
  <2> QED
    BY <2>8 DEF last
<1> HIDE DEF S
<1>3. Nat \subseteq S
  BY <1>1, <1>2, NatSetInduction
<1> QED
  BY <1>3 DEF S

(* g is f with m distinct entries lowered, the one at place[k] by d[k].    *)
Scattered(f, g, n, place, d, m) ==
  /\ \A k \in 1 .. m : place[k] \in 1 .. n /\ g[place[k]] = f[place[k]] - d[k]
  /\ \A j, k \in 1 .. m : place[j] = place[k] => j = k
  /\ \A j \in 1 .. n : (\A k \in 1 .. m : place[k] # j) => g[j] = f[j]

(* Lists that differ at distinct places.                                   *)
THEOREM SumToScatter ==
  ASSUME NEW f, NEW g, NEW n \in Nat, Summable(f, n), Summable(g, n),
         NEW place, NEW d, NEW m \in Nat, Summable(d, m),
         Scattered(f, g, n, place, d, m)
  PROVE  SumTo(g, n) = SumTo(f, n) - SumTo(d, m)
<1> USE DEF Scattered
<1> DEFINE mix(k) == [j \in 1 .. n |-> IF \E q \in 1 .. k : place[q] = j
                                       THEN g[j] ELSE f[j]]
           S == {k \in Nat : k <= m => SumTo(mix(k), n) = SumTo(f, n) - SumTo(d, k)}
<1>1. \A k \in Nat : Summable(mix(k), n)
  BY DEF Summable
<1>2. 0 \in S
  <2>1. \A j \in 1 .. n : mix(0)[j] = f[j]
    OBVIOUS
  <2> HIDE DEF mix
  <2>2. SumTo(mix(0), n) = SumTo(f, n)
    BY <2>1, SumToAgree
  <2>3. SumTo(d, 0) = 0 /\ SumTo(f, n) \in Int
    BY SumToRecursion, SumToType
  <2> QED
    BY <2>2, <2>3
<1>3. ASSUME NEW k \in Nat, k \in S
      PROVE  k + 1 \in S
  <2>1. SUFFICES ASSUME k + 1 <= m
                 PROVE  SumTo(mix(k + 1), n) = SumTo(f, n) - SumTo(d, k + 1)
    OBVIOUS
  <2> DEFINE p == place[k + 1]
  <2>2. SumTo(mix(k), n) = SumTo(f, n) - SumTo(d, k)
    BY <1>3, <2>1
  <2>3. /\ k + 1 \in 1 .. m /\ (k + 1) - 1 = k /\ k \in 0 .. m
        /\ p \in 1 .. n /\ g[p] = f[p] - d[k + 1]
    BY <2>1
  <2>4. \A q \in 1 .. k : place[q] # p
    BY <2>1, <2>3
  <2>5. mix(k)[p] = f[p]
    BY <2>3, <2>4
  <2>6. mix(k + 1)[p] = g[p]
    BY <2>3
  <2>7. \A j \in 1 .. n : j # p => mix(k + 1)[j] = mix(k)[j]
    OBVIOUS
  <2>8. SumTo(d, k + 1) = SumTo(d, k) + d[k + 1]
    BY <2>3, SumToRecursion
  <2>9. SumTo(f, n) \in Int /\ SumTo(d, k) \in Int /\ d[k + 1] \in Int /\ f[p] \in Int
    BY <2>3, SumToRecursion, SumToType DEF Summable
  <2>10. Summable(mix(k), n) /\ Summable(mix(k + 1), n)
    <3> HIDE DEF mix
    <3>1. k + 1 \in Nat
      OBVIOUS
    <3> QED
      BY <1>1, <3>1
  <2> HIDE DEF mix, p
  <2>11. SumTo(mix(k + 1), n) = SumTo(mix(k), n) + (mix(k + 1)[p] - mix(k)[p])
    BY <2>3, <2>7, <2>10, SumToChange
  <2> QED
    BY <2>2, <2>3, <2>5, <2>6, <2>8, <2>9, <2>11
<1>4. \A j \in 1 .. n : g[j] = mix(m)[j]
  OBVIOUS
<1>5. Summable(mix(m), n)
  BY <1>1
<1> HIDE DEF S, mix
<1>6. Nat \subseteq S
  BY <1>2, <1>3, NatSetInduction
<1>7. SumTo(mix(m), n) = SumTo(f, n) - SumTo(d, m)
  BY <1>6 DEF S
<1>8. SumTo(g, n) = SumTo(mix(m), n)
  BY <1>4, <1>5, SumToAgree
<1> QED
  BY <1>7, <1>8
=============================================================================
