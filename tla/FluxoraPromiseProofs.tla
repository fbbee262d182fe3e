------------------------- MODULE FluxoraPromiseProofs -------------------------
(***************************************************************************)
(* What the parties of a stream rely on, for every value of the constants. *)
(*                                                                         *)
(* On top of IInv: terms that bind for good (GuaranteesHold), the end of a *)
(* stream nobody can stop, arithmetic that never overflows, pauses that    *)
(* freeze, top-ups that gain at most a second, a halt that leaves only     *)
(* cancellations, and nothing done without the right signature.  And,      *)
(* where no delegate may top up a curved stream, that nothing earned is    *)
(* ever taken back and everything owed can be paid, which makes the        *)
(* contract an implementation of VestingPromise.                           *)
(***************************************************************************)
EXTENDS FluxoraPoolProofs

-----------------------------------------------------------------------------
(* The linear top-up.                                                      *)

(* An extension at no more than the stream's rate releases, in the same    *)
(* time c, at least the q that the old schedule did.                       *)
LEMMA RateKept ==
  ASSUME NEW D \in Nat, D > 0, NEW d \in Nat, d > 0, NEW a \in Nat, NEW c \in Nat,
         NEW delta \in Nat, NEW q \in Nat,
         d * q <= D * c, D * delta <= a * d
  PROVE  (d + delta) * q <= (D + a) * c
<1>1. (d * q) * (D * delta) <= (D * c) * (a * d)
  <2> DEFINE v == d * q
             w == D * c
             x == D * delta
             y == a * d
  <2>1. v \in Nat /\ w \in Nat /\ x \in Nat /\ y \in Nat /\ v <= w /\ x <= y
    OBVIOUS
  <2> HIDE DEF v, w, x, y
  <2>2. v * x <= w * x /\ w * x <= w * y
    BY <2>1, SMT
  <2>3. v * x \in Nat /\ w * x \in Nat /\ w * y \in Nat
    BY <2>1, SMT
  <2>4. v * x <= w * y
    BY <2>2, <2>3
  <2> QED
    BY <2>4 DEF v, w, x, y
<1>2. (d * q) * (D * delta) = (d * D) * (delta * q) /\ (D * c) * (a * d) = (d * D) * (a * c)
  BY SMT
<1> DEFINE p == d * D
           l == delta * q
           r == a * c
<1>3. p \in Nat /\ p > 0 /\ l \in Nat /\ r \in Nat
  BY SMT
<1>4. p * l <= p * r
  BY <1>1, <1>2
<1>5. l <= r
  <2> HIDE DEF p, l, r
  <2> SUFFICES ASSUME l > r PROVE FALSE
    BY <1>3
  <2>1. p * l >= p * (r + 1)
    BY <1>3, SMT
  <2>2. p * (r + 1) = p * r + p
    BY <1>3, SMT
  <2>3. p * l \in Nat /\ p * r \in Nat
    BY <1>3, SMT
  <2> QED
    BY <1>3, <1>4, <2>1, <2>2, <2>3
<1>6. (d + delta) * q = d * q + l /\ (D + a) * c = D * c + r
  BY SMT
<1> QED
  BY <1>5, <1>6, SMT

(* What a linear stream in progress has released.                          *)
LEMMA ReleasedInProgress ==
  ASSUME NEW s, NEW t, s.curve = "Linear",
         ~ (Duration(s) = 0 \/ Elapsed(s, t) >= Duration(s))
  PROVE  Released(s, t) = Least((s.deposited * Elapsed(s, t)) \div Duration(s), s.deposited)
BY DEF Released, VestedLinear

(* The lesser of two is no less than what neither is less than.            *)
LEMMA LeastAtLeast ==
  ASSUME NEW a \in Nat, NEW b \in Nat, NEW q \in Nat, a >= q, b >= q
  PROVE  Least(a, b) >= q
BY DEF Least

(* A linear stream topped up at its rate shows no less at any instant.     *)
LEMMA ExtendedVests ==
  ASSUME NEW s \in Stream, s.deposited > 0, s.curve = "Linear",
         NEW t \in Nat, NEW amount \in Nat, NEW delta \in Nat,
         delta = RateDelta(s, amount)
  PROVE  Vested(Extended(s, amount, delta), t) >= Vested(s, t)
<1> DEFINE u == Extended(s, amount, delta)
           D == s.deposited
           d == Duration(s)
           c == Elapsed(s, t)
           e == Duration(u)
           f == Elapsed(u, t)
<1>1. /\ D \in Nat /\ s.end_time \in Nat /\ s.start_time \in Nat
      /\ d \in Nat /\ c \in Nat /\ StreamTime(s, t) \in Nat
  BY StreamFields, ClockType
<1>2. /\ u.deposited = D + amount /\ u.curve = "Linear"
      /\ u.start_time = s.start_time /\ u.end_time = s.end_time + delta
      /\ StreamTime(u, t) = StreamTime(s, t)
      /\ CliffReached(u, t) <=> CliffReached(s, t)
  BY DEF Extended, Stream, StreamTime, CliffReached
<1> HIDE DEF u
<1>3. /\ e \in Nat /\ f \in Nat /\ d <= e /\ c <= f /\ c <= d
      /\ d > 0 => e = d + delta
  BY <1>1, <1>2 DEF Duration, Elapsed, SatSub, Least
<1>4. D * delta <= amount * d
  BY <1>1, DivBounds DEF RateDelta
<1>5. Released(s, t) \in 0 .. D
  BY ReleasedBounds
<1>6. Released(u, t) >= Released(s, t)
  <2>1. CASE e = 0 \/ f >= e
    <3>1. Released(u, t) = D + amount
      BY <1>2, <2>1 DEF Released
    <3> QED
      BY <1>1, <1>5, <3>1
  <2>2. CASE e > 0 /\ f < e /\ d = 0
    <3>1. delta = 0
      <4>1. amount * d = 0
        BY <2>2
      <4> QED
        BY <1>1, <1>4, <4>1, SMT
    <3>2. e = 0
      BY <1>1, <1>2, <2>2, <3>1 DEF Duration, SatSub
    <3> QED
      BY <2>2, <3>2
  <2>3. CASE e > 0 /\ f < e /\ d > 0
    <3> DEFINE q == Released(s, t)
               most == (D + amount) * f
    <3>1. q \in Nat /\ d * q <= D * c
      <4>1. CASE c >= d
        <5>1. c = d /\ q = D
          BY <1>1, <1>3, <4>1 DEF Released
        <5> HIDE DEF q, D, d, c
        <5>2. d * q = D * c
          BY <1>1, <5>1, SMT
        <5>3. D * c \in Nat
          BY <1>1, SMT
        <5> QED
          BY <1>1, <5>1, <5>2, <5>3
      <4>2. CASE c < d
        <5> DEFINE w == D * c
        <5>1. w \in Nat
          BY <1>1
        <5>2. q = Least(w \div d, D)
          <6>1. ~ (d = 0 \/ c >= d)
            BY <1>1, <2>3, <4>2
          <6> QED
            BY <6>1, ReleasedInProgress
        <5> HIDE DEF w
        <5>3. w \div d \in Nat /\ d * (w \div d) <= w
          BY <1>1, <2>3, <5>1, DivBounds, DivOfNat
        <5>4. q \in Nat /\ q <= w \div d
          BY <1>1, <5>2, <5>3 DEF Least
        <5> HIDE DEF q
        <5>5. d * q <= d * (w \div d)
          BY <1>1, <5>3, <5>4, TimesMonotone
        <5>6. d * q \in Nat /\ d * (w \div d) \in Nat
          BY <1>1, <5>3, <5>4, SMT
        <5> QED
          BY <5>1, <5>3, <5>4, <5>5, <5>6 DEF w
      <4> QED
        BY <1>1, <4>1, <4>2
    <3> HIDE DEF q
    <3>2. e * q <= (D + amount) * c
      BY <1>1, <1>3, <1>4, <2>3, <3>1, RateKept
    <3>3. (D + amount) * c <= most /\ most \in Nat /\ (D + amount) * c \in Nat
      BY <1>1, <1>3, TimesMonotone
    <3>4. e * q \in Nat
      BY <1>3, <3>1, SMT
    <3>5. e * q <= most
      BY <3>2, <3>3, <3>4
    <3> HIDE DEF most
    <3>6. most \div e >= q
      BY <1>3, <2>3, <3>1, <3>3, <3>5, DivAtLeast
    <3>7. Released(u, t) = Least(most \div e, D + amount)
      <4>1. ~ (e = 0 \/ f >= e)
        BY <1>3, <2>3
      <4> QED
        BY <1>2, <4>1, ReleasedInProgress DEF most
    <3>8. q <= D + amount /\ D + amount \in Nat
      BY <1>1, <1>5 DEF q
    <3>9. most \div e \in Nat
      BY <1>3, <2>3, <3>3, DivOfNat
    <3>10. Least(most \div e, D + amount) >= q
      BY <3>1, <3>6, <3>8, <3>9, LeastAtLeast
    <3> QED
      BY <3>7, <3>10 DEF q
  <2> QED
    BY <1>1, <1>3, <2>1, <2>2, <2>3
<1> QED
  BY <1>2, <1>6 DEF Vested, u

-----------------------------------------------------------------------------
(* One record: every call is one of the moves of VestingPromise, at the    *)
(* instant at which it is made.                                            *)

RestMove(s, u) ==
  /\ u.deposited = s.deposited /\ Vested(u, now) = Vested(s, now)
  /\ u.withdrawn = s.withdrawn /\ (Terminal(u) <=> Terminal(s))

FundMove(s, u) ==
  /\ ~ Terminal(s) /\ ~ Terminal(u)
  /\ u.deposited > s.deposited /\ Vested(u, now) >= Vested(s, now)
  /\ u.withdrawn = s.withdrawn

PayMove(s, u) ==
  /\ u.withdrawn \in s.withdrawn + 1 .. Vested(s, now)
  /\ (Terminal(u) <=> Terminal(s) \/ u.withdrawn = s.deposited)
  /\ u.deposited = s.deposited /\ Vested(u, now) = Vested(s, now)

CloseMove(s, u) ==
  /\ ~ Terminal(s) /\ Terminal(u)
  /\ u.deposited = Vested(s, now) /\ Vested(u, now) = Vested(s, now)
  /\ u.withdrawn = s.withdrawn

RecordMove(s, u) == RestMove(s, u) \/ FundMove(s, u) \/ PayMove(s, u) \/ CloseMove(s, u)

(* A payout changes no schedule and no clock.                              *)
LEMMA PaidOutMoves ==
  ASSUME now \in Nat, NEW s, Sound(s, now), NEW payout \in 1 .. Withdrawable(s, now)
  PROVE  PayMove(s, PaidOut(s, payout, now))
<1> DEFINE u == PaidOut(s, payout, now)
           drained == s.withdrawn + payout >= s.deposited /\ s.status # "Cancelled"
<1>1. s \in Stream /\ s.withdrawn \in Nat /\ s.deposited \in Nat
  BY StreamFields DEF Sound
<1>2. /\ payout \in Nat /\ payout > 0
      /\ s.withdrawn + payout <= Vested(s, now)
      /\ s.withdrawn + payout <= s.deposited
  BY <1>1, WithdrawableBounds
<1>3. /\ u.withdrawn = s.withdrawn + payout
      /\ SameSchedule(s, u)
      /\ u.status = IF drained THEN "Depleted" ELSE s.status
      /\ u.paused_at = IF drained THEN None ELSE s.paused_at
      /\ u.paused_total = IF drained /\ s.paused_at # None
                          THEN PauseServed(s, now) ELSE s.paused_total
  BY <1>1, <1>2, PaidOutFields
<1> HIDE DEF u
<1>4. StreamTime(u, now) = StreamTime(s, now)
  BY <1>1, <1>3, PauseServedKeepsClock DEF StreamTime
<1>5. Vested(u, now) = Vested(s, now) /\ u.deposited = s.deposited
  BY <1>3, <1>4, VestedReadsSchedule DEF SameSchedule
<1>6. (Terminal(u) <=> Terminal(s) \/ u.withdrawn = s.deposited)
  <2>1. CASE drained
    <3>1. u.withdrawn = s.deposited /\ u.status = "Depleted"
      BY <1>1, <1>2, <1>3, <2>1
    <3> QED
      BY <3>1 DEF Terminal
  <2>2. CASE ~ drained
    <3>1. u.status = s.status
      BY <1>3, <2>2
    <3>2. u.withdrawn = s.deposited => s.status = "Cancelled"
      BY <1>1, <1>2, <1>3, <2>2
    <3> QED
      BY <3>1, <3>2 DEF Terminal
  <2> QED
    BY <2>1, <2>2
<1>7. Vested(s, now) \in Nat
  BY <1>1, VestedBounds
<1>8. u.withdrawn \in s.withdrawn + 1 .. Vested(s, now)
  BY <1>1, <1>2, <1>3, <1>7
<1> QED
  BY <1>5, <1>6, <1>8 DEF PayMove, u

(* Pausing and resuming do not move the stream's clock.                    *)
LEMMA PausingKeepsClock ==
  ASSUME now \in Nat, NEW s, Sound(s, now), NEW u,
         \/ MayPause(s) /\ u = Paused(s, now)
         \/ MayResume(s) /\ u = Resumed(s, now)
  PROVE  StreamTime(u, now) = StreamTime(s, now)
<1>1. s \in Stream
  BY DEF Sound
<1>2. CASE MayPause(s) /\ u = Paused(s, now)
  <2>1. s.paused_at = None
    BY <1>2 DEF MayPause, Sound, PauseCoherent
  <2>2. u.paused_at = now /\ u.paused_total = s.paused_total
    BY <1>1, <1>2 DEF Paused, Stream
  <2> QED
    BY <2>1, <2>2 DEF StreamTime, None
<1>3. CASE MayResume(s) /\ u = Resumed(s, now)
  <2>1. u.paused_at = None /\ u.paused_total = PauseServed(s, now)
    BY <1>1, <1>3 DEF Resumed, Stream
  <2> QED
    BY <1>3, <2>1, PauseServedKeepsClock DEF MayResume
<1> QED
  BY <1>2, <1>3

(* Nor the schedule: the stream is as it was.                              *)
LEMMA PausingRests ==
  ASSUME now \in Nat, NEW s, Sound(s, now), NEW u,
         \/ MayPause(s) /\ u = Paused(s, now)
         \/ MayResume(s) /\ u = Resumed(s, now)
  PROVE  RestMove(s, u)
<1>1. s \in Stream
  BY DEF Sound
<1>2. SameSchedule(s, u) /\ u.withdrawn = s.withdrawn /\ (Terminal(u) <=> Terminal(s))
  <2>1. SameSchedule(s, u) /\ u.withdrawn = s.withdrawn
    BY <1>1, PausingLeaves
  <2>2. ~ Terminal(s) /\ ~ Terminal(u)
    BY <1>1 DEF MayPause, MayResume, Paused, Resumed, Stream, Terminal
  <2>3. (Terminal(u) <=> Terminal(s))
    BY <2>2
  <2> QED
    BY <2>1, <2>3
<1>3. Vested(u, now) = Vested(s, now)
  BY <1>2, PausingKeepsClock, VestedReadsSchedule
<1> QED
  BY <1>2, <1>3 DEF RestMove, SameSchedule

(* A top-up that is not a delegate's of a curved stream funds it.          *)
LEMMA TopUpFunds ==
  ASSUME now \in Nat, NEW s, Sound(s, now), NEW u, ToppedUpStep(s, u),
         s.curve = "Linear" \/ ~ TopUpDelegated
  PROVE  FundMove(s, u)
<1>1. PICK amount \in Nat, delta \in Nat :
        /\ amount > 0
        /\ s.curve = "Linear" => delta = RateDelta(s, amount)
        /\ u = Extended(s, amount, delta)
  BY DEF ToppedUpStep
<1>2. s \in Stream /\ s.deposited \in Nat /\ s.deposited > 0 /\ ~ Terminal(s)
  <2>1. s \in Stream /\ ~ Terminal(s) /\ s.withdrawn < s.deposited
    BY DEF Sound, ToppedUpStep, OwesWhileLive
  <2> QED
    BY <2>1, StreamFields
<1>3. /\ u.deposited = s.deposited + amount
      /\ u.withdrawn = s.withdrawn /\ (Terminal(u) <=> Terminal(s))
  BY <1>1, <1>2 DEF Extended, Stream, Terminal
<1>4. Vested(u, now) >= Vested(s, now)
  BY <1>1, <1>2, ExtendedVests DEF ToppedUpStep
<1> QED
  BY <1>1, <1>2, <1>3, <1>4 DEF FundMove

(* A step that is not a top-up of a curved stream where delegates may make *)
(* one.                                                                    *)
FairStep(s, u) == ToppedUpStep(s, u) => s.curve = "Linear" \/ ~ TopUpDelegated

(* Every other operation is a move.                                        *)
LEMMA RecordStepMoves ==
  ASSUME now \in Nat, NEW s, Sound(s, now), NEW u, RecordStep(s, u), FairStep(s, u)
  PROVE  RecordMove(s, u)
<1>1. s \in Stream
  BY DEF Sound
<1>2. CASE u = s
  BY <1>2 DEF RecordMove, RestMove
<1>3. CASE \E payout \in 1 .. Withdrawable(s, now) : u = PaidOut(s, payout, now)
  BY <1>3, PaidOutMoves DEF RecordMove
<1>4. CASE MayCancel(s) /\ u = Settled(s, now)
  <2>1. u.withdrawn = s.withdrawn /\ u.status = "Cancelled" /\ ~ Terminal(s)
    BY <1>1, <1>4 DEF Settled, Stream, MayCancel
  <2>2. Vested(u, now) = Vested(s, now) /\ u.deposited = Vested(s, now)
    BY <1>4, SettledMatures
  <2> QED
    BY <2>1, <2>2 DEF RecordMove, CloseMove, Terminal
<1>5. CASE Terminal(s) /\ u = [s EXCEPT !.deposited = @ - Dust(s)]
  <2>1. Dust(s) = 0
    BY <1>5, SettledHasNoDust DEF Dust
  <2>2. u = s
    BY <1>1, <1>5, <2>1, NothingTaken
  <2> QED
    BY <2>2 DEF RecordMove, RestMove
<1>6. CASE ToppedUpStep(s, u)
  BY <1>6, TopUpFunds DEF RecordMove, FairStep
<1>7. CASE (MayPause(s) /\ u = Paused(s, now)) \/ (MayResume(s) /\ u = Resumed(s, now))
  BY <1>7, PausingRests DEF RecordMove
<1>8. CASE \E to \in Accounts : MayTransfer(s, to) /\ u = [s EXCEPT !.recipient = to]
  <2>1. /\ SameSchedule(s, u) /\ StreamTime(u, now) = StreamTime(s, now)
        /\ u.withdrawn = s.withdrawn /\ (Terminal(u) <=> Terminal(s))
    BY <1>1, <1>8 DEF SameSchedule, Stream, StreamTime, Terminal
  <2>2. Vested(u, now) = Vested(s, now)
    BY <2>1, VestedReadsSchedule
  <2> QED
    BY <2>1, <2>2 DEF RecordMove, RestMove, SameSchedule
<1> QED
  BY <1>2, <1>3, <1>4, <1>5, <1>6, <1>7, <1>8 DEF RecordStep

-----------------------------------------------------------------------------
(* Who may top up.                                                         *)

(* No delegate may come to top up a stream that is not linear.             *)
NoCurvedDelegation ==
  \/ \A req \in CreateRequests : req.curve = "Linear"
  \/ \A ops \in GrantOps : "TOP_UP" \notin ops

(* Every grant stored was given as one, and every curve was asked for.     *)
GrantsGiven ==
  /\ nextId <= MaxStreams
  /\ \A p \in AllIds \X Delegates : grants[p].ops = {} \/ grants[p].ops \in GrantOps

CurvesAsked == \A i \in Ids : \E req \in CreateRequests : streams[i].curve = req.curve

(* Who must have signed for the operations ops of stream i to be given, or *)
(* for a grant of it to be taken back.                                     *)
Consented(i, ops) ==
  \/ ops = {} /\ signers' \in {{streams[i].sender}, {streams[i].recipient}}
  \/ ops \subseteq SenderOps /\ signers' = {streams[i].sender}
  \/ ops \subseteq RecipientOps /\ signers' = {streams[i].recipient}

(* A call replaces one grant or none, and ids stay within the bound.       *)
GrantsStep ==
  /\ nextId' = nextId \/ nextId' <= MaxStreams
  /\ \/ grants' = grants
     \/ \E p \in Ids \X Delegates, ops \in GrantOps \cup {{}}, expires_at \in Expiries \cup {None} :
          /\ grants' = [grants EXCEPT ![p] = [ops |-> ops, expires_at |-> expires_at]]
          /\ Consented(p[1], ops)

(* Only granting and revoking touch the grants.                            *)
LEMMA DelegateCallGrants ==
  ASSUME NEW i \in Ids, NEW d \in Delegates, DelegateCall(i, d)
  PROVE  GrantsStep
<1>1. ASSUME NEW ops \in GrantOps, NEW expires_at \in Expiries,
             GrantDelegate(i, d, ops, expires_at)
      PROVE  GrantsStep
  <2>1. /\ grants' = [grants EXCEPT ![<<i, d>>] = [ops |-> ops, expires_at |-> expires_at]]
        /\ nextId' = nextId /\ Consented(i, ops)
    BY <1>1 DEF GrantDelegate, Consented
  <2>2. <<i, d>> \in Ids \X Delegates /\ <<i, d>>[1] = i
    OBVIOUS
  <2>3. Consented(<<i, d>>[1], ops)
    BY <2>1, <2>2
  <2> QED
    BY <2>1, <2>2, <2>3, Zenon DEF GrantsStep
<1>2. ASSUME NEW grantor \in Accounts, RevokeDelegate(i, grantor, d)
      PROVE  GrantsStep
  <2>1. grants' = [grants EXCEPT ![<<i, d>>] = [ops |-> {}, expires_at |-> None]]
        /\ nextId' = nextId /\ Consented(i, {})
    BY <1>2 DEF RevokeDelegate, NoGrant, Consented
  <2>2. <<i, d>> \in Ids \X Delegates /\ <<i, d>>[1] = i
    OBVIOUS
  <2>3. Consented(<<i, d>>[1], {})
    BY <2>1, <2>2
  <2> QED
    BY <2>1, <2>2, <2>3, Zenon DEF GrantsStep
<1>3. CASE \/ \E payout \in 1 .. Withdrawable(streams[i], now) : DelegateWithdraw(i, d, payout)
           \/ DelegateCancel(i, d)
           \/ \E amount \in TopUpAmounts : DelegateTopUp(i, d, amount)
           \/ DelegatePause(i, d)
           \/ DelegateResume(i, d)
           \/ \E to \in Accounts : DelegateTransferRecipient(i, d, to)
  BY <1>3 DEF DelegateWithdraw, Withdrawal, DelegateCancel, Cancellation, DelegateTopUp,
              DelegatePause, DelegateResume, DelegateTransferRecipient, GrantsStep
<1> QED
  BY <1>1, <1>2, <1>3 DEF DelegateCall

(* The same of every step.                                                 *)
LEMMA NextGrants ==
  ASSUME [Next]_vars
  PROVE  GrantsStep
<1>1. ASSUME NEW reqs, CreateStreams(reqs)
      PROVE  GrantsStep
  BY <1>1 DEF CreateStreams, Enrol, GrantsStep
<1>2. ASSUME NEW i \in Ids, StreamCall(i)
      PROVE  GrantsStep
  BY <1>2 DEF StreamCall, Withdraw, Withdrawal, Cancel, Cancellation, ReclaimDust, TopUp,
              Pause, Resume, TransferRecipient, GrantsStep
<1>3. ASSUME NEW a, NEW ids, BatchWithdraw(a, ids) \/ BatchCancel(a, ids)
      PROVE  GrantsStep
  BY <1>3 DEF BatchWithdraw, BatchCancel, GrantsStep
<1>4. CASE \/ \E a \in HaltOperators : SetHaltOperator(a)
           \/ Halt \/ ResumeContract
           \/ \E t \in Tokens, change \in Rebases : Rebase(t, change)
           \/ Tick
  BY <1>4 DEF SetHaltOperator, Halt, ResumeContract, Rebase, Tick, GrantsStep
<1>5. CASE UNCHANGED vars
  BY <1>5 DEF vars, GrantsStep
<1> QED
  BY <1>1, <1>2, <1>3, <1>4, <1>5, DelegateCallGrants
  DEF Next, CreateStreamWithCliffMode, CreateStreamWithCurve, CreateStreamViaFactory,
      BatchCreate

(* So every grant stays one that was given.                                *)
LEMMA GrantsGivenKept ==
  ASSUME IInv, GrantsGiven, [Next]_vars
  PROVE  GrantsGiven'
<1>1. GrantsStep
  BY NextGrants
<1>2. nextId' <= MaxStreams
  BY <1>1 DEF GrantsStep, GrantsGiven
<1>3. AllIds' = AllIds
  BY DEF AllIds
<1>4. CASE grants' = grants
  BY <1>2, <1>3, <1>4 DEF GrantsGiven
<1>5. ASSUME NEW p \in Ids \X Delegates, NEW ops \in GrantOps \cup {{}},
             NEW expires_at,
             grants' = [grants EXCEPT ![p] = [ops |-> ops, expires_at |-> expires_at]]
      PROVE  GrantsGiven'
  <2>1. ASSUME NEW r \in AllIds \X Delegates
        PROVE  grants'[r].ops = {} \/ grants'[r].ops \in GrantOps
    <3>1. grants'[r] = IF r = p THEN [ops |-> ops, expires_at |-> expires_at] ELSE grants[r]
      BY <1>5, <2>1, IInvParts DEF OthersTyped
    <3> QED
      BY <1>5, <2>1, <3>1 DEF GrantsGiven
  <2> QED
    BY <1>2, <1>3, <2>1 DEF GrantsGiven
<1> QED
  BY <1>1, <1>4, <1>5 DEF GrantsStep

(* Nobody is given, and nobody loses, the right to act for a party of a    *)
(* stream without a party's signature: the sender's operations are given   *)
(* by the sender alone, the recipient's by the recipient alone, and a      *)
(* delegate can neither pass its grant on nor widen it.                    *)
THEOREM GrantsComeFromTheirOwners ==
  Spec => [][\A i \in AllIds, d \in Delegates :
               grants'[<<i, d>>] # grants[<<i, d>>] =>
                 i \in Ids /\ Consented(i, grants'[<<i, d>>].ops)]_vars
<1>1. IInv /\ [Next]_vars =>
        \A i \in AllIds, d \in Delegates :
          grants'[<<i, d>>] # grants[<<i, d>>] =>
            i \in Ids /\ Consented(i, grants'[<<i, d>>].ops)
  <2> SUFFICES ASSUME IInv, [Next]_vars, NEW i \in AllIds, NEW d \in Delegates,
                      grants'[<<i, d>>] # grants[<<i, d>>]
               PROVE  i \in Ids /\ Consented(i, grants'[<<i, d>>].ops)
    OBVIOUS
  <2>1. PICK p \in Ids \X Delegates, ops \in GrantOps \cup {{}},
             expires_at \in Expiries \cup {None} :
          /\ grants' = [grants EXCEPT ![p] = [ops |-> ops, expires_at |-> expires_at]]
          /\ Consented(p[1], ops)
    BY NextGrants DEF GrantsStep
  <2>2. DOMAIN grants = AllIds \X Delegates /\ <<i, d>> \in AllIds \X Delegates
    BY IInvParts DEF OthersTyped
  <2>3. <<i, d>> = p
    BY <2>1, <2>2
  <2>4. grants'[<<i, d>>] = [ops |-> ops, expires_at |-> expires_at]
    BY <2>1, <2>2, <2>3
  <2>5. i = p[1] /\ i \in Ids
    BY <2>3
  <2>6. grants'[<<i, d>>].ops = ops
    BY <2>4
  <2> QED
    BY <2>1, <2>5, <2>6
<1> QED
  BY <1>1, Invariance, PTL DEF Spec

(* A grant never mixes the sides.                                          *)
SidesApart ==
  \A p \in AllIds \X Delegates :
    grants[p].ops \subseteq SenderOps \/ grants[p].ops \subseteq RecipientOps

(* No delegate ever holds, in one grant, operations of both parties of a   *)
(* stream: whichever of them is revoked or replaced, nothing of the other  *)
(* side goes with it.                                                      *)
THEOREM GrantsNeverMixSides == Spec => []SidesApart
<1>1. Init => SidesApart
  BY DEF Init, SidesApart, NoGrant
<1>2. IInv /\ SidesApart /\ [Next]_vars => SidesApart'
  <2> SUFFICES ASSUME IInv, SidesApart, [Next]_vars, NEW p \in AllIds \X Delegates
               PROVE  grants'[p].ops \subseteq SenderOps \/ grants'[p].ops \subseteq RecipientOps
    BY DEF SidesApart, AllIds
  <2>1. CASE grants' = grants
    BY <2>1 DEF SidesApart
  <2>2. ASSUME NEW q \in Ids \X Delegates, NEW ops, NEW expires_at,
               grants' = [grants EXCEPT ![q] = [ops |-> ops, expires_at |-> expires_at]],
               Consented(q[1], ops)
        PROVE  grants'[p].ops \subseteq SenderOps \/ grants'[p].ops \subseteq RecipientOps
    <3>1. grants'[p] = IF p = q THEN [ops |-> ops, expires_at |-> expires_at] ELSE grants[p]
      BY <2>2, IInvParts DEF OthersTyped
    <3>2. ops \subseteq SenderOps \/ ops \subseteq RecipientOps
      BY <2>2 DEF Consented
    <3> QED
      BY <3>1, <3>2 DEF SidesApart
  <2> QED
    BY <2>1, <2>2, NextGrants DEF GrantsStep
<1> QED
  BY <1>1, <1>2, Invariance, PTL DEF Spec

(* Every operation keeps the terms a stream was created with.              *)
LEMMA RecordTerms ==
  ASSUME NEW s \in Stream, NEW u, RecordStep(s, u)
  PROVE  /\ u.sender = s.sender /\ u.token = s.token /\ u.start_time = s.start_time
         /\ u.cliff_time = s.cliff_time /\ u.cliff_mode = s.cliff_mode
         /\ u.cancellable = s.cancellable /\ u.pausable = s.pausable
         /\ u.transferable = s.transferable /\ u.curve = s.curve
<1> DEFINE Kept(v) ==
             /\ v.sender = s.sender /\ v.token = s.token /\ v.start_time = s.start_time
             /\ v.cliff_time = s.cliff_time /\ v.cliff_mode = s.cliff_mode
             /\ v.cancellable = s.cancellable /\ v.pausable = s.pausable
             /\ v.transferable = s.transferable /\ v.curve = s.curve
<1>1. CASE u = s
  BY <1>1
<1>2. ASSUME NEW payout, u = PaidOut(s, payout, now)
      PROVE  Kept(u)
  BY <1>2 DEF Stream, PaidOut
<1>3. CASE u = Settled(s, now)
  BY <1>3 DEF Stream, Settled
<1>4. CASE u = [s EXCEPT !.deposited = @ - Dust(s)]
  BY <1>4 DEF Stream
<1>5. ASSUME NEW amount, NEW delta, u = Extended(s, amount, delta)
      PROVE  Kept(u)
  BY <1>5 DEF Stream, Extended
<1>6. CASE u = Paused(s, now) \/ u = Resumed(s, now)
  BY <1>6, PausingLeaves DEF SameSchedule
<1>7. ASSUME NEW to, u = [s EXCEPT !.recipient = to]
      PROVE  Kept(u)
  BY <1>7 DEF Stream
<1> QED
  BY <1>1, <1>2, <1>3, <1>4, <1>5, <1>6, <1>7, Zenon DEF RecordStep, ToppedUpStep

(* An id of the next state is an old one or a new one.                     *)
LEMMA OldOrNew ==
  ASSUME IInv, Evolves, NEW i \in Ids'
  PROVE  \/ i \in Ids /\ Sound(streams[i], now) /\ RecordStep(streams[i], streams'[i])
         \/ i \notin Ids /\ IssuedStep(streams'[i])
<1>1. nextId \in Nat /\ nextId' \in Nat
  BY IInvParts DEF Evolves
<1>2. i \in Nat /\ i < nextId'
  BY <1>1, BelowCount DEF Ids
<1>3. CASE i \in Ids
  BY <1>3, IInvParts DEF Evolves
<1>4. CASE i \notin Ids
  <2>1. nextId <= i
    BY <1>1, <1>2, <1>4 DEF Ids
  <2> QED
    BY <1>2, <1>4, <2>1 DEF Evolves
<1> QED
  BY <1>3, <1>4

(* So every curve stays one that was asked for.                            *)
LEMMA CurvesAskedKept ==
  ASSUME IInv, CurvesAsked, Evolves
  PROVE  CurvesAsked'
<1> SUFFICES ASSUME NEW i \in Ids'
             PROVE  \E req \in CreateRequests : streams'[i].curve = req.curve
  BY DEF CurvesAsked
<1>1. CASE i \in Ids /\ Sound(streams[i], now) /\ RecordStep(streams[i], streams'[i])
  <2>1. streams'[i].curve = streams[i].curve
    BY <1>1, RecordTerms DEF Sound
  <2> QED
    BY <1>1, <2>1 DEF CurvesAsked
<1>2. CASE IssuedStep(streams'[i])
  BY <1>2 DEF IssuedStep, NewStream
<1> QED
  BY <1>1, <1>2, OldOrNew

(* Under the condition, a stream is linear or no delegate may top it up.   *)
LEMMA TopUpsFair ==
  ASSUME IInv, GrantsGiven, CurvesAsked, NoCurvedDelegation, NEW i \in Ids
  PROVE  streams[i].curve = "Linear" \/ ~ TopUpDelegated
<1>1. CASE \A req \in CreateRequests : req.curve = "Linear"
  BY <1>1 DEF CurvesAsked
<1>2. CASE \A ops \in GrantOps : "TOP_UP" \notin ops
  <2> SUFFICES ASSUME NEW j \in Ids, NEW d \in Delegates
               PROVE  "TOP_UP" \notin grants[<<j, d>>].ops
    BY DEF TopUpDelegated
  <2>1. j \in AllIds
    <3>1. nextId \in Nat /\ MaxStreams \in Nat /\ nextId <= MaxStreams
      BY IInvParts, ConstantsAssumption DEF GrantsGiven
    <3>2. j \in Nat /\ j < nextId
      BY <3>1, BelowCount DEF Ids
    <3> QED
      BY <3>1, <3>2 DEF AllIds
  <2>2. <<j, d>> \in AllIds \X Delegates
    BY <2>1
  <2> QED
    BY <1>2, <2>2 DEF GrantsGiven
<1> QED
  BY <1>1, <1>2 DEF NoCurvedDelegation

-----------------------------------------------------------------------------
(* Terms that bind for good.                                               *)

(* A stream that cannot be paused has never been; one that cannot be       *)
(* cancelled has its cliff within its schedule.                            *)
Steadfast(s) ==
  /\ ~ s.pausable => s.paused_at = None /\ s.paused_total = 0
  /\ ~ s.cancellable => s.cliff_time <= s.end_time

(* The whole deposit can be priced, or the schedule has run out.           *)
Priced(s, t) ==
  s.curve = "Linear" =>
    s.deposited * Duration(s) <= I128Max \/ Elapsed(s, t) >= Duration(s)

TermsInv == IInv /\ \A i \in Ids : Steadfast(streams[i]) /\ Priced(streams[i], now)

(* A created stream has both.                                              *)
LEMMA NewStreamBinds ==
  ASSUME NEW u, IssuedStep(u), NEW t
  PROVE  Steadfast(u) /\ Priced(u, t)
<1>1. PICK req \in CreateRequests :
        /\ ValidTerms(req)
        /\ ProductFits(req.deposit, req.end_time - req.start_time)
        /\ u = NewStream(req)
  BY DEF IssuedStep
<1>2. req \in CreateRequest
  BY ConstantsAssumption
<1>3. /\ req.start_time \in Nat /\ req.end_time \in Nat /\ req.cliff_time \in Nat
      /\ req.end_time > req.start_time
      /\ req.cliff_time <= req.end_time
  BY <1>1, <1>2 DEF CreateRequest, ValidTerms
<1>4. /\ u.deposited = req.deposit /\ u.start_time = req.start_time
      /\ u.end_time = req.end_time /\ u.cliff_time = req.cliff_time
      /\ u.paused_at = None /\ u.paused_total = 0
  BY <1>1 DEF NewStream
<1>5. Duration(u) = req.end_time - req.start_time
  BY <1>3, <1>4 DEF Duration, SatSub
<1>6. u.deposited * Duration(u) <= I128Max
  BY <1>1, <1>4, <1>5 DEF ProductFits
<1> QED
  BY <1>3, <1>4, <1>6 DEF Steadfast, Priced

(* Every operation keeps a steadfast stream steadfast.                     *)
LEMMA SteadfastKept ==
  ASSUME now \in Nat, NEW s, Sound(s, now), NEW u, RecordStep(s, u), Steadfast(s)
  PROVE  Steadfast(u)
<1>1. /\ s \in Stream /\ s.end_time \in Nat /\ s.cliff_time \in Nat
      /\ s.status = "Paused" <=> s.paused_at # None
  BY StreamFields DEF Sound, PauseCoherent
<1>2. /\ u.cliff_time = s.cliff_time /\ u.cancellable = s.cancellable
      /\ u.pausable = s.pausable
  BY <1>1, RecordTerms
<1>3. CASE u = s
  BY <1>3
<1>4. CASE \E payout \in 1 .. Withdrawable(s, now) : u = PaidOut(s, payout, now)
  <2>1. PICK payout \in 1 .. Withdrawable(s, now) : u = PaidOut(s, payout, now)
    BY <1>4
  <2>2. payout \in Nat
    BY <1>1, WithdrawableBounds
  <2>3. /\ u.end_time = s.end_time
        /\ u.paused_at = s.paused_at \/ u.paused_at = None
        /\ u.paused_total = s.paused_total \/ s.paused_at # None
    BY <1>1, <2>1, <2>2, PaidOutFields DEF SameSchedule
  <2> QED
    BY <1>2, <2>3 DEF Steadfast
<1>5. CASE MayCancel(s) /\ u = Settled(s, now)
  <2>1. s.cancellable /\ u.paused_at = None /\ u.paused_total = s.paused_total
    BY <1>1, <1>5 DEF MayCancel, Settled, Stream
  <2> QED
    BY <1>2, <2>1 DEF Steadfast
<1>6. CASE Terminal(s) /\ u = [s EXCEPT !.deposited = @ - Dust(s)]
  <2>1. /\ u.paused_at = s.paused_at /\ u.paused_total = s.paused_total
        /\ u.end_time = s.end_time
    BY <1>1, <1>6 DEF Stream
  <2> QED
    BY <1>2, <2>1 DEF Steadfast
<1>7. CASE ToppedUpStep(s, u)
  <2>1. PICK amount \in Nat, delta \in Nat : u = Extended(s, amount, delta)
    BY <1>7 DEF ToppedUpStep
  <2>2. /\ u.paused_at = s.paused_at /\ u.paused_total = s.paused_total
        /\ u.end_time = s.end_time + delta
    BY <1>1, <2>1 DEF Extended, Stream
  <2>3. s.cliff_time <= s.end_time => u.cliff_time <= u.end_time
    BY <1>1, <1>2, <2>2
  <2> QED
    BY <1>2, <2>2, <2>3 DEF Steadfast
<1>8. CASE MayPause(s) /\ u = Paused(s, now)
  <2>1. s.pausable /\ u.end_time = s.end_time
    BY <1>1, <1>8 DEF MayPause, Paused, Stream
  <2> QED
    BY <1>2, <2>1 DEF Steadfast
<1>9. CASE MayResume(s) /\ u = Resumed(s, now)
  <2>1. s.paused_at # None /\ u.end_time = s.end_time
    BY <1>1, <1>9 DEF MayResume, Resumed, Stream
  <2> QED
    BY <1>2, <2>1 DEF Steadfast
<1>10. CASE \E to \in Accounts : MayTransfer(s, to) /\ u = [s EXCEPT !.recipient = to]
  <2>1. /\ u.paused_at = s.paused_at /\ u.paused_total = s.paused_total
        /\ u.end_time = s.end_time
    BY <1>1, <1>10 DEF Stream
  <2> QED
    BY <1>2, <2>1 DEF Steadfast
<1> QED
  BY <1>3, <1>4, <1>5, <1>6, <1>7, <1>8, <1>9, <1>10 DEF RecordStep

(* What reads the same schedule at the same stream time is priced alike.   *)
LEMMA PricedReadsSchedule ==
  ASSUME NEW s, NEW u, NEW t, SameSchedule(s, u), StreamTime(u, t) = StreamTime(s, t),
         Priced(s, t)
  PROVE  Priced(u, t)
BY DEF SameSchedule, Priced, Elapsed, Duration

(* Cancelling collapses the schedule onto the time gone by.                *)
LEMMA SettledRanOut ==
  ASSUME NEW s, NEW t \in Nat, Sound(s, t)
  PROVE  Elapsed(Settled(s, t), t) >= Duration(Settled(s, t))
<1> DEFINE u == Settled(s, t)
<1>1. /\ s \in Stream
      /\ s.start_time \in Nat /\ s.paused_total \in Nat /\ s.paused_at \in Int
      /\ s.paused_at # None => s.paused_at \in Nat /\ s.paused_at <= t
  BY StreamFields DEF Sound, PauseCoherent
<1>2. StreamTime(s, t) \in Nat
  BY <1>1, ClockType, StreamFields
<1>3. /\ u.start_time = s.start_time
      /\ u.end_time = Greatest(StreamTime(s, t), s.start_time)
      /\ u.paused_at = None /\ u.paused_total = s.paused_total
  BY <1>1 DEF Settled, Stream
<1> HIDE DEF u
<1>4. StreamTime(u, t) \in Nat /\ StreamTime(u, t) >= StreamTime(s, t)
  <2>1. StreamTime(u, t) = SatSub(t, s.paused_total)
    BY <1>3 DEF StreamTime
  <2>2. StreamTime(s, t) = SatSub(IF s.paused_at = None THEN t ELSE s.paused_at,
                                  s.paused_total)
    BY DEF StreamTime
  <2> QED
    BY <1>1, <2>1, <2>2 DEF SatSub
<1>5. Elapsed(u, t) >= Duration(u)
  BY <1>1, <1>2, <1>3, <1>4 DEF Elapsed, Duration, Least, Greatest, SatSub
<1> QED
  BY <1>5 DEF u

(* Every operation keeps a stream priced.                                  *)
LEMMA PricedKept ==
  ASSUME now \in Nat, NEW s, Sound(s, now), NEW u, RecordStep(s, u), Priced(s, now)
  PROVE  Priced(u, now)
<1>1. s \in Stream
  BY DEF Sound
<1>2. CASE u = s
  BY <1>2
<1>3. CASE \E payout \in 1 .. Withdrawable(s, now) : u = PaidOut(s, payout, now)
  <2>1. PICK payout \in 1 .. Withdrawable(s, now) : u = PaidOut(s, payout, now)
    BY <1>3
  <2>2. payout \in Nat
    BY <1>1, WithdrawableBounds
  <2>3. /\ SameSchedule(s, u)
        /\ \/ u.paused_at = s.paused_at /\ u.paused_total = s.paused_total
           \/ /\ u.paused_at = None
              /\ u.paused_total = IF s.paused_at # None
                                  THEN PauseServed(s, now) ELSE s.paused_total
    BY <1>1, <2>1, <2>2, PaidOutFields
  <2>4. StreamTime(u, now) = StreamTime(s, now)
    BY <1>1, <2>3, PauseServedKeepsClock DEF StreamTime
  <2> QED
    BY <2>3, <2>4, PricedReadsSchedule
<1>4. CASE MayCancel(s) /\ u = Settled(s, now)
  BY <1>4, SettledRanOut DEF Priced
<1>5. CASE Terminal(s) /\ u = [s EXCEPT !.deposited = @ - Dust(s)]
  <2>1. Dust(s) = 0
    BY <1>5, SettledHasNoDust DEF Dust
  <2>2. u = s
    BY <1>1, <1>5, <2>1, NothingTaken
  <2> QED
    BY <2>2
<1>6. CASE ToppedUpStep(s, u)
  BY <1>6 DEF ToppedUpStep, TopUpFits, ProductFits, Priced
<1>7. CASE (MayPause(s) /\ u = Paused(s, now)) \/ (MayResume(s) /\ u = Resumed(s, now))
  <2>1. SameSchedule(s, u)
    BY <1>1, <1>7, PausingLeaves
  <2>2. StreamTime(u, now) = StreamTime(s, now)
    BY <1>7, PausingKeepsClock
  <2> QED
    BY <2>1, <2>2, PricedReadsSchedule
<1>8. CASE \E to \in Accounts : MayTransfer(s, to) /\ u = [s EXCEPT !.recipient = to]
  <2>1. SameSchedule(s, u) /\ StreamTime(u, now) = StreamTime(s, now)
    BY <1>1, <1>8 DEF SameSchedule, Stream, StreamTime
  <2> QED
    BY <2>1, PricedReadsSchedule
<1> QED
  BY <1>2, <1>3, <1>4, <1>5, <1>6, <1>7, <1>8 DEF RecordStep

(* So does time.                                                           *)
LEMMA PricedLater ==
  ASSUME NEW s \in Stream, NEW t1 \in Nat, NEW t2 \in Nat, t1 <= t2, Priced(s, t1)
  PROVE  Priced(s, t2)
<1>1. /\ Elapsed(s, t1) \in Nat /\ Elapsed(s, t2) \in Nat /\ Duration(s) \in Nat
      /\ Elapsed(s, t1) <= Elapsed(s, t2)
  BY StreamFields, ClockType, ClockMonotone
<1> QED
  BY <1>1 DEF Priced

(* The terms bind in every reachable state.                                *)
LEMMA TermsInvariance == Spec => []TermsInv
<1>1. Init => TermsInv
  <2> SUFFICES ASSUME Init
               PROVE  TermsInv
    OBVIOUS
  <2>1. Ids = {}
    BY DEF Init, Ids
  <2> QED
    BY <2>1, InitIInv DEF TermsInv
<1>2. TermsInv /\ [Next]_vars => TermsInv'
  <2> SUFFICES ASSUME TermsInv, [Next]_vars
               PROVE  TermsInv'
    OBVIOUS
  <2>1. IInv /\ IInv' /\ Evolves
    BY NextOK, NextIInv DEF TermsInv, StepOK
  <2>2. now \in Nat /\ now' \in Nat /\ now <= now' /\ (now' = now \/ streams' = streams)
    BY <2>1, IInvParts DEF Evolves
  <2>3. ASSUME NEW i \in Ids'
        PROVE  Steadfast(streams'[i]) /\ Priced(streams'[i], now')
    <3>1. CASE i \in Ids /\ Sound(streams[i], now) /\ RecordStep(streams[i], streams'[i])
      <4>1. Steadfast(streams[i]) /\ Priced(streams[i], now) /\ streams[i] \in Stream
        BY <3>1 DEF TermsInv, Sound
      <4>2. Steadfast(streams'[i])
        BY <2>2, <3>1, <4>1, SteadfastKept
      <4>3. CASE now' = now
        BY <2>2, <3>1, <4>1, <4>2, <4>3, PricedKept
      <4>4. CASE streams' = streams
        BY <2>2, <4>1, <4>2, <4>4, PricedLater
      <4> QED
        BY <2>2, <4>3, <4>4
    <3>2. CASE IssuedStep(streams'[i])
      BY <3>2, NewStreamBinds
    <3> QED
      BY <2>1, <3>1, <3>2, OldOrNew
  <2> QED
    BY <2>1, <2>3 DEF TermsInv
<1> QED
  BY <1>1, <1>2, PTL DEF Spec

(* The checks at creation and at top-up are enough: no later computation   *)
(* of what a stream has vested overflows an i128, so no stream becomes     *)
(* impossible to settle.                                                   *)
THEOREM AccrualStaysInRange == Spec => []AccrualNeverOverflows
<1>1. TermsInv => AccrualNeverOverflows
  <2> SUFFICES ASSUME TermsInv, NEW i \in Ids, NEW later \in now .. MaxTime + 1
               PROVE  AccrualFits(streams[i], later)
    BY DEF AccrualNeverOverflows
  <2> DEFINE s == streams[i]
  <2>1. s \in Stream /\ now \in Nat /\ Priced(s, now)
    BY StreamParties, IInvParts DEF TermsInv
  <2>2. later \in Nat /\ now <= later
    BY <2>1, ConstantsAssumption
  <2>3. Priced(s, later)
    BY <2>1, <2>2, PricedLater
  <2>4. /\ s.deposited \in Nat /\ Elapsed(s, later) \in Nat /\ Duration(s) \in Nat
        /\ Elapsed(s, later) <= Duration(s)
    <3>1. /\ s.deposited \in Nat /\ s.start_time \in Nat /\ s.end_time \in Nat
          /\ StreamTime(s, later) \in Nat
          /\ Elapsed(s, later) \in Nat /\ Duration(s) \in Nat
      BY <2>1, <2>2, StreamFields, ClockType
    <3> HIDE DEF s
    <3>2. Elapsed(s, later) <= Duration(s)
      BY <3>1 DEF Elapsed, Duration, Least, SatSub
    <3> QED
      BY <3>1, <3>2
  <2> HIDE DEF s
  <2>5. s.deposited * Elapsed(s, later) <= s.deposited * Duration(s)
    BY <2>4, TimesMonotone
  <2>6. s.deposited * Elapsed(s, later) \in Nat /\ s.deposited * Duration(s) \in Nat
    BY <2>4, SMT
  <2>7. s.deposited * Duration(s) <= I128Max => s.deposited * Elapsed(s, later) <= I128Max
    BY <2>5, <2>6, ConstantsAssumption
  <2>8. AccrualFits(s, later)
    BY <2>3, <2>7 DEF AccrualFits, Priced
  <2> QED
    BY <2>8 DEF s
<1> QED
  BY <1>1, TermsInvariance, PTL

(* A stream that its sender can neither pause nor cancel is fully vested   *)
(* once the ledger clock has passed its end, whoever calls what, and       *)
(* whoever tops it up.                                                     *)
THEOREM UnstoppableStreamsDoMature == Spec => []UnstoppableStreamsMature
<1>1. TermsInv => UnstoppableStreamsMature
  <2> SUFFICES ASSUME TermsInv, NEW i \in Ids, ~ streams[i].pausable,
                      ~ streams[i].cancellable, now >= streams[i].end_time
               PROVE  Vested(streams[i], now) = streams[i].deposited
    BY DEF UnstoppableStreamsMature
  <2> DEFINE s == streams[i]
  <2>1. /\ s \in Stream /\ now \in Nat /\ Steadfast(s)
        /\ s.paused_at = None /\ s.paused_total = 0 /\ s.cliff_time <= s.end_time
    BY StreamParties, IInvParts DEF TermsInv, Steadfast
  <2>2. s.end_time \in Nat /\ s.start_time \in Nat /\ s.cliff_time \in Nat
        /\ s.cliff_mode \in CliffModes /\ now >= s.end_time
    BY <2>1, StreamFields
  <2> HIDE DEF s
  <2>3. StreamTime(s, now) = now
    BY <2>1 DEF StreamTime, SatSub
  <2>4. Elapsed(s, now) = Duration(s) /\ Duration(s) \in Nat
    BY <2>1, <2>2, <2>3 DEF Elapsed, Duration, Least, SatSub
  <2>5. CliffReached(s, now)
    BY <2>1, <2>2, <2>3 DEF CliffReached, CliffModes
  <2>6. Vested(s, now) = s.deposited
    BY <2>4, <2>5 DEF Vested, Released
  <2> QED
    BY <2>6 DEF s
<1> QED
  BY <1>1, TermsInvariance, PTL

(* What one operation leaves of the guarantees of a stream.                *)
LEMMA RecordGuarantees ==
  ASSUME now \in Nat, NEW s, Sound(s, now), NEW u, RecordStep(s, u), Steadfast(s)
  PROVE  /\ ~ s.cancellable => u.deposited >= s.deposited /\ u.end_time >= s.end_time
         /\ ~ s.transferable => u.recipient = s.recipient
         /\ Terminal(s) => u.status = s.status
<1>1. /\ s \in Stream /\ s.end_time \in Nat /\ s.deposited \in Nat /\ s.withdrawn \in Nat
  BY StreamFields DEF Sound
<1>2. CASE u = s
  BY <1>1, <1>2
<1>3. CASE \E payout \in 1 .. Withdrawable(s, now) : u = PaidOut(s, payout, now)
  <2>1. PICK payout \in 1 .. Withdrawable(s, now) : u = PaidOut(s, payout, now)
    BY <1>3
  <2>2. payout \in Nat
    BY <1>1, WithdrawableBounds
  <2>3. /\ u.end_time = s.end_time /\ u.deposited = s.deposited
        /\ u.recipient = s.recipient
        /\ u.status = s.status \/ (u.status = "Depleted" /\ s.status # "Cancelled")
    <3>1. /\ SameSchedule(s, u) /\ u.recipient = s.recipient
          /\ u.status = IF s.withdrawn + payout >= s.deposited /\ s.status # "Cancelled"
                        THEN "Depleted" ELSE s.status
      <4>1. /\ SameSchedule(s, PaidOut(s, payout, now))
            /\ PaidOut(s, payout, now).recipient = s.recipient
            /\ PaidOut(s, payout, now).status =
                 IF s.withdrawn + payout >= s.deposited /\ s.status # "Cancelled"
                 THEN "Depleted" ELSE s.status
        BY <1>1, <2>2, PaidOutFields, SMTT(40)
      <4> QED
        BY <2>1, <4>1
    <3> QED
      BY <3>1 DEF SameSchedule
  <2> QED
    BY <1>1, <2>3 DEF Terminal
<1>4. CASE MayCancel(s) /\ u = Settled(s, now)
  <2>1. s.cancellable /\ ~ Terminal(s) /\ u.recipient = s.recipient
    BY <1>1, <1>4 DEF MayCancel, Settled, Stream
  <2> QED
    BY <2>1
<1>5. CASE Terminal(s) /\ u = [s EXCEPT !.deposited = @ - Dust(s)]
  <2>1. Dust(s) = 0
    BY <1>5, SettledHasNoDust DEF Dust
  <2>2. u = s
    BY <1>1, <1>5, <2>1, NothingTaken
  <2> QED
    BY <1>1, <2>2
<1>6. CASE ToppedUpStep(s, u)
  <2>1. PICK amount \in Nat, delta \in Nat : u = Extended(s, amount, delta)
    BY <1>6 DEF ToppedUpStep
  <2>2. /\ u.deposited = s.deposited + amount /\ u.end_time = s.end_time + delta
        /\ u.recipient = s.recipient /\ ~ Terminal(s)
    BY <1>1, <1>6, <2>1 DEF Extended, Stream, ToppedUpStep
  <2> QED
    BY <1>1, <2>2
<1>7. CASE (MayPause(s) /\ u = Paused(s, now)) \/ (MayResume(s) /\ u = Resumed(s, now))
  <2>1. /\ u.deposited = s.deposited /\ u.end_time = s.end_time
        /\ u.recipient = s.recipient /\ ~ Terminal(s)
    BY <1>1, <1>7 DEF Paused, Resumed, Stream, MayPause, MayResume, Terminal
  <2> QED
    BY <1>1, <2>1
<1>8. CASE \E to \in Accounts : MayTransfer(s, to) /\ u = [s EXCEPT !.recipient = to]
  <2>1. /\ u.deposited = s.deposited /\ u.end_time = s.end_time
        /\ u.status = s.status /\ s.transferable
    BY <1>1, <1>8 DEF Stream, MayTransfer
  <2> QED
    BY <1>1, <2>1
<1> QED
  BY <1>2, <1>3, <1>4, <1>5, <1>6, <1>7, <1>8 DEF RecordStep

(* The immutable guarantees of lib.rs, at every step of anybody: the terms *)
(* a recipient accepted stay, and no flag refused at creation is ever got  *)
(* around.                                                                 *)
THEOREM TermsAreKept == Spec => GuaranteesHold
<1> DEFINE Terms == {"sender", "token", "start_time", "cliff_time", "cliff_mode",
                     "cancellable", "pausable", "transferable", "curve"}
           Kept(s, t) ==
             /\ \A term \in Terms : t[term] = s[term]
             /\ ~ s.cancellable => t.deposited >= s.deposited /\ t.end_time >= s.end_time
             /\ ~ s.pausable => t.paused_at = None /\ t.paused_total = s.paused_total
             /\ ~ s.transferable => t.recipient = s.recipient
             /\ Terminal(s) => t.status = s.status
<1>1. TermsInv /\ TermsInv' /\ [Next]_vars => \A i \in Ids : Kept(streams[i], streams'[i])
  <2> SUFFICES ASSUME TermsInv, TermsInv', [Next]_vars, NEW i \in Ids
               PROVE  Kept(streams[i], streams'[i])
    OBVIOUS
  <2> DEFINE s == streams[i]
             u == streams'[i]
  <2>1. /\ now \in Nat /\ Sound(s, now) /\ s \in Stream /\ RecordStep(s, u) /\ Steadfast(s)
    BY NextOK, IInvParts, StreamParties DEF TermsInv, StepOK, Evolves
  <2>2. Steadfast(u)
    BY <2>1, SteadfastKept
  <2>3. /\ u.sender = s.sender /\ u.token = s.token /\ u.start_time = s.start_time
        /\ u.cliff_time = s.cliff_time /\ u.cliff_mode = s.cliff_mode
        /\ u.cancellable = s.cancellable /\ u.pausable = s.pausable
        /\ u.transferable = s.transferable /\ u.curve = s.curve
    BY <2>1, RecordTerms
  <2>4. /\ ~ s.cancellable => u.deposited >= s.deposited /\ u.end_time >= s.end_time
        /\ ~ s.transferable => u.recipient = s.recipient
        /\ Terminal(s) => u.status = s.status
    BY <2>1, RecordGuarantees
  <2>5. ~ s.pausable => u.paused_at = None /\ u.paused_total = s.paused_total
    BY <2>1, <2>2, <2>3 DEF Steadfast
  <2>6. \A term \in Terms : u[term] = s[term]
    BY <2>3
  <2> QED
    BY <2>4, <2>5, <2>6
<1> QED
  BY <1>1, TermsInvariance, PTL DEF Spec, GuaranteesHold

-----------------------------------------------------------------------------
(* The end of a stream.                                                    *)

PaidPart(s, u) ==
  \E payout \in Nat :
    /\ payout > 0 /\ payout <= s.deposited - s.withdrawn
    /\ u = [s EXCEPT !.withdrawn = @ + payout]

PassedOn(s, u) ==
  /\ s.transferable /\ s.withdrawn < s.deposited
  /\ \E to \in Accounts \ {s.sender} : u = [s EXCEPT !.recipient = to]

(* What is left to do with a settled stream: nothing, or, if it was        *)
(* cancelled, to draw what it still owes or pass the claim on.             *)
LeftToDo(s, u) ==
  \/ u = s
  \/ s.status = "Cancelled" /\ (PaidPart(s, u) \/ PassedOn(s, u))

LEMMA SettledMoves ==
  ASSUME now \in Nat, NEW s, Sound(s, now), Terminal(s), NEW u, RecordStep(s, u)
  PROVE  LeftToDo(s, u)
<1>1. /\ s \in Stream /\ s.deposited \in Nat /\ s.withdrawn \in Nat
      /\ Vested(s, now) = s.deposited
      /\ s.status = "Depleted" => s.withdrawn = s.deposited
      /\ s.status \in {"Cancelled", "Depleted"}
  BY StreamFields DEF Sound, MaturedIfSettled, OwesWhileLive, Terminal
<1>2. ASSUME NEW payout \in 1 .. Withdrawable(s, now), u = PaidOut(s, payout, now)
      PROVE  LeftToDo(s, u)
  <2>1. /\ Withdrawable(s, now) = s.deposited - s.withdrawn
        /\ payout \in Nat /\ payout > 0 /\ payout <= s.deposited - s.withdrawn
    BY <1>1, <1>2 DEF Withdrawable, Greatest
  <2>2. s.status = "Cancelled"
    BY <1>1, <2>1
  <2>3. u = [s EXCEPT !.withdrawn = @ + payout]
    BY <1>2, <2>2 DEF PaidOut
  <2> QED
    BY <2>1, <2>2, <2>3 DEF LeftToDo, PaidPart
<1>3. CASE Terminal(s) /\ u = [s EXCEPT !.deposited = @ - Dust(s)]
  <2>1. Dust(s) = 0
    BY SettledHasNoDust DEF Dust
  <2> QED
    BY <1>1, <1>3, <2>1, NothingTaken DEF LeftToDo
<1>4. ASSUME NEW to \in Accounts, MayTransfer(s, to), u = [s EXCEPT !.recipient = to]
      PROVE  LeftToDo(s, u)
  <2>1. s.transferable /\ s.withdrawn < s.deposited /\ s.status = "Cancelled" /\ to # s.sender
    BY <1>1, <1>4 DEF MayTransfer
  <2> QED
    BY <1>4, <2>1 DEF LeftToDo, PassedOn
<1>5. ~ MayCancel(s) /\ ~ ToppedUpStep(s, u) /\ ~ MayPause(s) /\ ~ MayResume(s)
  BY <1>1 DEF MayCancel, ToppedUpStep, MayPause, MayResume, Terminal
<1> QED
  BY <1>2, <1>3, <1>4, <1>5 DEF RecordStep, LeftToDo

(* A settled stream is done: whoever calls whatever, at whatever time, a   *)
(* depleted record never changes again, and all that can happen to a       *)
(* cancelled one is that its recipient draws what it still owes or that    *)
(* the claim is passed on; reclaim_dust changes neither.                   *)
THEOREM SettledStreamsAreDone ==
  Spec => [][\A i \in Ids :
               Terminal(streams[i]) => LeftToDo(streams[i], streams'[i])]_vars
<1>1. IInv /\ [Next]_vars =>
        \A i \in Ids : Terminal(streams[i]) => LeftToDo(streams[i], streams'[i])
  <2> SUFFICES ASSUME IInv, [Next]_vars, NEW i \in Ids, Terminal(streams[i])
               PROVE  LeftToDo(streams[i], streams'[i])
    OBVIOUS
  <2>1. /\ now \in Nat /\ Sound(streams[i], now)
        /\ RecordStep(streams[i], streams'[i])
    BY NextOK, IInvParts, StreamParties DEF StepOK, Evolves
  <2> QED
    BY <2>1, SettledMoves
<1> QED
  BY <1>1, Invariance, PTL DEF Spec

-----------------------------------------------------------------------------
(* Pauses.                                                                 *)

(* While a stream is paused nothing accrues, whatever is called and        *)
(* however much time goes by; and resuming it recovers none of it, unless  *)
(* its cliff is a wall-clock date.                                         *)
THEOREM PausesFreeze == Spec => PauseFreezesAccrual
<1> DEFINE Frozen(s, t) ==
             ( /\ s.status = "Paused" /\ s.cliff_mode = "Schedule"
               /\ t.status \in {"Paused", "Active"} /\ t.deposited = s.deposited )
             => Vested(t, now') = Vested(s, now)
<1>1. IInv /\ [Next]_vars => \A i \in Ids : Frozen(streams[i], streams'[i])
  <2> SUFFICES ASSUME IInv, [Next]_vars, NEW i \in Ids,
                      streams[i].status = "Paused", streams[i].cliff_mode = "Schedule",
                      streams'[i].status \in {"Paused", "Active"},
                      streams'[i].deposited = streams[i].deposited
               PROVE  Vested(streams'[i], now') = Vested(streams[i], now)
    OBVIOUS
  <2> DEFINE s == streams[i]
             u == streams'[i]
  <2>1. /\ now \in Nat /\ Sound(s, now) /\ s \in Stream /\ s.deposited \in Nat
        /\ RecordStep(s, u) /\ (now' = now \/ u = s)
    BY NextOK, IInvParts, StreamParties DEF StepOK, Evolves
  <2>2. s.paused_at # None /\ ~ Terminal(s)
    BY <2>1 DEF Sound, PauseCoherent, Terminal
  <2>3. CASE u = s
    <3>1. StreamTime(s, now') = StreamTime(s, now)
      BY <2>2 DEF StreamTime
    <3>2. CliffReached(s, now') <=> CliffReached(s, now)
      BY <3>1 DEF CliffReached
    <3>3. Released(s, now') = Released(s, now)
      BY <3>1 DEF Released, Elapsed
    <3> QED
      BY <2>3, <3>2, <3>3 DEF Vested
  <2> HIDE DEF s, u
  <2>4. ASSUME now' = now, RestMove(s, u) \/ PayMove(s, u)
        PROVE  Vested(u, now') = Vested(s, now)
    BY <2>4 DEF RestMove, PayMove
  <2>5. ASSUME now' = now, \E payout \in 1 .. Withdrawable(s, now) : u = PaidOut(s, payout, now)
        PROVE  Vested(u, now') = Vested(s, now)
    BY <2>1, <2>4, <2>5, PaidOutMoves
  <2>6. ~ (u = Settled(s, now))
    <3>1. u.status # "Cancelled"
      BY DEF u
    <3> QED
      BY <2>1, <3>1 DEF Settled, Stream
  <2>7. ~ ToppedUpStep(s, u)
    <3>1. u.deposited = s.deposited
      BY DEF s, u
    <3>2. ASSUME NEW amount \in Nat, NEW delta, amount > 0, u = Extended(s, amount, delta)
          PROVE  FALSE
      BY <2>1, <3>1, <3>2 DEF Extended, Stream
    <3> QED
      BY <3>2 DEF ToppedUpStep
  <2>8. ASSUME now' = now,
               (MayPause(s) /\ u = Paused(s, now)) \/ (MayResume(s) /\ u = Resumed(s, now))
        PROVE  Vested(u, now') = Vested(s, now)
    BY <2>1, <2>4, <2>8, PausingRests
  <2>9. ASSUME now' = now,
               \E to \in Accounts : MayTransfer(s, to) /\ u = [s EXCEPT !.recipient = to]
        PROVE  Vested(u, now') = Vested(s, now)
    <3>1. SameSchedule(s, u) /\ StreamTime(u, now) = StreamTime(s, now)
      BY <2>1, <2>9 DEF SameSchedule, Stream, StreamTime
    <3>2. Vested(u, now) = Vested(s, now)
      BY <3>1, VestedReadsSchedule
    <3> QED
      BY <2>9, <3>2
  <2>10. Vested(u, now') = Vested(s, now)
    BY <2>1, <2>2, <2>3, <2>5, <2>6, <2>7, <2>8, <2>9 DEF RecordStep, s, u
  <2> QED
    BY <2>10 DEF s, u
<1> QED
  BY <1>1, Invariance, PTL DEF Spec, PauseFreezesAccrual

-----------------------------------------------------------------------------
(* Top-ups and the rate.                                                   *)

(* Rounding the extension down to whole seconds gains at most a second.    *)
LEMMA SecondAtMost ==
  ASSUME NEW D \in Nat, D > 0, NEW d \in Nat, d > 0, NEW a \in Nat,
         NEW c \in Nat, c <= d, NEW delta \in Nat, a * d <= D * delta + D
  PROVE  ((D + a) * c) * d <= (D * (c + 1)) * (d + delta)
<1> DEFINE x == D * c * d
           y == D * delta * c
           z == D * c
           w == D * d
           v == D * delta
<1>1. x \in Nat /\ y \in Nat /\ z \in Nat /\ w \in Nat /\ v \in Nat
  BY SMT
<1>2. z <= w
  BY TimesMonotone
<1>3. (a * d) * c <= (D * delta + D) * c
  <2> DEFINE l == a * d
             r == D * delta + D
  <2>1. l \in Nat /\ r \in Nat /\ l <= r
    BY SMT
  <2> HIDE DEF l, r
  <2>2. c * l <= c * r
    BY <2>1, TimesMonotone
  <2>3. c * l = l * c /\ c * r = r * c
    BY <2>1, SMT
  <2>4. l * c <= r * c
    BY <2>2, <2>3
  <2> QED
    BY <2>4 DEF l, r
<1>4. (D * delta + D) * c = y + z
  BY SMT
<1>5. ((D + a) * c) * d = x + (a * d) * c
  BY SMT
<1>6. (D * (c + 1)) * (d + delta) = x + y + w + v
  BY SMT
<1>7. (a * d) * c \in Nat
  BY SMT
<1> HIDE DEF x, y, z, w, v
<1>8. x + (a * d) * c <= x + y + w + v
  BY <1>1, <1>2, <1>3, <1>4, <1>7
<1> QED
  BY <1>5, <1>6, <1>8

(* What is at most b / d, a quotient is at least.                          *)
LEMMA QuotientBelow ==
  ASSUME NEW p \in Nat, NEW e \in Nat, e > 0, NEW b \in Nat, NEW d \in Nat, d > 0,
         p * d <= b * e
  PROVE  p \div e <= b \div d
<1> DEFINE q == p \div e
<1>1. q \in Nat /\ e * q <= p
  BY DivBounds, DivOfNat
<1> HIDE DEF q
<1>2. (e * q) * d <= p * d
  <2> DEFINE l == e * q
  <2>1. l \in Nat /\ l <= p
    BY <1>1, SMT
  <2> HIDE DEF l
  <2>2. d * l <= d * p
    BY <2>1, TimesMonotone
  <2>3. d * l = l * d /\ d * p = p * d
    BY <2>1, SMT
  <2> QED
    BY <2>2, <2>3 DEF l
<1>3. (e * q) * d = e * (d * q) /\ b * e = e * b
  BY <1>1, SMT
<1>4. e * (d * q) \in Nat /\ e * b \in Nat /\ p * d \in Nat /\ d * q \in Nat
  BY <1>1, SMT
<1>5. e * (d * q) <= e * b
  BY <1>2, <1>3, <1>4
<1>6. d * q <= b
  <2> DEFINE l == d * q
  <2>1. l \in Nat /\ e * l <= e * b
    BY <1>4, <1>5
  <2> HIDE DEF l
  <2> SUFFICES ASSUME l > b PROVE FALSE
    BY <2>1 DEF l
  <2>2. e * (b + 1) <= e * l
    BY <2>1, TimesMonotone
  <2>3. e * (b + 1) = e * b + e
    BY SMT
  <2>4. e * b \in Nat /\ e * l \in Nat
    BY <2>1, SMT
  <2> QED
    BY <2>1, <2>2, <2>3, <2>4
<1>7. b \div d >= q
  BY <1>1, <1>6, DivAtLeast
<1>8. b \div d \in Nat
  BY DivOfNat
<1> QED
  BY <1>1, <1>7, <1>8 DEF q

(* A part of D * d gives at most D for each of d.                          *)
LEMMA DivBelow ==
  ASSUME NEW b \in Nat, NEW D \in Nat, NEW d \in Nat, d > 0, b <= D * d
  PROVE  b \div d <= D
<1>1. D * d \in Nat
  BY SMT
<1>2. b * 1 <= D * d
  BY <1>1
<1>3. b \div d <= D \div 1
  BY <1>2, QuotientBelow
<1>4. D \div 1 = D
  BY SMT
<1> QED
  BY <1>3, <1>4

(* A linear stream topped up while it runs.                                *)
LEMMA ExtendedNeverAhead ==
  ASSUME now \in Nat, NEW s \in Stream, s.deposited > 0, s.curve = "Linear", ~ Matured(s),
         NEW amount \in Nat, NEW delta \in Nat, delta > 0, delta = RateDelta(s, amount)
  PROVE  Vested(Extended(s, amount, delta), now)
           <= VestedLinear(s.deposited, Elapsed(s, now) + 1, Duration(s))
<1> DEFINE u == Extended(s, amount, delta)
           D == s.deposited
           d == Duration(s)
           c == Elapsed(s, now)
           e == Duration(u)
           f == Elapsed(u, now)
<1>1. /\ D \in Nat /\ s.end_time \in Nat /\ s.start_time \in Nat
      /\ d \in Nat /\ c \in Nat /\ StreamTime(s, now) \in Nat
      /\ StreamTime(s, now) < s.end_time
  BY StreamFields, ClockType DEF Matured
<1>2. /\ u.deposited = D + amount /\ u.curve = "Linear"
      /\ u.start_time = s.start_time /\ u.end_time = s.end_time + delta
      /\ StreamTime(u, now) = StreamTime(s, now)
  BY DEF Extended, Stream, StreamTime
<1> HIDE DEF u
<1>3. d > 0
  <2> SUFFICES ASSUME d = 0 PROVE FALSE
    BY <1>1
  <2>1. amount * d = 0
    OBVIOUS
  <2>2. D * delta <= amount * d
    BY <1>1, DivBounds DEF RateDelta
  <2>3. D * delta > 0
    BY <1>1, SMT
  <2> QED
    BY <1>1, <2>1, <2>2, <2>3
<1>4. c < d /\ e = d + delta /\ f = c
  BY <1>1, <1>2, <1>3 DEF Duration, Elapsed, SatSub, Least
<1>5. amount * d <= D * delta + D
  <2> DEFINE w == amount * d
  <2>1. w \in Nat
    BY <1>1, SMT
  <2>2. delta = w \div D
    BY DEF RateDelta
  <2> HIDE DEF w
  <2>3. w < D * delta + D
    BY <1>1, <2>1, <2>2, DivBounds
  <2>4. D * delta + D \in Nat
    BY <1>1, SMT
  <2> QED
    BY <2>1, <2>3, <2>4 DEF w
<1> DEFINE p == (D + amount) * c
           b == D * (c + 1)
<1>6. p \in Nat /\ b \in Nat
  BY <1>1, SMT
<1>7. p * d <= b * e
  BY <1>1, <1>3, <1>4, <1>5, SecondAtMost
<1>8. b <= D * d
  <2>1. c + 1 <= d
    BY <1>1, <1>4
  <2> QED
    BY <1>1, <2>1, TimesMonotone
<1>9. Released(u, now) = Least(p \div e, D + amount)
  <2>1. ~ (e = 0 \/ f >= e)
    BY <1>1, <1>4
  <2> QED
    BY <1>2, <1>4, <2>1, ReleasedInProgress
<1> HIDE DEF p, b
<1>10. p \div e <= b \div d /\ p \div e \in Nat /\ b \div d \in Nat
  BY <1>1, <1>3, <1>4, <1>6, <1>7, QuotientBelow, DivOfNat
<1>11. Vested(u, now) <= p \div e
  BY <1>1, <1>9, <1>10 DEF Vested, Least
<1>12. b \div d <= D
  BY <1>1, <1>3, <1>6, <1>8, DivBelow
<1>13. VestedLinear(D, c + 1, d) = b \div d
  BY <1>1, <1>10, <1>12 DEF VestedLinear, Least, b
<1>14. Vested(u, now) \in Int
  BY <1>1, <1>9, <1>10 DEF Vested, Least
<1> QED
  BY <1>10, <1>11, <1>13, <1>14 DEF u

(* A top-up never accelerates a linear schedule, whoever makes it: at the  *)
(* same instant it shows at most what one more second of the old schedule  *)
(* would.                                                                  *)
THEOREM TopUpsNeverAccelerate == Spec => TopUpNeverAccelerates
<1> DEFINE Slower(s, t) ==
             ( /\ s.curve = "Linear" /\ t.deposited > s.deposited
               /\ CliffReached(s, now) )
             => Vested(t, now) <= VestedLinear(s.deposited, Elapsed(s, now) + 1, Duration(s))
<1>1. IInv /\ [Next]_vars => \A i \in Ids : Slower(streams[i], streams'[i])
  <2> SUFFICES ASSUME IInv, [Next]_vars, NEW i \in Ids, streams[i].curve = "Linear",
                      streams'[i].deposited > streams[i].deposited
               PROVE  Vested(streams'[i], now) <=
                        VestedLinear(streams[i].deposited, Elapsed(streams[i], now) + 1,
                                     Duration(streams[i]))
    OBVIOUS
  <2> DEFINE s == streams[i]
             u == streams'[i]
  <2>1. /\ now \in Nat /\ Sound(s, now) /\ s \in Stream /\ s.deposited \in Nat
        /\ s.withdrawn \in Nat
        /\ Vested(s, now) \in 0 .. s.deposited /\ RecordStep(s, u)
    BY NextOK, IInvParts, StreamParties DEF StepOK, Evolves
  <2>2. u.deposited > s.deposited /\ s.curve = "Linear"
    OBVIOUS
  <2> HIDE DEF s, u
  <2>3. ToppedUpStep(s, u)
    <3>1. ~ (\E payout \in 1 .. Withdrawable(s, now) : u = PaidOut(s, payout, now))
      <4>1. ASSUME NEW payout \in 1 .. Withdrawable(s, now), u = PaidOut(s, payout, now)
            PROVE  u.deposited = s.deposited
        <5>1. payout \in Nat
          BY <2>1, WithdrawableBounds
        <5> QED
          BY <2>1, <4>1, <5>1, PaidOutFields DEF SameSchedule
      <4> QED
        BY <2>1, <2>2, <4>1
    <3>2. ~ (u = Settled(s, now))
      BY <2>1, <2>2, SettledMatures
    <3>3. ~ (Terminal(s) /\ u = [s EXCEPT !.deposited = @ - Dust(s)])
      <4>1. SUFFICES ASSUME Terminal(s), u = [s EXCEPT !.deposited = @ - Dust(s)]
                     PROVE  FALSE
        OBVIOUS
      <4>2. Dust(s) = 0
        BY <2>1, <4>1, SettledHasNoDust DEF Dust
      <4> QED
        BY <2>1, <2>2, <4>1, <4>2, NothingTaken
    <3>4. ASSUME \/ u = s \/ u = Paused(s, now) \/ u = Resumed(s, now)
                 \/ \E to \in Accounts : u = [s EXCEPT !.recipient = to]
          PROVE  FALSE
      <4>1. u.deposited = s.deposited
        BY <2>1, <3>4 DEF Paused, Resumed, Stream
      <4> QED
        BY <2>1, <2>2, <4>1
    <3> QED
      BY <2>1, <3>1, <3>2, <3>3, <3>4 DEF RecordStep
  <2>4. PICK amount \in Nat, delta \in Nat :
          /\ delta = RateDelta(s, amount) /\ delta > 0
          /\ u = Extended(s, amount, delta)
    BY <2>2, <2>3 DEF ToppedUpStep
  <2>5. s.deposited > 0 /\ ~ Matured(s)
    BY <2>1, <2>3 DEF ToppedUpStep, Sound, OwesWhileLive
  <2>6. Vested(u, now) <= VestedLinear(s.deposited, Elapsed(s, now) + 1, Duration(s))
    BY <2>1, <2>2, <2>4, <2>5, ExtendedNeverAhead
  <2> QED
    BY <2>6 DEF s, u
<1> QED
  BY <1>1, Invariance, PTL DEF Spec, TopUpNeverAccelerates

-----------------------------------------------------------------------------
(* The halt.                                                               *)

(* What a halted contract still does to its streams and grants.            *)
CancelsOnly ==
  /\ nextId' = nextId /\ grants' = grants
  /\ \A i \in Ids :
       \/ streams'[i] = streams[i]
       \/ MayCancel(streams[i]) /\ streams'[i] = Settled(streams[i], now)

(* Halted, the contract creates no stream, pays no recipient and changes   *)
(* no grant; batch_cancel and reclaim_dust, which ask no halt guard, do    *)
(* nothing but cancel what is cancellable.                                 *)
THEOREM HaltLeavesCancellation == Spec => HaltAllowsOnlyCancellation
<1>1. IInv /\ [Next]_vars /\ haltedAt # None /\ haltedAt' # None => CancelsOnly
  <2> SUFFICES ASSUME IInv, [Next]_vars, haltedAt # None
               PROVE  CancelsOnly
    OBVIOUS
  <2>1. ~ NotHalted
    BY DEF NotHalted
  <2>2. ASSUME NEW i \in Ids, StreamCall(i)
        PROVE  CancelsOnly
    <3>1. ReclaimDust(i)
      BY <2>1, <2>2 DEF StreamCall, Withdraw, Cancel, TopUp, Pause, Resume, TransferRecipient
    <3> DEFINE s == streams[i]
    <3>2. s \in Stream /\ Sound(s, now) /\ now \in Nat /\ streams \in [Ids -> Stream]
      BY StreamParties, IInvParts
    <3>3. Dust(s) = 0
      BY <3>1, <3>2, SettledHasNoDust DEF Dust, ReclaimDust
    <3>4. [s EXCEPT !.deposited = @ - Dust(s)] = s
      BY <3>2, <3>3, NothingTaken
    <3>5. streams' = [streams EXCEPT ![i] = s]
      BY <3>1, <3>4 DEF ReclaimDust, Write
    <3>6. \A j \in Ids : streams'[j] = streams[j]
      BY <3>2, <3>5
    <3> QED
      BY <3>1, <3>6 DEF ReclaimDust, CancelsOnly
  <2>3. ASSUME NEW a \in Accounts, NEW ids \in Batches(Ids), BatchCancel(a, ids)
        PROVE  CancelsOnly
    <3> DEFINE settled == {ids[k] : k \in DOMAIN ids}
    <3>1. /\ \A k \in DOMAIN ids : MayCancel(streams[ids[k]])
          /\ streams' = [i \in Ids |->
                           IF i \in settled THEN Settled(streams[i], now) ELSE streams[i]]
          /\ nextId' = nextId /\ grants' = grants
      BY <2>3 DEF BatchCancel
    <3>2. \A i \in settled : MayCancel(streams[i])
      BY <3>1
    <3> HIDE DEF settled
    <3> QED
      BY <3>1, <3>2 DEF CancelsOnly
  <2>4. CASE \/ \E a \in HaltOperators : SetHaltOperator(a)
             \/ Halt \/ ResumeContract
             \/ \E t \in Tokens, change \in Rebases : Rebase(t, change)
             \/ Tick \/ UNCHANGED vars
    BY <2>4 DEF SetHaltOperator, Halt, ResumeContract, Rebase, Tick, vars, CancelsOnly
  <2>5. ASSUME NEW i \in Ids, NEW d \in Delegates
        PROVE  ~ DelegateCall(i, d)
    BY <2>1 DEF DelegateCall, DelegateWithdraw, DelegateCancel, DelegateTopUp, DelegatePause,
                DelegateResume, DelegateTransferRecipient, GrantDelegate, RevokeDelegate
  <2> QED
    BY <2>1, <2>2, <2>3, <2>4, <2>5
    DEF Next, CreateStreamWithCliffMode, CreateStreamWithCurve, CreateStreamViaFactory,
        BatchCreate, BatchWithdraw
<1>2. (IInv /\ [Next]_vars /\ haltedAt # None /\ haltedAt' # None => CancelsOnly)
        => (IInv /\ [Next]_vars =>
             (haltedAt # None /\ haltedAt' # None =>
               /\ nextId' = nextId /\ grants' = grants
               /\ \A i \in Ids :
                    \/ streams'[i] = streams[i]
                    \/ /\ MayCancel(streams[i])
                       /\ streams'[i] = Settled(streams[i], now)))
  BY DEF CancelsOnly
<1> QED
  BY <1>1, <1>2, Invariance, PTL DEF Spec, HaltAllowsOnlyCancellation

-----------------------------------------------------------------------------
(* Who may change a stream.                                                *)

(* Nothing earned is lost to s, or a delegate's top-up takes it.           *)
KeepsOrDelegated(i, t) ==
  \/ Vested(t, now) >= Vested(streams[i], now)
  \/ SignedByDelegate(i, "TOP_UP")

Authorized(i) ==
  LET s == streams[i]
      t == streams'[i]
  IN  /\ t.withdrawn # s.withdrawn => SignedFor(i, s.recipient, "WITHDRAW")
      /\ t.status = "Cancelled" /\ ~ Terminal(s) => SignedFor(i, s.sender, "CANCEL")
      /\ t.deposited > s.deposited => s.sender \in signers' /\ KeepsOrDelegated(i, t)
      /\ t.status = "Paused" /\ s.status = "Active" => SignedFor(i, s.sender, "PAUSE")
      /\ t.status = "Active" /\ s.status = "Paused" => SignedFor(i, s.sender, "RESUME")
      /\ t.recipient # s.recipient => SignedFor(i, s.sender, "TRANSFER_RECIPIENT")

(* Nothing needs to be authorized that does not happen.                    *)
LEMMA UntouchedAuthorized ==
  ASSUME NEW i, streams[i] \in Stream, streams'[i] = streams[i]
  PROVE  Authorized(i)
<1>1. streams[i].deposited \in Nat
  BY StreamFields
<1> QED
  BY <1>1 DEF Authorized, Terminal

(* A party's own signature, or a delegate's with a live grant.             *)
LEMMA Signatures ==
  ASSUME NEW i, NEW op
  PROVE  /\ \A party : party \in signers' => SignedFor(i, party, op)
         /\ \A d \in Delegates : d \in signers' /\ CheckDelegate(i, d, op) =>
              \A party : SignedFor(i, party, op)
BY DEF SignedFor, SignedByDelegate, CheckDelegate

(* One operation of the stream i, with the signature it takes.             *)
LEMMA OperationAuthorized ==
  ASSUME IInv, NEW i \in Ids, NEW u, streams'[i] = u,
         \/ /\ \E payout \in 1 .. Withdrawable(streams[i], now) :
                 u = PaidOut(streams[i], payout, now)
            /\ SignedFor(i, streams[i].recipient, "WITHDRAW")
         \/ /\ u = Settled(streams[i], now)
            /\ SignedFor(i, streams[i].sender, "CANCEL")
         \/ /\ \E amount \in Nat, delta \in Nat : u = Extended(streams[i], amount, delta)
            /\ ~ Terminal(streams[i]) /\ streams[i].sender \in signers'
            /\ KeepsOrDelegated(i, u)
         \/ /\ u = Paused(streams[i], now)
            /\ SignedFor(i, streams[i].sender, "PAUSE")
         \/ /\ u = Resumed(streams[i], now)
            /\ SignedFor(i, streams[i].sender, "RESUME")
         \/ /\ \E to \in Accounts : u = [streams[i] EXCEPT !.recipient = to]
            /\ SignedFor(i, streams[i].sender, "TRANSFER_RECIPIENT")
  PROVE  Authorized(i)
<1> DEFINE s == streams[i]
<1>1. /\ s \in Stream /\ Sound(s, now) /\ now \in Nat
      /\ s.deposited \in Nat /\ s.withdrawn \in Nat
      /\ Vested(s, now) \in 0 .. s.deposited
  BY StreamParties, IInvParts
<1>2. streams'[i] = u
  OBVIOUS
<1> HIDE DEF s
<1>3. CASE /\ \E payout \in 1 .. Withdrawable(s, now) : u = PaidOut(s, payout, now)
           /\ SignedFor(i, s.recipient, "WITHDRAW")
  <2>1. PICK payout \in 1 .. Withdrawable(s, now) : u = PaidOut(s, payout, now)
    BY <1>3
  <2>2. payout \in Nat
    BY <1>1, WithdrawableBounds
  <2>3. /\ u.deposited = s.deposited /\ u.recipient = s.recipient
        /\ u.status = s.status \/ u.status = "Depleted"
    BY <1>1, <2>1, <2>2, PaidOutFields DEF SameSchedule
  <2> QED
    BY <1>1, <1>2, <1>3, <2>3 DEF Authorized, Terminal, s
<1>4. CASE u = Settled(s, now) /\ SignedFor(i, s.sender, "CANCEL")
  <2>1. /\ u.deposited = Vested(s, now) /\ u.withdrawn = s.withdrawn
        /\ u.recipient = s.recipient /\ u.status = "Cancelled"
    BY <1>1, <1>4 DEF Settled, Stream
  <2> QED
    BY <1>1, <1>2, <1>4, <2>1 DEF Authorized, s
<1>5. CASE /\ \E amount \in Nat, delta \in Nat : u = Extended(s, amount, delta)
           /\ ~ Terminal(s) /\ s.sender \in signers'
           /\ KeepsOrDelegated(i, u)
  <2>1. /\ u.withdrawn = s.withdrawn /\ u.recipient = s.recipient /\ u.status = s.status
    BY <1>1, <1>5 DEF Extended, Stream
  <2> QED
    BY <1>2, <1>5, <2>1 DEF Authorized, Terminal, s
<1>6. CASE u = Paused(s, now) /\ SignedFor(i, s.sender, "PAUSE")
  <2>1. /\ u.withdrawn = s.withdrawn /\ u.recipient = s.recipient
        /\ u.status = "Paused" /\ u.deposited = s.deposited
    BY <1>1, <1>6 DEF Paused, Stream
  <2> QED
    BY <1>1, <1>2, <1>6, <2>1 DEF Authorized, s
<1>7. CASE u = Resumed(s, now) /\ SignedFor(i, s.sender, "RESUME")
  <2>1. /\ u.withdrawn = s.withdrawn /\ u.recipient = s.recipient
        /\ u.status = "Active" /\ u.deposited = s.deposited
    BY <1>1, <1>7 DEF Resumed, Stream
  <2> QED
    BY <1>1, <1>2, <1>7, <2>1 DEF Authorized, s
<1>8. CASE /\ \E to \in Accounts : u = [s EXCEPT !.recipient = to]
           /\ SignedFor(i, s.sender, "TRANSFER_RECIPIENT")
  <2>1. u.withdrawn = s.withdrawn /\ u.status = s.status /\ u.deposited = s.deposited
    BY <1>1, <1>8 DEF Stream
  <2> QED
    BY <1>1, <1>2, <1>8, <2>1 DEF Authorized, Terminal, s
<1> QED
  BY <1>3, <1>4, <1>5, <1>6, <1>7, <1>8 DEF s

(* What is not written is untouched.                                       *)
LEMMA OneWritten ==
  ASSUME IInv, NEW i \in Ids, NEW u, Write(i, u), Authorized(i)
  PROVE  streams'[i] = u /\ \A j \in Ids : Authorized(j)
<1>1. streams \in [Ids -> Stream] /\ streams' = [streams EXCEPT ![i] = u]
  BY IInvParts DEF Write
<1>2. streams'[i] = u
  BY <1>1
<1>3. ASSUME NEW j \in Ids, j # i
      PROVE  Authorized(j)
  <2>1. streams[j] \in Stream /\ streams'[j] = streams[j]
    BY <1>1, <1>3
  <2> QED
    BY <2>1, UntouchedAuthorized
<1> QED
  BY <1>2, <1>3

(* What is written is what the call writes.                                *)
LEMMA WrittenThere ==
  ASSUME IInv, NEW i \in Ids, NEW u, Write(i, u)
  PROVE  streams'[i] = u
BY IInvParts DEF Write

(* The parties' calls are authorized by the party.                         *)
LEMMA StreamCallAuthorized ==
  ASSUME IInv, NEW i \in Ids, StreamCall(i)
  PROVE  \A j \in Ids : Authorized(j)
<1> DEFINE s == streams[i]
<1>1. /\ s \in Stream /\ Sound(s, now) /\ now \in Nat /\ streams \in [Ids -> Stream]
  BY StreamParties, IInvParts
<1>2. ASSUME NEW payout \in 1 .. Withdrawable(s, now), Withdraw(i, payout)
      PROVE  \A j \in Ids : Authorized(j)
  <2>1. Write(i, PaidOut(s, payout, now)) /\ s.recipient \in signers'
    BY <1>2 DEF Withdraw, Withdrawal
  <2>2. SignedFor(i, s.recipient, "WITHDRAW")
    BY <2>1, Signatures
  <2> QED
    BY <2>1, <2>2, WrittenThere, OperationAuthorized, OneWritten
<1>3. ASSUME Cancel(i)
      PROVE  \A j \in Ids : Authorized(j)
  <2>1. Write(i, Settled(s, now)) /\ s.sender \in signers'
    BY <1>3 DEF Cancel, Cancellation
  <2>2. SignedFor(i, s.sender, "CANCEL")
    BY <2>1, Signatures
  <2> QED
    BY <2>1, <2>2, WrittenThere, OperationAuthorized, OneWritten
<1>4. ASSUME ReclaimDust(i)
      PROVE  \A j \in Ids : Authorized(j)
  <2>1. Dust(s) = 0
    BY <1>1, <1>4, SettledHasNoDust DEF Dust, ReclaimDust
  <2>2. [s EXCEPT !.deposited = @ - Dust(s)] = s
    BY <1>1, <2>1, NothingTaken
  <2>3. Write(i, s)
    BY <1>4, <2>2 DEF ReclaimDust
  <2>4. \A j \in Ids : streams'[j] = streams[j]
    BY <1>1, <2>3 DEF Write
  <2> QED
    BY <1>1, <2>4, UntouchedAuthorized
<1>5. ASSUME NEW amount \in TopUpAmounts, TopUp(i, amount)
      PROVE  \A j \in Ids : Authorized(j)
  <2> DEFINE delta == TopUpDelta(s, amount)
  <2>1. /\ Write(i, Extended(s, amount, delta)) /\ s.sender \in signers'
        /\ ~ Terminal(s) /\ amount > 0
        /\ KeepsOrDelegated(i, Extended(s, amount, delta))
    BY <1>5 DEF TopUp, NotDecreased, KeepsOrDelegated
  <2>2. amount \in Nat
    BY <2>1, ConstantsAssumption
  <2>3. delta \in Nat
    BY <1>1, <2>1, <2>2, RateDeltaType
  <2> HIDE DEF delta
  <2> QED
    BY <2>1, <2>2, <2>3, WrittenThere, OperationAuthorized, OneWritten
<1>6. ASSUME Pause(i)
      PROVE  \A j \in Ids : Authorized(j)
  <2>1. Write(i, Paused(s, now)) /\ s.sender \in signers'
    BY <1>6 DEF Pause
  <2>2. SignedFor(i, s.sender, "PAUSE")
    BY <2>1, Signatures
  <2> QED
    BY <2>1, <2>2, WrittenThere, OperationAuthorized, OneWritten
<1>7. ASSUME Resume(i)
      PROVE  \A j \in Ids : Authorized(j)
  <2>1. Write(i, Resumed(s, now)) /\ s.sender \in signers'
    BY <1>7 DEF Resume
  <2>2. SignedFor(i, s.sender, "RESUME")
    BY <2>1, Signatures
  <2> QED
    BY <2>1, <2>2, WrittenThere, OperationAuthorized, OneWritten
<1>8. ASSUME NEW to \in Accounts, TransferRecipient(i, to)
      PROVE  \A j \in Ids : Authorized(j)
  <2>1. Write(i, [s EXCEPT !.recipient = to]) /\ s.sender \in signers'
    BY <1>8 DEF TransferRecipient
  <2>2. SignedFor(i, s.sender, "TRANSFER_RECIPIENT")
    BY <2>1, Signatures
  <2> QED
    BY <2>1, <2>2, WrittenThere, OperationAuthorized, OneWritten
<1> QED
  BY <1>2, <1>3, <1>4, <1>5, <1>6, <1>7, <1>8 DEF StreamCall

(* The delegates' calls are authorized by a live grant.                    *)
LEMMA DelegateCallAuthorized ==
  ASSUME IInv, NEW i \in Ids, NEW d \in Delegates, DelegateCall(i, d)
  PROVE  \A j \in Ids : Authorized(j)
<1> DEFINE s == streams[i]
<1>1. /\ s \in Stream /\ Sound(s, now) /\ now \in Nat /\ streams \in [Ids -> Stream]
  BY StreamParties, IInvParts
<1>2. ASSUME NEW payout \in 1 .. Withdrawable(s, now), DelegateWithdraw(i, d, payout)
      PROVE  \A j \in Ids : Authorized(j)
  <2>1. /\ Write(i, PaidOut(s, payout, now)) /\ d \in signers'
        /\ CheckDelegate(i, d, "WITHDRAW")
    BY <1>2 DEF DelegateWithdraw, Withdrawal
  <2>2. SignedFor(i, s.recipient, "WITHDRAW")
    BY <2>1, Signatures
  <2> QED
    BY <2>1, <2>2, WrittenThere, OperationAuthorized, OneWritten
<1>3. ASSUME DelegateCancel(i, d)
      PROVE  \A j \in Ids : Authorized(j)
  <2>1. Write(i, Settled(s, now)) /\ d \in signers' /\ CheckDelegate(i, d, "CANCEL")
    BY <1>3 DEF DelegateCancel, Cancellation
  <2>2. SignedFor(i, s.sender, "CANCEL")
    BY <2>1, Signatures
  <2> QED
    BY <2>1, <2>2, WrittenThere, OperationAuthorized, OneWritten
<1>4. ASSUME NEW amount \in TopUpAmounts, DelegateTopUp(i, d, amount)
      PROVE  \A j \in Ids : Authorized(j)
  <2> DEFINE delta == RateDelta(s, amount)
  <2>1. /\ Write(i, Extended(s, amount, delta)) /\ s.sender \in signers'
        /\ ~ Terminal(s) /\ amount > 0
        /\ KeepsOrDelegated(i, Extended(s, amount, delta))
    BY <1>4 DEF DelegateTopUp, KeepsOrDelegated, SignedByDelegate, CheckDelegate
  <2>2. amount \in Nat
    BY <2>1, ConstantsAssumption
  <2>3. delta \in Nat
    BY <1>1, <2>1, <2>2, RateDeltaType
  <2> HIDE DEF delta
  <2> QED
    BY <2>1, <2>2, <2>3, WrittenThere, OperationAuthorized, OneWritten
<1>5. ASSUME DelegatePause(i, d)
      PROVE  \A j \in Ids : Authorized(j)
  <2>1. Write(i, Paused(s, now)) /\ d \in signers' /\ CheckDelegate(i, d, "PAUSE")
    BY <1>5 DEF DelegatePause
  <2>2. SignedFor(i, s.sender, "PAUSE")
    BY <2>1, Signatures
  <2> QED
    BY <2>1, <2>2, WrittenThere, OperationAuthorized, OneWritten
<1>6. ASSUME DelegateResume(i, d)
      PROVE  \A j \in Ids : Authorized(j)
  <2>1. Write(i, Resumed(s, now)) /\ d \in signers' /\ CheckDelegate(i, d, "RESUME")
    BY <1>6 DEF DelegateResume
  <2>2. SignedFor(i, s.sender, "RESUME")
    BY <2>1, Signatures
  <2> QED
    BY <2>1, <2>2, WrittenThere, OperationAuthorized, OneWritten
<1>7. ASSUME NEW to \in Accounts, DelegateTransferRecipient(i, d, to)
      PROVE  \A j \in Ids : Authorized(j)
  <2>1. /\ Write(i, [s EXCEPT !.recipient = to]) /\ d \in signers'
        /\ CheckDelegate(i, d, "TRANSFER_RECIPIENT")
    BY <1>7 DEF DelegateTransferRecipient
  <2>2. SignedFor(i, s.sender, "TRANSFER_RECIPIENT")
    BY <2>1, Signatures
  <2> QED
    BY <2>1, <2>2, WrittenThere, OperationAuthorized, OneWritten
<1>8. CASE \/ \E ops \in GrantOps, expires_at \in Expiries :
                GrantDelegate(i, d, ops, expires_at)
           \/ \E grantor \in Accounts : RevokeDelegate(i, grantor, d)
  <2>1. streams' = streams
    BY <1>8 DEF GrantDelegate, RevokeDelegate
  <2> QED
    BY <1>1, <2>1, UntouchedAuthorized
<1> QED
  BY <1>2, <1>3, <1>4, <1>5, <1>6, <1>7, <1>8 DEF DelegateCall

(* A batch is authorized by the party all its streams have in common.      *)
LEMMA BatchAuthorized ==
  ASSUME IInv, NEW a \in Accounts, NEW ids \in Batches(Ids),
         BatchWithdraw(a, ids) \/ BatchCancel(a, ids), NEW i \in Ids
  PROVE  Authorized(i)
<1>1. streams[i] \in Stream /\ IdList(ids)
  BY StreamParties, BatchOfIds
<1>2. CASE streams'[i] = streams[i]
  BY <1>1, <1>2, UntouchedAuthorized
<1>3. CASE BatchWithdraw(a, ids) /\ streams'[i] # streams[i]
  <2> DEFINE available == [k \in 1 .. Len(ids) |-> Withdrawable(streams[ids[k]], now)]
             paid == {ids[k] : k \in {j \in DOMAIN ids : available[j] > 0}}
             all  == Withdrawable(streams[i], now)
  <2>1. /\ streams'[i] = IF i \in paid THEN PaidOut(streams[i], all, now) ELSE streams[i]
        /\ \A k \in DOMAIN ids : streams[ids[k]].recipient = a
        /\ signers' = {a}
    BY <1>3 DEF BatchWithdraw
  <2>2. i \in paid
    BY <1>3, <2>1
  <2>3. PICK k \in 1 .. Len(ids) : ids[k] = i /\ available[k] > 0
    BY <1>1, <2>2 DEF IdList
  <2>4. all > 0 /\ all \in Nat
    BY <1>1, <2>3, StreamParties DEF Withdrawable, Greatest
  <2>5. streams[i].recipient = a
    BY <1>1, <2>1, <2>3 DEF IdList
  <2>6. SignedFor(i, streams[i].recipient, "WITHDRAW")
    BY <2>1, <2>5, Signatures
  <2>7. all \in 1 .. all /\ streams'[i] = PaidOut(streams[i], all, now)
    BY <2>1, <2>2, <2>4
  <2> HIDE DEF all, paid, available
  <2> QED
    BY <2>6, <2>7, OperationAuthorized DEF all
<1>4. CASE BatchCancel(a, ids) /\ streams'[i] # streams[i]
  <2> DEFINE settled == {ids[k] : k \in DOMAIN ids}
  <2>1. /\ streams'[i] = IF i \in settled THEN Settled(streams[i], now) ELSE streams[i]
        /\ \A k \in DOMAIN ids : streams[ids[k]].sender = a
        /\ signers' = {a}
    BY <1>4 DEF BatchCancel
  <2>2. i \in settled
    BY <1>4, <2>1
  <2>3. streams[i].sender = a
    BY <2>1, <2>2
  <2>4. SignedFor(i, streams[i].sender, "CANCEL")
    BY <2>1, <2>3, Signatures
  <2>5. streams'[i] = Settled(streams[i], now)
    BY <2>1, <2>2
  <2> QED
    BY <2>4, <2>5, OperationAuthorized
<1> QED
  BY <1>2, <1>3, <1>4

(* Every step is authorized, for every stream.                             *)
LEMMA StepAuthorized ==
  ASSUME IInv, [Next]_vars
  PROVE  \A i \in Ids : Authorized(i)
<1>1. streams \in [Ids -> Stream] /\ nextId \in Nat
  BY IInvParts
<1>2. ASSUME NEW reqs, RequestList(reqs), CreateStreams(reqs), NEW i \in Ids
      PROVE  Authorized(i)
  <2>1. /\ Len(reqs) \in Nat
        /\ streams' = [j \in 0 .. nextId + Len(reqs) - 1 |->
                         IF j < nextId THEN streams[j]
                         ELSE NewStream(reqs[j - nextId + 1])]
    BY <1>2 DEF CreateStreams, Enrol, RequestList
  <2>2. i < nextId /\ i \in 0 .. nextId + Len(reqs) - 1
    BY <1>1, <1>2, <2>1 DEF Ids
  <2>3. streams'[i] = streams[i]
    BY <2>1, <2>2
  <2> QED
    BY <1>1, <1>2, <2>3, UntouchedAuthorized
<1>3. ASSUME NEW req \in CreateRequests, CreateStreams(<<req>>), NEW i \in Ids
      PROVE  Authorized(i)
  BY <1>2, <1>3, OneRequest
<1>4. ASSUME NEW reqs \in Batches(CreateRequests), CreateStreams(reqs), NEW i \in Ids
      PROVE  Authorized(i)
  BY <1>2, <1>4, BatchOfRequests
<1>5. ASSUME streams' = streams, NEW i \in Ids
      PROVE  Authorized(i)
  BY <1>1, <1>5, UntouchedAuthorized
<1>6. CASE \/ \E a \in HaltOperators : SetHaltOperator(a)
           \/ Halt \/ ResumeContract
           \/ \E t \in Tokens, change \in Rebases : Rebase(t, change)
           \/ Tick \/ UNCHANGED vars
  <2>1. streams' = streams
    BY <1>6 DEF SetHaltOperator, Halt, ResumeContract, Rebase, Tick, vars
  <2> QED
    BY <1>5, <2>1
<1>7. CASE \/ \E i \in Ids : StreamCall(i)
           \/ \E i \in Ids, d \in Delegates : DelegateCall(i, d)
  BY <1>7, StreamCallAuthorized, DelegateCallAuthorized
<1>8. CASE \E a \in Accounts, ids \in Batches(Ids) : BatchWithdraw(a, ids) \/ BatchCancel(a, ids)
  BY <1>8, BatchAuthorized
<1> QED
  BY <1>3, <1>4, <1>6, <1>7, <1>8
  DEF Next, CreateStreamWithCliffMode, CreateStreamWithCurve, CreateStreamViaFactory,
      BatchCreate

(* No call changes a stream without the signature of the party whose right *)
(* it touches, or of a delegate whose grant for exactly that is still      *)
(* alive; and only its own signature moves a sender's tokens in.           *)
THEOREM ChangesAreAuthorized == Spec => EveryChangeIsAuthorized
<1> DEFINE Signed(i) ==
             LET s == streams[i]
                 t == streams'[i]
             IN  /\ t.withdrawn # s.withdrawn => SignedFor(i, s.recipient, "WITHDRAW")
                 /\ t.status = "Cancelled" /\ ~ Terminal(s) => SignedFor(i, s.sender, "CANCEL")
                 /\ t.deposited > s.deposited => s.sender \in signers'
                 /\ t.status = "Paused" /\ s.status = "Active" => SignedFor(i, s.sender, "PAUSE")
                 /\ t.status = "Active" /\ s.status = "Paused" => SignedFor(i, s.sender, "RESUME")
                 /\ t.recipient # s.recipient =>
                      SignedFor(i, s.sender, "TRANSFER_RECIPIENT")
<1>1. IInv /\ [Next]_vars => \A i \in Ids : Signed(i)
  BY StepAuthorized DEF Authorized
<1> QED
  BY <1>1, Invariance, PTL DEF Spec, EveryChangeIsAuthorized

-----------------------------------------------------------------------------
(* What is earned.                                                         *)

Earned == \A i \in Ids : streams[i].withdrawn <= Vested(streams[i], now)

EarnedInv == IInv /\ GrantsGiven /\ CurvesAsked /\ Earned

(* In one step a stream moves at that instant, or time passes over it.     *)
LEMMA StreamMoves ==
  ASSUME IInv, Evolves, NEW i \in Ids, FairStep(streams[i], streams'[i])
  PROVE  \/ now' = now /\ RecordMove(streams[i], streams'[i])
         \/ /\ streams'[i] = streams[i] /\ now \in Nat /\ now' \in Nat
            /\ Vested(streams[i], now) <= Vested(streams[i], now')
<1>1. /\ now \in Nat /\ now' \in Nat /\ now <= now'
      /\ Sound(streams[i], now) /\ RecordStep(streams[i], streams'[i])
  BY IInvParts DEF Evolves
<1>2. CASE now' = now
  BY <1>1, <1>2, RecordStepMoves
<1>3. CASE streams' = streams
  BY <1>1, <1>3, VestedMonotone DEF Sound
<1> QED
  BY <1>2, <1>3 DEF Evolves

(* What a stream shows after a step.                                       *)
LEMMA EvolvedVests ==
  ASSUME IInv', now' \in Nat, NEW i \in Ids'
  PROVE  /\ streams'[i] \in Stream /\ streams'[i].deposited \in Nat
         /\ Vested(streams'[i], now') \in 0 .. streams'[i].deposited
<1>1. Sound(streams'[i], now')
  BY DEF IInv, RecordsSound
<1>2. streams'[i] \in Stream
  BY <1>1 DEF Sound
<1> QED
  BY <1>2, VestedBounds, StreamFields

(* An id below the counter is one.                                         *)
LEMMA CountedBelow ==
  ASSUME NEW n \in Nat, NEW i \in Nat, i < n
  PROVE  i \in 0 .. n - 1
OBVIOUS

(* An id issued stays one.                                                 *)
LEMMA IdsStay ==
  ASSUME IInv, Evolves, NEW i \in Ids
  PROVE  i \in Ids'
<1>1. nextId \in Nat /\ nextId' \in Nat /\ nextId <= nextId'
  BY IInvParts DEF Evolves
<1>2. i \in Nat /\ i < nextId
  BY <1>1, BelowCount DEF Ids
<1>3. i < nextId'
  BY <1>1, <1>2
<1>4. i \in 0 .. nextId' - 1
  BY <1>1, <1>2, <1>3, CountedBelow
<1> QED
  BY <1>4, Zenon DEF Ids

(* So no step takes back what is earned.                                   *)
LEMMA StreamEarns ==
  ASSUME IInv, Evolves, NEW i \in Ids, FairStep(streams[i], streams'[i])
  PROVE  Vested(streams'[i], now') >= Vested(streams[i], now)
<1>1. Vested(streams[i], now) \in Int
  BY StreamParties
<1> QED
  BY <1>1, StreamMoves DEF RecordMove, RestMove, FundMove, PayMove, CloseMove

(* Whoever delegates what, the one step that takes back earnings is a      *)
(* delegate's top-up of a stream that is not linear, with a live grant and *)
(* the sender's signature beside its own.                                  *)
THEOREM ReductionsAreDelegated == Spec => OnlyDelegatedTopUpsReduce
<1> DEFINE Reduced(i) ==
             /\ streams[i].curve # "Linear" /\ streams'[i].deposited > streams[i].deposited
             /\ streams[i].sender \in signers'
             /\ SignedByDelegate(i, "TOP_UP")
<1>1. IInv /\ [Next]_vars =>
        \A i \in Ids : Vested(streams'[i], now') < Vested(streams[i], now) => Reduced(i)
  <2> SUFFICES ASSUME IInv, [Next]_vars, NEW i \in Ids,
                      Vested(streams'[i], now') < Vested(streams[i], now)
               PROVE  Reduced(i)
    OBVIOUS
  <2>1. /\ Evolves /\ Authorized(i) /\ Vested(streams[i], now) \in Nat
        /\ streams[i] \in Stream /\ streams[i].deposited \in Nat /\ now \in Nat
    BY NextOK, StepAuthorized, StreamParties, IInvParts DEF StepOK
  <2>2. Vested(streams'[i], now') \in Int
    BY <2>1, NextIInv, IdsStay, EvolvedVests DEF Evolves
  <2>3. ~ FairStep(streams[i], streams'[i])
    BY <2>1, <2>2, StreamEarns
  <2>4. ToppedUpStep(streams[i], streams'[i]) /\ streams[i].curve # "Linear"
    BY <2>3 DEF FairStep
  <2>5. streams'[i].deposited > streams[i].deposited
    BY <2>1, <2>4 DEF ToppedUpStep, Extended, Stream
  <2>6. now' = now
    BY <2>1, <2>5 DEF Evolves
  <2>7. ~ (Vested(streams'[i], now) >= Vested(streams[i], now))
    BY <2>1, <2>2, <2>6
  <2> QED
    BY <2>1, <2>4, <2>5, <2>7 DEF Authorized, KeepsOrDelegated
<1> QED
  BY <1>1, Invariance, PTL DEF Spec, OnlyDelegatedTopUpsReduce

(* Nor lets a payout outrun it.                                            *)
LEMMA PayoutsStayEarned ==
  ASSUME IInv, IInv', Evolves, NEW i \in Ids',
         i \in Ids => /\ FairStep(streams[i], streams'[i])
                      /\ streams[i].withdrawn <= Vested(streams[i], now)
  PROVE  streams'[i].withdrawn <= Vested(streams'[i], now')
<1>1. now' \in Nat /\ Vested(streams'[i], now') \in Nat
  BY EvolvedVests DEF Evolves
<1>2. CASE i \in Ids
  <2>1. /\ streams[i].withdrawn \in Nat /\ Vested(streams[i], now) \in Nat
        /\ streams[i].withdrawn <= Vested(streams[i], now)
    BY <1>2, StreamParties
  <2>2. Vested(streams'[i], now') >= Vested(streams[i], now)
    BY <1>2, StreamEarns
  <2>3. \/ streams'[i].withdrawn = streams[i].withdrawn
        \/ now' = now /\ PayMove(streams[i], streams'[i])
    BY <1>2, StreamMoves DEF RecordMove, RestMove, FundMove, CloseMove
  <2>4. CASE streams'[i].withdrawn = streams[i].withdrawn
    BY <1>1, <2>1, <2>2, <2>4
  <2>5. CASE now' = now /\ PayMove(streams[i], streams'[i])
    BY <1>1, <2>1, <2>5 DEF PayMove
  <2> QED
    BY <2>3, <2>4, <2>5
<1>3. CASE IssuedStep(streams'[i])
  <2>1. streams'[i].withdrawn = 0
    BY <1>3 DEF IssuedStep, NewStream
  <2> QED
    BY <1>1, <2>1
<1> QED
  BY <1>2, <1>3, OldOrNew

LEMMA EarnedKept ==
  ASSUME EarnedInv, NoCurvedDelegation, [Next]_vars
  PROVE  EarnedInv'
<1>1. IInv' /\ Evolves /\ GrantsGiven' /\ CurvesAsked'
  BY NextOK, NextIInv, GrantsGivenKept, CurvesAskedKept DEF EarnedInv, StepOK
<1>2. ASSUME NEW i \in Ids'
      PROVE  streams'[i].withdrawn <= Vested(streams'[i], now')
  <2>1. i \in Ids => /\ FairStep(streams[i], streams'[i])
                     /\ streams[i].withdrawn <= Vested(streams[i], now)
    BY TopUpsFair DEF EarnedInv, Earned, FairStep
  <2> QED
    BY <1>1, <2>1, PayoutsStayEarned DEF EarnedInv
<1> QED
  BY <1>1, <1>2 DEF EarnedInv, Earned

(* It holds before the first call.                                         *)
LEMMA InitEarned == Init => EarnedInv
<1> SUFFICES ASSUME Init
             PROVE  EarnedInv
  OBVIOUS
<1>1. IInv
  BY InitIInv
<1>2. Ids = {}
  BY DEF Init, Ids
<1>3. GrantsGiven
  <2>1. nextId <= MaxStreams
    BY ConstantsAssumption DEF Init
  <2>2. \A p \in AllIds \X Delegates : grants[p].ops = {}
    BY DEF Init, NoGrant
  <2> QED
    BY <2>1, <2>2 DEF GrantsGiven
<1> QED
  BY <1>1, <1>2, <1>3 DEF EarnedInv, CurvesAsked, Earned

(* The invariant of what is earned.                                        *)
LEMMA EarnedInvariance ==
  ASSUME NoCurvedDelegation
  PROVE  Spec => []EarnedInv
<1>1. Init => EarnedInv
  BY InitEarned
<1>2. EarnedInv /\ [Next]_vars => EarnedInv'
  BY EarnedKept
<1> QED
  BY <1>1, <1>2, PTL DEF Spec

(* I1 of accrual.rs, where no delegate tops up a curved stream: however    *)
(* calls and ledgers follow each other, no recipient has drawn more than   *)
(* it has earned, nor earned more than was deposited.                      *)
THEOREM EarningsCoverPayouts ==
  ASSUME NoCurvedDelegation
  PROVE  Spec => []WithdrawnVestedDeposited
<1>1. EarnedInv => WithdrawnVestedDeposited
  <2> SUFFICES ASSUME EarnedInv, NEW i \in Ids
               PROVE  /\ 0 <= streams[i].withdrawn
                      /\ streams[i].withdrawn <= Vested(streams[i], now)
                      /\ Vested(streams[i], now) <= streams[i].deposited
    BY DEF WithdrawnVestedDeposited
  <2> QED
    BY StreamParties DEF EarnedInv, Earned
<1> QED
  BY <1>1, EarnedInvariance, PTL

(* Everything the contract owes can be paid at once: each stream's         *)
(* liability is what its recipient may draw and its sender get back, both  *)
(* possibly nothing but never less, and the money for all of them is there. *)
AllCanBePaid ==
  /\ \A i \in Ids :
       LET s == streams[i]
       IN  /\ Withdrawable(s, now) \in Nat /\ Refundable(s, now) \in Nat
           /\ Liability(s) = Withdrawable(s, now) + Refundable(s, now)
  /\ \A t \in Tokens : held[t] >= Claims(t)

(* No stream is ever paid with another's money, where no delegate tops up  *)
(* a curved stream and no token takes from the contract's balance.  The    *)
(* first condition is needed: a stream left with more paid than earned is  *)
(* refunded, when it is cancelled, more than it still holds.               *)
THEOREM EverybodyCanBePaid ==
  ASSUME NoTokenTakes, NoCurvedDelegation
  PROVE  Spec => []AllCanBePaid
<1>1. IInv /\ WithdrawnVestedDeposited =>
        \A i \in Ids :
          /\ Withdrawable(streams[i], now) \in Nat /\ Refundable(streams[i], now) \in Nat
          /\ Liability(streams[i])
               = Withdrawable(streams[i], now) + Refundable(streams[i], now)
  <2> SUFFICES ASSUME IInv, WithdrawnVestedDeposited, NEW i \in Ids
               PROVE  /\ Withdrawable(streams[i], now) \in Nat
                      /\ Refundable(streams[i], now) \in Nat
                      /\ Liability(streams[i])
                           = Withdrawable(streams[i], now) + Refundable(streams[i], now)
    OBVIOUS
  <2>1. /\ streams[i].deposited \in Nat /\ streams[i].withdrawn \in Nat
        /\ Vested(streams[i], now) \in Nat
        /\ streams[i].withdrawn <= Vested(streams[i], now)
        /\ Vested(streams[i], now) <= streams[i].deposited
    BY StreamParties DEF WithdrawnVestedDeposited
  <2>2. Withdrawable(streams[i], now) = Vested(streams[i], now) - streams[i].withdrawn
    BY <2>1 DEF Withdrawable, Greatest
  <2> QED
    BY <2>1, <2>2 DEF Refundable, Liability
<1>2. IInv /\ WithdrawnVestedDeposited /\ (\A t \in Tokens : held[t] >= Claims(t))
        => AllCanBePaid
  BY <1>1 DEF AllCanBePaid
<1> QED
  BY <1>2, Invariance, EarningsCoverPayouts, StreamsStayFunded, PTL

(* I1 of accrual.rs for linear streams, whatever is delegated: a delegate's *)
(* top-up keeps their rate, and so can never leave more paid than earned.  *)
LinearCovered ==
  \A i \in Ids : streams[i].curve = "Linear" =>
    /\ 0 <= streams[i].withdrawn
    /\ streams[i].withdrawn <= Vested(streams[i], now)
    /\ Vested(streams[i], now) <= streams[i].deposited

LEMMA LinearCoveredKept ==
  ASSUME IInv, LinearCovered, [Next]_vars
  PROVE  LinearCovered'
<1>1. IInv' /\ Evolves
  BY NextOK, NextIInv DEF StepOK
<1> SUFFICES ASSUME NEW i \in Ids', streams'[i].curve = "Linear"
             PROVE  /\ 0 <= streams'[i].withdrawn
                    /\ streams'[i].withdrawn <= Vested(streams'[i], now')
                    /\ Vested(streams'[i], now') <= streams'[i].deposited
  BY DEF LinearCovered
<1>2. i \in Ids => streams[i].curve = "Linear"
  BY <1>1, StreamParties, RecordTerms DEF Evolves
<1>3. i \in Ids => /\ FairStep(streams[i], streams'[i])
                   /\ streams[i].withdrawn <= Vested(streams[i], now)
  BY <1>2 DEF LinearCovered, FairStep
<1>4. streams'[i].withdrawn <= Vested(streams'[i], now')
  BY <1>1, <1>3, PayoutsStayEarned
<1>5. /\ streams'[i].withdrawn \in Nat /\ streams'[i].deposited \in Nat
      /\ Vested(streams'[i], now') \in 0 .. streams'[i].deposited
  BY <1>1, EvolvedVests, StreamFields DEF Evolves
<1> QED
  BY <1>4, <1>5

THEOREM LinearEarningsCoverPayouts == Spec => []LinearCovered
<1>1. Init => LinearCovered
  BY DEF Init, Ids, LinearCovered
<1>2. IInv /\ LinearCovered /\ [Next]_vars => LinearCovered'
  BY LinearCoveredKept
<1> QED
  BY <1>1, <1>2, Invariance, PTL DEF Spec

(* I2 and I3 of accrual.rs under the same condition: no step of anybody    *)
(* takes back what a recipient has earned.                                 *)
THEOREM NothingEarnedIsLost ==
  ASSUME NoCurvedDelegation
  PROVE  Spec => VestedNeverDecreases
<1>1. EarnedInv /\ [Next]_vars =>
        \A i \in Ids : Vested(streams'[i], now') >= Vested(streams[i], now)
  BY NextOK, TopUpsFair, StreamEarns DEF EarnedInv, StepOK, FairStep
<1> QED
  BY <1>1, EarnedInvariance, PTL DEF Spec, VestedNeverDecreases

(* Pair 4 of docs/same-ledger-ordering.md under the same condition: within *)
(* one ledger a withdrawal and a cancellation commute, on every curve.     *)
THEOREM OrderDoesNotMatter ==
  ASSUME NoCurvedDelegation
  PROVE  Spec => []EitherOrderSettlesAlike
<1>1. EarnedInv => EitherOrderSettlesAlike
  <2> SUFFICES ASSUME EarnedInv, NEW i \in Ids,
                      streams[i].cancellable, ~ Terminal(streams[i])
               PROVE  LET s         == streams[i]
                          available == Withdrawable(s, now)
                          drawn     == PaidOut(s, available, now)
                          cancelled == Settled(s, now)
                      IN  /\ cancelled.withdrawn + Withdrawable(cancelled, now) = drawn.withdrawn
                          /\ Refundable(drawn, now) = Refundable(s, now)
                          /\ Liability(cancelled) = Withdrawable(cancelled, now)
    BY DEF EitherOrderSettlesAlike
  <2> DEFINE s         == streams[i]
             available == Withdrawable(s, now)
             drawn     == PaidOut(s, available, now)
             cancelled == Settled(s, now)
  <2>1. /\ Sound(s, now) /\ s \in Stream /\ now \in Nat
        /\ s.withdrawn \in Nat /\ s.deposited \in Nat
        /\ Vested(s, now) \in 0 .. s.deposited
        /\ s.withdrawn <= Vested(s, now)
    BY IInvParts, StreamParties DEF EarnedInv, Earned
  <2>2. available = Vested(s, now) - s.withdrawn /\ available \in Nat
    BY <2>1 DEF Withdrawable, Greatest
  <2>3. drawn.withdrawn = s.withdrawn + available
    BY <2>1, <2>2, PaidOutFields
  <2>4. Vested(drawn, now) = Vested(s, now) /\ drawn.deposited = s.deposited
    <3>1. CASE available = 0
      <4>1. ~ (s.withdrawn + available >= s.deposited)
        BY <2>1, <3>1 DEF Sound, OwesWhileLive
      <4> HIDE DEF s, available
      <4>2. ~ (s.withdrawn + available >= s.deposited /\ s.status # "Cancelled")
        BY <4>1
      <4>3. SameSchedule(s, drawn) /\ drawn.paused_at = s.paused_at
            /\ drawn.paused_total = s.paused_total
        BY <2>1, <2>2, <4>2, PaidOutFields
      <4> HIDE DEF drawn
      <4>4. StreamTime(drawn, now) = StreamTime(s, now)
        BY <4>3 DEF StreamTime
      <4> QED
        BY <4>3, <4>4, VestedReadsSchedule DEF SameSchedule
    <3>2. CASE available > 0
      <4>1. available \in 1 .. Withdrawable(s, now)
        BY <2>2, <3>2
      <4> QED
        BY <2>1, <4>1, PaidOutMoves DEF PayMove
    <3> QED
      BY <2>2, <3>1, <3>2
  <2>5. /\ cancelled.withdrawn = s.withdrawn
        /\ cancelled.deposited = Vested(s, now)
        /\ Vested(cancelled, now) = Vested(s, now)
    <3>1. cancelled.deposited = Vested(s, now) /\ Vested(cancelled, now) = Vested(s, now)
      BY <2>1, SettledMatures
    <3>2. cancelled.withdrawn = s.withdrawn
      BY <2>1 DEF Settled, Stream
    <3> QED
      BY <3>1, <3>2
  <2> HIDE DEF drawn, cancelled, available, s
  <2>6. Withdrawable(cancelled, now) = Vested(s, now) - s.withdrawn
    BY <2>1, <2>5 DEF Withdrawable, Greatest
  <2>7. cancelled.withdrawn + Withdrawable(cancelled, now) = drawn.withdrawn
    BY <2>1, <2>2, <2>3, <2>5, <2>6
  <2>8. Refundable(drawn, now) = Refundable(s, now)
    BY <2>4 DEF Refundable
  <2>9. Liability(cancelled) = Withdrawable(cancelled, now)
    BY <2>5, <2>6 DEF Liability
  <2> QED
    BY <2>7, <2>8, <2>9, Zenon DEF s, available, drawn, cancelled
<1> QED
  BY <1>1, EarnedInvariance, PTL

-----------------------------------------------------------------------------
(* The contract implements VestingPromise.                                 *)

(* What the mapping shows of an id.                                        *)
ShownTotal(i) == IF i < nextId THEN streams[i].deposited ELSE 0
ShownEarned(i) == IF i < nextId THEN Vested(streams[i], now) ELSE 0
ShownPaid(i) == IF i < nextId THEN streams[i].withdrawn ELSE 0
ShownClosed(i) == i < nextId /\ Terminal(streams[i])

(* One abstract move from (t, e, p, c) to (u, f, q, d).                    *)
ShownMove(t, e, p, c, u, f, q, d) ==
  \/ u = t /\ f = e /\ q = p /\ (d <=> c)
  \/ ~ c /\ ~ d /\ u > t /\ f \in e .. u /\ q = p
  \/ f \in e .. t /\ u = t /\ q = p /\ (d <=> c)
  \/ q \in p + 1 .. e /\ (d <=> c \/ q = t) /\ u = t /\ f = e
  \/ ~ c /\ d /\ u = e /\ f = e /\ q = p

ShownMoved(i) ==
  ShownMove(ShownTotal(i), ShownEarned(i), ShownPaid(i), ShownClosed(i),
            ShownTotal(i)', ShownEarned(i)', ShownPaid(i)', ShownClosed(i)')

(* Shown moves of all ids are a step of the promise.                       *)
LEMMA ShownMovesMakeAStep ==
  ASSUME \A i \in AllIds : ShownMoved(i)
  PROVE  Promise!Next
<1> SUFFICES ASSUME NEW i \in AllIds
             PROVE  Promise!Move(i)
  BY DEF Promise!Next
<1> DEFINE c == ShownClosed(i)
           d == ShownClosed(i)'
<1>1. ShownMoved(i)
  OBVIOUS
<1>2. AllIds' = AllIds
  BY DEF AllIds
<1>3. c \in BOOLEAN /\ d \in BOOLEAN
  BY DEF ShownClosed
<1>4. CASE /\ ShownTotal(i)' = ShownTotal(i) /\ ShownEarned(i)' = ShownEarned(i)
           /\ ShownPaid(i)' = ShownPaid(i) /\ (d <=> c)
  <2>1. d = c
    BY <1>3, <1>4
  <2>2. Promise!Rest(i)
    BY <1>2, <1>4, <2>1, Zenon
    DEF Promise!Rest, ShownTotal, ShownEarned, ShownPaid, ShownClosed
  <2> QED
    BY <2>2 DEF Promise!Move
<1>5. CASE /\ ~ c /\ ~ d /\ ShownTotal(i)' > ShownTotal(i)
           /\ ShownEarned(i)' \in ShownEarned(i) .. ShownTotal(i)'
           /\ ShownPaid(i)' = ShownPaid(i)
  <2>1. Promise!Fund(i)
    BY <1>2, <1>5, Zenon
    DEF Promise!Fund, ShownTotal, ShownEarned, ShownPaid, ShownClosed
  <2> QED
    BY <2>1 DEF Promise!Move
<1>6. CASE /\ ShownEarned(i)' \in ShownEarned(i) .. ShownTotal(i)
           /\ ShownTotal(i)' = ShownTotal(i)
           /\ ShownPaid(i)' = ShownPaid(i) /\ (d <=> c)
  <2>1. d = c
    BY <1>3, <1>6
  <2>2. Promise!Earn(i)
    BY <1>2, <1>6, <2>1, Zenon
    DEF Promise!Earn, ShownTotal, ShownEarned, ShownPaid, ShownClosed
  <2> QED
    BY <2>2 DEF Promise!Move
<1>7. CASE /\ ShownPaid(i)' \in ShownPaid(i) + 1 .. ShownEarned(i)
           /\ (d <=> c \/ ShownPaid(i)' = ShownTotal(i))
           /\ ShownTotal(i)' = ShownTotal(i) /\ ShownEarned(i)' = ShownEarned(i)
  <2>1. d = (c \/ ShownPaid(i)' = ShownTotal(i))
    BY <1>3, <1>7
  <2>2. Promise!Pay(i)
    BY <1>2, <1>7, <2>1, Zenon
    DEF Promise!Pay, ShownTotal, ShownEarned, ShownPaid, ShownClosed
  <2> QED
    BY <2>2 DEF Promise!Move
<1>8. CASE /\ ~ c /\ d /\ ShownTotal(i)' = ShownEarned(i)
           /\ ShownEarned(i)' = ShownEarned(i) /\ ShownPaid(i)' = ShownPaid(i)
  <2>1. Promise!Close(i)
    BY <1>2, <1>8, Zenon
    DEF Promise!Close, ShownTotal, ShownEarned, ShownPaid, ShownClosed
  <2> QED
    BY <2>1 DEF Promise!Move
<1> QED
  BY <1>1, <1>4, <1>5, <1>6, <1>7, <1>8, Zenon DEF ShownMoved, ShownMove

(* A record's move, as it is shown.                                        *)
LEMMA RecordMoveShown ==
  ASSUME NEW s, NEW u, RecordMove(s, u), NEW e, NEW f,
         e = Vested(s, now), f = Vested(u, now),
         e \in Nat, f \in 0 .. u.deposited
  PROVE  ShownMove(s.deposited, e, s.withdrawn, Terminal(s),
                   u.deposited, f, u.withdrawn, Terminal(u))
<1>1. CASE RestMove(s, u)
  BY <1>1 DEF RestMove, ShownMove
<1>2. CASE FundMove(s, u)
  <2>1. f \in e .. u.deposited
    BY <1>2 DEF FundMove
  <2> QED
    BY <1>2, <2>1 DEF FundMove, ShownMove
<1>3. CASE PayMove(s, u)
  BY <1>3 DEF PayMove, ShownMove
<1>4. CASE CloseMove(s, u)
  BY <1>4 DEF CloseMove, ShownMove
<1> QED
  BY <1>1, <1>2, <1>3, <1>4 DEF RecordMove

(* What a fair step does to a stream, as it is shown.                      *)
LEMMA OldStreamShown ==
  ASSUME IInv, IInv', Evolves, NEW i \in Ids, FairStep(streams[i], streams'[i])
  PROVE  ShownMove(streams[i].deposited, Vested(streams[i], now),
                   streams[i].withdrawn, Terminal(streams[i]),
                   streams'[i].deposited, Vested(streams'[i], now'),
                   streams'[i].withdrawn, Terminal(streams'[i]))
<1> DEFINE s == streams[i]
           u == streams'[i]
<1>1. s.deposited \in Nat /\ s.withdrawn \in Nat /\ Vested(s, now) \in 0 .. s.deposited
  BY StreamParties
<1>2. Vested(u, now') \in 0 .. u.deposited
  BY IdsStay, EvolvedVests DEF Evolves
<1>3. \/ now' = now /\ RecordMove(s, u)
      \/ u = s /\ Vested(s, now) <= Vested(s, now')
  BY StreamMoves
<1> HIDE DEF s, u
<1>4. CASE now' = now /\ RecordMove(s, u)
  <2>1. ShownMove(s.deposited, Vested(s, now), s.withdrawn, Terminal(s),
                  u.deposited, Vested(u, now), u.withdrawn, Terminal(u))
    BY <1>1, <1>2, <1>4, RecordMoveShown
  <2> QED
    BY <1>4, <2>1 DEF s, u
<1>5. CASE u = s /\ Vested(s, now) <= Vested(s, now')
  <2>1. Vested(u, now') \in Vested(s, now) .. s.deposited
    BY <1>1, <1>2, <1>5
  <2>2. ShownMove(s.deposited, Vested(s, now), s.withdrawn, Terminal(s),
                  u.deposited, Vested(u, now'), u.withdrawn, Terminal(u))
    BY <1>5, <2>1 DEF ShownMove
  <2> QED
    BY <2>2 DEF s, u
<1> QED
  BY <1>3, <1>4, <1>5

(* And creating one.                                                       *)
LEMMA NewStreamShown ==
  ASSUME IInv, IInv', Evolves, NEW i \in Ids', i \notin Ids
  PROVE  ShownMove(0, 0, 0, FALSE,
                   streams'[i].deposited, Vested(streams'[i], now'),
                   streams'[i].withdrawn, Terminal(streams'[i]))
<1>1. PICK req \in CreateRequests : ValidTerms(req) /\ streams'[i] = NewStream(req)
  BY OldOrNew DEF IssuedStep
<1>2. /\ streams'[i].deposited > 0 /\ streams'[i].withdrawn = 0
      /\ ~ Terminal(streams'[i])
  BY <1>1 DEF NewStream, ValidTerms, Terminal
<1>3. Vested(streams'[i], now') \in 0 .. streams'[i].deposited
  BY EvolvedVests DEF Evolves
<1> QED
  BY <1>2, <1>3 DEF ShownMove

(* An id is issued when it is below the counter.                           *)
LEMMA IssuedBelow ==
  ASSUME IInv, IInv', NEW i \in AllIds
  PROVE  (i < nextId <=> i \in Ids) /\ (i < nextId' <=> i \in Ids')
<1>1. nextId \in Nat /\ nextId' \in Nat /\ i \in Nat
  BY IInvParts, ConstantsAssumption DEF AllIds, IInv, TypeOK
<1>2. i < nextId <=> i \in 0 .. nextId - 1
  BY <1>1, BelowCount, CountedBelow
<1>3. i < nextId' <=> i \in 0 .. nextId' - 1
  BY <1>1, BelowCount, CountedBelow
<1> QED
  BY <1>2, <1>3 DEF Ids

(* What a step shows of each id is a move.                                 *)
LEMMA ShownStep ==
  ASSUME EarnedInv, NoCurvedDelegation, [Next]_vars, NEW i \in AllIds
  PROVE  ShownMoved(i)
<1>1. IInv /\ IInv' /\ Evolves
  BY NextOK, NextIInv DEF EarnedInv, StepOK
<1>2. (i < nextId <=> i \in Ids) /\ (i < nextId' <=> i \in Ids')
  BY <1>1, IssuedBelow
<1> DEFINE s == streams[i]
           u == streams'[i]
<1>3. CASE i \in Ids
  <2>1. i \in Ids' /\ FairStep(s, u)
    BY <1>1, <1>3, IdsStay, TopUpsFair DEF EarnedInv, FairStep
  <2>2. /\ ShownTotal(i) = s.deposited /\ ShownEarned(i) = Vested(s, now)
        /\ ShownPaid(i) = s.withdrawn /\ (ShownClosed(i) <=> Terminal(s))
    BY <1>2, <1>3, Zenon DEF ShownTotal, ShownEarned, ShownPaid, ShownClosed
  <2>3. /\ ShownTotal(i)' = u.deposited /\ ShownEarned(i)' = Vested(u, now')
        /\ ShownPaid(i)' = u.withdrawn /\ (ShownClosed(i)' <=> Terminal(u))
    BY <1>2, <2>1, Zenon DEF ShownTotal, ShownEarned, ShownPaid, ShownClosed, Terminal
  <2>4. ShownMove(s.deposited, Vested(s, now), s.withdrawn, Terminal(s),
                  u.deposited, Vested(u, now'), u.withdrawn, Terminal(u))
    BY <1>1, <1>3, <2>1, OldStreamShown
  <2> HIDE DEF s, u
  <2> QED
    BY <2>2, <2>3, <2>4 DEF ShownMoved, ShownMove
<1>4. CASE i \notin Ids /\ i \in Ids'
  <2>1. /\ ShownTotal(i) = 0 /\ ShownEarned(i) = 0
        /\ ShownPaid(i) = 0 /\ (ShownClosed(i) <=> FALSE)
    BY <1>2, <1>4, Zenon DEF ShownTotal, ShownEarned, ShownPaid, ShownClosed
  <2>2. /\ ShownTotal(i)' = u.deposited /\ ShownEarned(i)' = Vested(u, now')
        /\ ShownPaid(i)' = u.withdrawn /\ (ShownClosed(i)' <=> Terminal(u))
    BY <1>2, <1>4, Zenon DEF ShownTotal, ShownEarned, ShownPaid, ShownClosed, Terminal
  <2>3. ShownMove(0, 0, 0, FALSE, u.deposited, Vested(u, now'), u.withdrawn, Terminal(u))
    BY <1>1, <1>4, NewStreamShown
  <2> HIDE DEF u
  <2> QED
    BY <2>1, <2>2, <2>3 DEF ShownMoved, ShownMove
<1>5. CASE i \notin Ids /\ i \notin Ids'
  <2>1. /\ ShownTotal(i) = 0 /\ ShownEarned(i) = 0
        /\ ShownPaid(i) = 0 /\ ~ ShownClosed(i)
    BY <1>2, <1>5, Zenon DEF ShownTotal, ShownEarned, ShownPaid, ShownClosed
  <2>2. /\ ShownTotal(i)' = 0 /\ ShownEarned(i)' = 0
        /\ ShownPaid(i)' = 0 /\ ~ ShownClosed(i)'
    BY <1>2, <1>5, Zenon DEF ShownTotal, ShownEarned, ShownPaid, ShownClosed
  <2> QED
    BY <2>1, <2>2, Zenon DEF ShownMoved, ShownMove
<1> QED
  BY <1>3, <1>4, <1>5

(* Nothing is promised before the first call.                              *)
LEMMA InitPromise == Init => Promise!Init
<1> SUFFICES ASSUME Init
             PROVE  Promise!Init
  OBVIOUS
<1>1. ASSUME NEW i \in AllIds
      PROVE  ~ (i < nextId)
  BY DEF AllIds, Init
<1> QED
  BY <1>1 DEF Promise!Init

(* The contract implements VestingPromise, where no delegate tops up a     *)
(* curved stream: with all its clocks, pauses, curves, batches, delegates  *)
(* and halts it does nothing to a stream but fund it, earn on it, pay from *)
(* what is earned, and close it returning what is not.                     *)
THEOREM PromiseIsKept ==
  ASSUME NoCurvedDelegation
  PROVE  Spec => KeepsPromise
<1>1. Init => Promise!Init
  BY InitPromise
<1>2. EarnedInv /\ [Next]_vars => [Promise!Next]_(Promise!promise)
  BY ShownStep, ShownMovesMakeAStep
<1> QED
  BY <1>1, <1>2, EarnedInvariance, PTL DEF Spec, KeepsPromise, Promise!Spec

-----------------------------------------------------------------------------
(* The promise to linear streams, whatever is delegated.                   *)

LinearTotal(i) == IF Linear(i) THEN streams[i].deposited ELSE 0
LinearEarned(i) == IF Linear(i) THEN Vested(streams[i], now) ELSE 0
LinearPaid(i) == IF Linear(i) THEN streams[i].withdrawn ELSE 0
LinearClosed(i) == Linear(i) /\ Terminal(streams[i])

LinearMoved(i) ==
  ShownMove(LinearTotal(i), LinearEarned(i), LinearPaid(i), LinearClosed(i),
            LinearTotal(i)', LinearEarned(i)', LinearPaid(i)', LinearClosed(i)')

(* Shown moves of all ids are a step of the promise to linear streams.     *)
LEMMA LinearMovesMakeAStep ==
  ASSUME \A i \in AllIds : LinearMoved(i)
  PROVE  LinearPromise!Next
<1> SUFFICES ASSUME NEW i \in AllIds
             PROVE  LinearPromise!Move(i)
  BY DEF LinearPromise!Next
<1> DEFINE c == LinearClosed(i)
           d == LinearClosed(i)'
<1>1. LinearMoved(i)
  OBVIOUS
<1>2. AllIds' = AllIds
  BY DEF AllIds
<1>3. c \in BOOLEAN /\ d \in BOOLEAN
  BY DEF LinearClosed
<1>4. CASE /\ LinearTotal(i)' = LinearTotal(i) /\ LinearEarned(i)' = LinearEarned(i)
           /\ LinearPaid(i)' = LinearPaid(i) /\ (d <=> c)
  <2>1. d = c
    BY <1>3, <1>4
  <2>2. LinearPromise!Rest(i)
    BY <1>2, <1>4, <2>1, Zenon
    DEF LinearPromise!Rest, LinearTotal, LinearEarned, LinearPaid, LinearClosed
  <2> QED
    BY <2>2 DEF LinearPromise!Move
<1>5. CASE /\ ~ c /\ ~ d /\ LinearTotal(i)' > LinearTotal(i)
           /\ LinearEarned(i)' \in LinearEarned(i) .. LinearTotal(i)'
           /\ LinearPaid(i)' = LinearPaid(i)
  <2>1. LinearPromise!Fund(i)
    BY <1>2, <1>5, Zenon
    DEF LinearPromise!Fund, LinearTotal, LinearEarned, LinearPaid, LinearClosed
  <2> QED
    BY <2>1 DEF LinearPromise!Move
<1>6. CASE /\ LinearEarned(i)' \in LinearEarned(i) .. LinearTotal(i)
           /\ LinearTotal(i)' = LinearTotal(i)
           /\ LinearPaid(i)' = LinearPaid(i) /\ (d <=> c)
  <2>1. d = c
    BY <1>3, <1>6
  <2>2. LinearPromise!Earn(i)
    BY <1>2, <1>6, <2>1, Zenon
    DEF LinearPromise!Earn, LinearTotal, LinearEarned, LinearPaid, LinearClosed
  <2> QED
    BY <2>2 DEF LinearPromise!Move
<1>7. CASE /\ LinearPaid(i)' \in LinearPaid(i) + 1 .. LinearEarned(i)
           /\ (d <=> c \/ LinearPaid(i)' = LinearTotal(i))
           /\ LinearTotal(i)' = LinearTotal(i) /\ LinearEarned(i)' = LinearEarned(i)
  <2>1. d = (c \/ LinearPaid(i)' = LinearTotal(i))
    BY <1>3, <1>7
  <2>2. LinearPromise!Pay(i)
    BY <1>2, <1>7, <2>1, Zenon
    DEF LinearPromise!Pay, LinearTotal, LinearEarned, LinearPaid, LinearClosed
  <2> QED
    BY <2>2 DEF LinearPromise!Move
<1>8. CASE /\ ~ c /\ d /\ LinearTotal(i)' = LinearEarned(i)
           /\ LinearEarned(i)' = LinearEarned(i) /\ LinearPaid(i)' = LinearPaid(i)
  <2>1. LinearPromise!Close(i)
    BY <1>2, <1>8, Zenon
    DEF LinearPromise!Close, LinearTotal, LinearEarned, LinearPaid, LinearClosed
  <2> QED
    BY <2>1 DEF LinearPromise!Move
<1> QED
  BY <1>1, <1>4, <1>5, <1>6, <1>7, <1>8, Zenon DEF LinearMoved, ShownMove

(* A stream is linear for good, and its steps are fair.                    *)
LEMMA LinearStays ==
  ASSUME IInv, IInv', Evolves, NEW i \in AllIds, i \in Ids
  PROVE  /\ i \in Ids' /\ (Linear(i)' <=> Linear(i))
         /\ Linear(i) => FairStep(streams[i], streams'[i])
<1>1. i \in Ids' /\ i < nextId /\ i < nextId'
  BY IdsStay, IssuedBelow
<1>2. streams'[i].curve = streams[i].curve
  BY StreamParties, RecordTerms DEF Evolves
<1> QED
  BY <1>1, <1>2 DEF Linear, FairStep

(* So what a step shows of each id is a move.                              *)
LEMMA LinearStep ==
  ASSUME IInv, [Next]_vars, NEW i \in AllIds
  PROVE  LinearMoved(i)
<1>1. IInv' /\ Evolves
  BY NextOK, NextIInv DEF StepOK
<1>2. (i < nextId <=> i \in Ids) /\ (i < nextId' <=> i \in Ids')
  BY <1>1, IssuedBelow
<1> DEFINE s == streams[i]
           u == streams'[i]
<1>3. ~ Linear(i) => /\ LinearTotal(i) = 0 /\ LinearEarned(i) = 0
                     /\ LinearPaid(i) = 0 /\ (LinearClosed(i) <=> FALSE)
  BY Zenon DEF LinearTotal, LinearEarned, LinearPaid, LinearClosed
<1>4. ~ Linear(i)' => /\ LinearTotal(i)' = 0 /\ LinearEarned(i)' = 0
                      /\ LinearPaid(i)' = 0 /\ (LinearClosed(i)' <=> FALSE)
  BY Zenon DEF LinearTotal, LinearEarned, LinearPaid, LinearClosed
<1>5. Linear(i) => /\ LinearTotal(i) = s.deposited /\ LinearEarned(i) = Vested(s, now)
                   /\ LinearPaid(i) = s.withdrawn /\ (LinearClosed(i) <=> Terminal(s))
  BY Zenon DEF LinearTotal, LinearEarned, LinearPaid, LinearClosed
<1>6. Linear(i)' => /\ LinearTotal(i)' = u.deposited /\ LinearEarned(i)' = Vested(u, now')
                    /\ LinearPaid(i)' = u.withdrawn /\ (LinearClosed(i)' <=> Terminal(u))
  BY Zenon DEF LinearTotal, LinearEarned, LinearPaid, LinearClosed, Terminal
<1>7. CASE ~ Linear(i) /\ ~ Linear(i)'
  BY <1>3, <1>4, <1>7, Zenon DEF LinearMoved, ShownMove
<1>8. CASE Linear(i)
  <2>1. i \in Ids
    BY <1>2, <1>8 DEF Linear
  <2>2. Linear(i)' /\ FairStep(s, u)
    BY <1>1, <1>8, <2>1, LinearStays
  <2>3. ShownMove(s.deposited, Vested(s, now), s.withdrawn, Terminal(s),
                  u.deposited, Vested(u, now'), u.withdrawn, Terminal(u))
    BY <1>1, <2>1, <2>2, OldStreamShown
  <2> HIDE DEF s, u
  <2> QED
    BY <1>5, <1>6, <1>8, <2>2, <2>3 DEF LinearMoved, ShownMove
<1>9. CASE ~ Linear(i) /\ Linear(i)'
  <2>1. i \in Ids'
    BY <1>2, <1>9 DEF Linear
  <2>2. i \notin Ids
    BY <1>1, <1>9, LinearStays
  <2>3. ShownMove(0, 0, 0, FALSE, u.deposited, Vested(u, now'), u.withdrawn, Terminal(u))
    BY <1>1, <2>1, <2>2, NewStreamShown
  <2> HIDE DEF s, u
  <2> QED
    BY <1>3, <1>6, <1>9, <2>3 DEF LinearMoved, ShownMove
<1> QED
  BY <1>7, <1>8, <1>9

(* Linear streams are promised nothing before the first call.              *)
LEMMA InitLinearPromise == Init => LinearPromise!Init
<1> SUFFICES ASSUME Init
             PROVE  LinearPromise!Init
  OBVIOUS
<1>1. ASSUME NEW i \in AllIds
      PROVE  ~ Linear(i)
  BY DEF AllIds, Init, Linear
<1> QED
  BY <1>1 DEF LinearPromise!Init

(* The contract implements VestingPromise for its linear streams with no   *)
(* condition on who tops up what: a stream of another curve can lose by a  *)
(* delegate's top-up, but no linear stream beside it.                      *)
THEOREM LinearPromiseIsKept == Spec => LinearStreamsKeepPromise
<1>1. Init => LinearPromise!Init
  BY InitLinearPromise
<1>2. IInv /\ [Next]_vars => [LinearPromise!Next]_(LinearPromise!promise)
  BY LinearStep, LinearMovesMakeAStep
<1> QED
  BY <1>1, <1>2, Invariance, PTL DEF Spec, LinearStreamsKeepPromise, LinearPromise!Spec

=============================================================================
