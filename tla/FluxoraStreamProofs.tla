-------------------------- MODULE FluxoraStreamProofs --------------------------
(***************************************************************************)
(* Theorems of FluxoraStream, for every value of its constants.            *)
(*                                                                         *)
(* The argument has three parts.  Whatever call is made, each stream is    *)
(* rewritten by one operation of StreamRecord or not at all, and a new id  *)
(* gets a validated record (Evolves).  Each of those operations keeps a    *)
(* record in good order (StreamRecordTheorems).  So every record is always *)
(* in good order, which together with the types of the other variables is  *)
(* the inductive invariant IInv.                                           *)
(***************************************************************************)
EXTENDS FluxoraStream, StreamRecordTheorems, TLAPS

RecordsSound == \A i \in Ids : Sound(streams[i], now)

IInv == TypeOK /\ RecordsSound

(* The parts of TypeOK that are not about the stream records.              *)
FundsTyped == pooled \in [Tokens -> Int] /\ held \in [Tokens -> Nat]

OthersTyped ==
  /\ grants \in [AllIds \X Delegates ->
                   [ops: SUBSET (SenderOps \cup RecipientOps),
                    expires_at: Nat \cup {None}]]
  /\ operator \in SUBSET HaltOperators
  /\ haltedAt \in Nat \cup {None}
  /\ signers \in SUBSET Accounts

(* A delegate who may top up exists.                                       *)
TopUpDelegated == \E i \in Ids, d \in Delegates : "TOP_UP" \in grants[<<i, d>>].ops

(* A top-up, of a stream still running: at its rate or without moving its  *)
(* end, within the limits, and never lowering what is vested unless a      *)
(* delegate makes it.                                                      *)
ToppedUpStep(s, u) ==
  /\ ~ Terminal(s) /\ ~ Matured(s)
  /\ \E amount \in Nat, delta \in Nat :
       /\ amount > 0
       /\ delta \in {0, RateDelta(s, amount)}
       /\ s.curve = "Linear" => delta = RateDelta(s, amount) /\ delta > 0
       /\ TopUpFits(s, amount, delta)
       /\ u = Extended(s, amount, delta)
  /\ TopUpDelegated \/ Vested(u, now) >= Vested(s, now)

(* What one call may do to the record s of a stream: u is what it leaves.  *)
RecordStep(s, u) ==
  \/ u = s
  \/ \E payout \in 1 .. Withdrawable(s, now) : u = PaidOut(s, payout, now)
  \/ MayCancel(s) /\ u = Settled(s, now)
  \/ Terminal(s) /\ u = [s EXCEPT !.deposited = @ - Dust(s)]
  \/ ToppedUpStep(s, u)
  \/ MayPause(s) /\ u = Paused(s, now)
  \/ MayResume(s) /\ u = Resumed(s, now)
  \/ \E to \in Accounts : MayTransfer(s, to) /\ u = [s EXCEPT !.recipient = to]

IssuedStep(u) ==
  \E req \in CreateRequests :
    /\ ValidTerms(req)
    /\ ProductFits(req.deposit, req.end_time - req.start_time)
    /\ u = NewStream(req)

(* What one step may do to the records together: time does not go back,    *)
(* and passes only while no record changes; ids are issued in order.       *)
Evolves ==
  /\ now' \in Nat /\ now <= now'
  /\ now' = now \/ streams' = streams
  /\ nextId' \in Nat /\ nextId <= nextId'
  /\ streams' = [i \in 0 .. nextId' - 1 |-> streams'[i]]
  /\ \A i \in Ids : RecordStep(streams[i], streams'[i])
  /\ \A i \in Nat : nextId <= i /\ i < nextId' => IssuedStep(streams'[i])

-----------------------------------------------------------------------------
(* The records.                                                            *)

(* An id below the counter, as the provers like to read it.              *)
LEMMA BelowCount ==
  ASSUME NEW n \in Nat, NEW i \in 0 .. n - 1
  PROVE  i \in Nat /\ i < n
OBVIOUS

(* Every operation keeps a record sound.                                 *)
LEMMA RecordStepSound ==
  ASSUME now \in Nat, NEW s, Sound(s, now), NEW u, RecordStep(s, u)
  PROVE  Sound(u, now)
<1>1. CASE u = s
  BY <1>1
<1>2. CASE \E payout \in 1 .. Withdrawable(s, now) : u = PaidOut(s, payout, now)
  BY <1>2, PaidOutSound
<1>3. CASE u = Settled(s, now)
  BY <1>3, SettledSound
<1>4. CASE Terminal(s) /\ u = [s EXCEPT !.deposited = @ - Dust(s)]
  <2>1. Dust(s) = 0
    BY <1>4, SettledHasNoDust DEF Dust
  <2>2. u = s
    BY <1>4, <2>1, NothingTaken DEF Sound
  <2> QED
    BY <2>2
<1>5. CASE ToppedUpStep(s, u)
  BY <1>5, ExtendedSound DEF ToppedUpStep
<1>6. CASE MayPause(s) /\ u = Paused(s, now)
  BY <1>6, PausedSound DEF MayPause
<1>7. CASE MayResume(s) /\ u = Resumed(s, now)
  BY <1>7, ResumedSound DEF MayResume
<1>8. CASE \E to \in Accounts : MayTransfer(s, to) /\ u = [s EXCEPT !.recipient = to]
  BY <1>8, TransferredSound DEF MayTransfer
<1> QED
  BY <1>1, <1>2, <1>3, <1>4, <1>5, <1>6, <1>7, <1>8 DEF RecordStep

(* A step that changes records only by operations keeps all sound.       *)
LEMMA EvolvesSound ==
  ASSUME IInv, Evolves
  PROVE  /\ RecordsSound'
         /\ now' \in Nat /\ nextId' \in Nat
         /\ streams' \in [Ids' -> Stream]
<1>1. /\ now \in Nat /\ nextId \in Nat
      /\ now' \in Nat /\ nextId' \in Nat /\ now <= now' /\ nextId <= nextId'
  BY DEF IInv, TypeOK, Evolves
<1>2. ASSUME NEW i \in Nat, i < nextId'
      PROVE  Sound(streams'[i], now')
  <2>1. CASE i \in Ids /\ now' = now
    <3>1. Sound(streams[i], now) /\ RecordStep(streams[i], streams'[i])
      BY <2>1 DEF IInv, RecordsSound, Evolves
    <3> QED
      BY <1>1, <2>1, <3>1, RecordStepSound
  <2>2. CASE i \in Ids /\ streams' = streams
    <3>1. Sound(streams[i], now)
      BY <2>2 DEF IInv, RecordsSound
    <3>2. Sound(streams[i], now')
      BY <1>1, <3>1, SoundLater
    <3> QED
      BY <2>2, <3>2
  <2>3. CASE i \notin Ids
    <3>1. nextId \in Nat /\ nextId' \in Nat
      BY <1>1
    <3>2. nextId <= i
      BY <2>3, <3>1 DEF Ids
    <3>3. PICK req \in CreateRequests : ValidTerms(req) /\ streams'[i] = NewStream(req)
      BY <1>2, <3>2 DEF Evolves, IssuedStep
    <3>4. req \in CreateRequest
      BY ConstantsAssumption
    <3> QED
      BY <1>1, <3>3, <3>4, NewStreamSound
  <2> QED
    BY <2>1, <2>2, <2>3 DEF Evolves
<1>3. streams' = [i \in 0 .. nextId' - 1 |-> streams'[i]]
  BY DEF Evolves
<1>4. ASSUME NEW i \in Ids'
      PROVE  i \in Nat /\ i < nextId'
  BY <1>1, BelowCount DEF Ids
<1>5. ASSUME NEW i \in Ids'
      PROVE  Sound(streams'[i], now') /\ streams'[i] \in Stream
  BY <1>2, <1>4 DEF Sound
<1>6. RecordsSound'
  BY <1>5 DEF RecordsSound
<1>7. streams' \in [Ids' -> Stream]
  BY <1>3, <1>5 DEF Ids
<1> QED
  BY <1>1, <1>6, <1>7

(* A call that rewrites one stream.                                        *)
LEMMA WriteEvolves ==
  ASSUME IInv, NEW i \in Ids, NEW u, RecordStep(streams[i], u), Write(i, u),
         now' = now, nextId' = nextId
  PROVE  Evolves
<1>1. now \in Nat /\ nextId \in Nat /\ streams \in [Ids -> Stream]
  BY DEF IInv, TypeOK
<1>2. streams' = [streams EXCEPT ![i] = u]
  BY DEF Write
<1>3. \A j \in Ids : streams'[j] = IF j = i THEN u ELSE streams[j]
  BY <1>1, <1>2
<1>4. \A j \in Ids : RecordStep(streams[j], streams'[j])
  BY <1>3 DEF RecordStep
<1>5. streams' = [j \in 0 .. nextId' - 1 |-> streams'[j]]
  BY <1>1, <1>2 DEF Ids
<1> QED
  BY <1>1, <1>4, <1>5 DEF Evolves

(* A call that rewrites several.                                           *)
LEMMA RewriteEvolves ==
  ASSUME IInv, now' = now, nextId' = nextId,
         streams' = [i \in Ids |-> streams'[i]],
         \A i \in Ids : RecordStep(streams[i], streams'[i])
  PROVE  Evolves
BY DEF Evolves, IInv, TypeOK, Ids

(* A step that leaves the records alone.                                   *)
LEMMA IdleEvolves ==
  ASSUME IInv, now' \in Nat, now <= now', UNCHANGED <<streams, nextId>>
  PROVE  Evolves
BY DEF Evolves, IInv, TypeOK, Ids, RecordStep

-----------------------------------------------------------------------------
(* Tokens.                                                                 *)

(* A transfer in one token is an amount for each token.                  *)
LEMMA OnlyTyped ==
  ASSUME NEW token, NEW amount \in Nat
  PROVE  Only(token, amount) \in [Tokens -> Nat]
BY DEF Only

(* Pulling deposits keeps pool and balance typed.                        *)
LEMMA PullDepositsTyped ==
  ASSUME FundsTyped, NEW due \in [Tokens -> Nat], PullDeposits(due)
  PROVE  FundsTyped'
<1> DEFINE received(fee) == [t \in Tokens |-> IF due[t] = 0 THEN 0 ELSE due[t] - fee[t]]
<1>1. PICK fee \in [Tokens -> Fees] :
        /\ \A t \in Tokens : received(fee)[t] = due[t]
        /\ pooled' = [t \in Tokens |-> pooled[t] + due[t]]
        /\ held' = [t \in Tokens |-> held[t] + received(fee)[t]]
  BY Zenon DEF PullDeposits
<1> HIDE DEF received
<1>2. \A t \in Tokens : held'[t] = held[t] + due[t]
  BY <1>1
<1>3. \A t \in Tokens : pooled[t] + due[t] \in Int /\ held[t] + due[t] \in Nat
  BY DEF FundsTyped
<1>4. held' = [t \in Tokens |-> held'[t]]
  BY <1>1
<1> QED
  BY <1>1, <1>2, <1>3, <1>4 DEF FundsTyped

(* A transfer leaves no negative balance.                                *)
LEMMA TransferOutTyped ==
  ASSUME FundsTyped, NEW out \in [Tokens -> Int], TransferOut(out)
  PROVE  held' \in [Tokens -> Nat]
<1> DEFINE left(fee) == [t \in Tokens |->
                           IF out[t] = 0 THEN held[t] ELSE held[t] - out[t] - fee[t]]
<1>1. PICK fee \in [Tokens -> Fees] :
        (\A t \in Tokens : left(fee)[t] >= 0) /\ held' = left(fee)
  BY Zenon DEF TransferOut
<1>2. \A t \in Tokens : held[t] \in Nat /\ out[t] \in Int /\ fee[t] \in Nat
  BY ConstantsAssumption DEF FundsTyped
<1>3. \A t \in Tokens : held'[t] \in Nat
  BY <1>1, <1>2
<1>4. held' = [t \in Tokens |-> held'[t]]
  BY <1>1
<1> QED
  BY <1>3, <1>4

(* A payout keeps pool and balance typed.                                *)
LEMMA PayOutTyped ==
  ASSUME FundsTyped, NEW out \in [Tokens -> Int], PayOut(out)
  PROVE  FundsTyped'
<1>1. held' \in [Tokens -> Nat]
  BY TransferOutTyped DEF PayOut
<1>2. pooled' = [t \in Tokens |-> pooled[t] - out[t]]
  BY DEF PayOut
<1>3. \A t \in Tokens : pooled[t] - out[t] \in Int
  BY DEF FundsTyped
<1> QED
  BY <1>1, <1>2, <1>3 DEF FundsTyped

-----------------------------------------------------------------------------
(* The calls.  Each of them evolves the records and keeps the other        *)
(* variables in their types.                                               *)
StepOK == Evolves /\ FundsTyped' /\ OthersTyped'

(* What the steps below use of the invariant.                            *)
LEMMA IInvParts ==
  ASSUME IInv
  PROVE  /\ now \in Nat /\ nextId \in Nat /\ streams \in [Ids -> Stream]
         /\ FundsTyped /\ OthersTyped
         /\ \A i \in Ids : Sound(streams[i], now)
BY DEF IInv, TypeOK, FundsTyped, OthersTyped, RecordsSound

(* A list of requests, as the creating calls receive it.                   *)
RequestList(reqs) ==
  /\ Len(reqs) \in Nat /\ Len(reqs) >= 1
  /\ \A k \in 1 .. Len(reqs) : reqs[k] \in CreateRequests

(* A single creation is a batch of one.                                  *)
LEMMA OneRequest ==
  ASSUME NEW req \in CreateRequests
  PROVE  RequestList(<<req>>)
BY DEF RequestList

(* A batch of requests is a list of requests.                            *)
LEMMA BatchOfRequests ==
  ASSUME NEW reqs \in Batches(CreateRequests)
  PROVE  RequestList(reqs)
<1>1. PICK n \in 1 .. MAX_BATCH_SIZE : reqs \in [1 .. n -> CreateRequests]
  BY DEF Batches
<1>2. n \in Nat /\ n >= 1
  BY <1>1
<1>3. reqs \in Seq(CreateRequests) /\ Len(reqs) = n
  BY <1>1, <1>2
<1> QED
  BY <1>1, <1>2, <1>3 DEF RequestList

(* The deposits of a valid batch are naturals in every token.            *)
LEMMA DepositsTyped ==
  ASSUME NEW reqs, RequestList(reqs),
         \A k \in 1 .. Len(reqs) : ValidTerms(reqs[k])
  PROVE  [t \in Tokens |-> DepositsIn(reqs, t)] \in [Tokens -> Nat]
<1> SUFFICES ASSUME NEW t \in Tokens
             PROVE  DepositsIn(reqs, t) \in Nat
  OBVIOUS
<1> DEFINE due == [k \in 1 .. Len(reqs) |->
                     IF reqs[k].token = t THEN reqs[k].deposit ELSE 0]
<1>1. \A k \in 1 .. Len(reqs) : reqs[k].deposit \in Nat
  BY ConstantsAssumption DEF RequestList, ValidTerms, CreateRequest
<1>2. \A k \in 1 .. Len(reqs) : due[k] \in Nat
  BY <1>1
<1> HIDE DEF due
<1>3. SumTo(due, Len(reqs)) \in Nat
  BY <1>2, SumToNat DEF RequestList
<1> QED
  BY <1>3 DEF DepositsIn, due

(* Creation gives the next ids to valid records and touches no other.    *)
LEMMA EnrolEvolves ==
  ASSUME IInv, NEW reqs, RequestList(reqs), Enrol(reqs), now' = now,
         \A k \in 1 .. Len(reqs) :
           /\ ValidTerms(reqs[k])
           /\ ProductFits(reqs[k].deposit, reqs[k].end_time - reqs[k].start_time)
  PROVE  Evolves
<1> DEFINE n == Len(reqs)
<1>1. nextId \in Nat /\ n \in Nat /\ n >= 1 /\ now \in Nat
  BY IInvParts DEF RequestList
<1>2. /\ nextId' = nextId + n
      /\ streams' = [i \in 0 .. nextId + n - 1 |->
                       IF i < nextId THEN streams[i]
                       ELSE NewStream(reqs[i - nextId + 1])]
  BY DEF Enrol
<1> HIDE DEF n
<1> DEFINE last == nextId + n - 1
<1>3. streams' = [i \in 0 .. last |->
                    IF i < nextId THEN streams[i]
                    ELSE NewStream(reqs[i - nextId + 1])]
  BY <1>2
<1>4. last \in Nat /\ last = nextId + n - 1 /\ last = nextId' - 1
  BY <1>1, <1>2
<1> HIDE DEF last
<1>5. ASSUME NEW i \in Ids
      PROVE  RecordStep(streams[i], streams'[i])
  <2>1. i < nextId /\ i \in 0 .. last
    BY <1>1, <1>4 DEF Ids
  <2>2. streams'[i] = streams[i]
    BY <1>3, <2>1
  <2> QED
    BY <2>2 DEF RecordStep
<1>6. ASSUME NEW i \in Nat, nextId <= i, i < nextId'
      PROVE  IssuedStep(streams'[i])
  <2> DEFINE k == i - nextId + 1
  <2>1. i \in 0 .. last /\ ~ (i < nextId) /\ k \in 1 .. n
    BY <1>1, <1>2, <1>4, <1>6
  <2>2. streams'[i] = NewStream(reqs[k])
    BY <1>3, <2>1
  <2>3. /\ reqs[k] \in CreateRequests /\ ValidTerms(reqs[k])
        /\ ProductFits(reqs[k].deposit, reqs[k].end_time - reqs[k].start_time)
    BY <2>1 DEF RequestList, n
  <2> QED
    BY <2>2, <2>3 DEF IssuedStep
<1>7. streams' = [i \in 0 .. last |-> streams'[i]]
  BY <1>3
<1>8. streams' = [i \in 0 .. nextId' - 1 |-> streams'[i]]
  BY <1>4, <1>7, Zenon
<1>9. nextId' \in Nat /\ nextId <= nextId' /\ now' \in Nat /\ now <= now'
  BY <1>1, <1>2, <1>4
<1> QED
  BY <1>5, <1>6, <1>8, <1>9, Zenon DEF Evolves

(* Every way to create streams makes a legal step.                       *)
LEMMA CreateStreamsOK ==
  ASSUME IInv, NEW reqs, RequestList(reqs), CreateStreams(reqs)
  PROVE  StepOK
<1>1. /\ \A k \in 1 .. Len(reqs) :
           /\ ValidTerms(reqs[k])
           /\ ProductFits(reqs[k].deposit, reqs[k].end_time - reqs[k].start_time)
      /\ Enrol(reqs)
      /\ PullDeposits([t \in Tokens |-> DepositsIn(reqs, t)])
      /\ signers' = {reqs[1].sender}
      /\ UNCHANGED <<now, grants, halting>>
  BY DEF CreateStreams
<1>2. Evolves
  BY <1>1, EnrolEvolves
<1>3. FundsTyped'
  BY <1>1, IInvParts, DepositsTyped, PullDepositsTyped
<1>4. reqs[1].sender \in Accounts
  BY ConstantsAssumption DEF RequestList, CreateRequest
<1>5. OthersTyped'
  BY <1>1, <1>4, IInvParts DEF OthersTyped, halting
<1> QED
  BY <1>2, <1>3, <1>5 DEF StepOK

(* A call that leaves grants and the halt switch alone.                    *)
LEMMA OthersKept ==
  ASSUME IInv, UNCHANGED <<grants, operator, haltedAt>>, signers' \subseteq Accounts
  PROVE  OthersTyped'
BY IInvParts DEF OthersTyped

(* A stored stream is a sound record between two accounts.               *)
LEMMA StreamParties ==
  ASSUME IInv, NEW i \in Ids
  PROVE  /\ streams[i] \in Stream /\ Sound(streams[i], now)
         /\ streams[i].sender \in Accounts /\ streams[i].recipient \in Accounts
         /\ streams[i].deposited \in Nat /\ streams[i].withdrawn \in Nat
         /\ Vested(streams[i], now) \in 0 .. streams[i].deposited
<1>1. streams[i] \in Stream /\ Sound(streams[i], now) /\ now \in Nat
  BY IInvParts
<1> QED
  BY <1>1, StreamFields, VestedBounds

(* A withdrawal makes a legal step.                                      *)
LEMMA WithdrawalOK ==
  ASSUME IInv, NEW i \in Ids, NEW payout, Withdrawal(i, payout),
         signers' \subseteq Accounts
  PROVE  StepOK
<1> DEFINE s == streams[i]
<1>1. /\ payout \in 1 .. Withdrawable(s, now)
      /\ Write(i, PaidOut(s, payout, now))
      /\ PayOut(Only(s.token, payout))
      /\ UNCHANGED <<now, nextId, grants, halting>>
  BY DEF Withdrawal
<1>2. payout \in Nat
  BY <1>1, IInvParts, StreamParties, WithdrawableBounds
<1>3. Evolves
  BY <1>1, WriteEvolves DEF RecordStep
<1>4. FundsTyped'
  <2>1. Only(s.token, payout) \in [Tokens -> Int]
    BY <1>2, OnlyTyped
  <2> QED
    BY <1>1, <2>1, IInvParts, PayOutTyped
<1>5. OthersTyped'
  BY <1>1, OthersKept DEF halting
<1> QED
  BY <1>3, <1>4, <1>5 DEF StepOK

(* A cancellation makes a legal step.                                    *)
LEMMA CancellationOK ==
  ASSUME IInv, NEW i \in Ids, Cancellation(i), signers' \subseteq Accounts
  PROVE  StepOK
<1> DEFINE s == streams[i]
<1>1. /\ MayCancel(s)
      /\ Write(i, Settled(s, now))
      /\ PayOut(Only(s.token, Refundable(s, now)))
      /\ UNCHANGED <<now, nextId, grants, halting>>
  BY DEF Cancellation
<1>2. Refundable(s, now) \in Nat
  BY StreamParties DEF Refundable
<1>3. Evolves
  BY <1>1, WriteEvolves DEF RecordStep
<1>4. FundsTyped'
  <2>1. Only(s.token, Refundable(s, now)) \in [Tokens -> Int]
    BY <1>2, OnlyTyped
  <2> QED
    BY <1>1, <2>1, IInvParts, PayOutTyped
<1>5. OthersTyped'
  BY <1>1, OthersKept DEF halting
<1> QED
  BY <1>3, <1>4, <1>5 DEF StepOK

(* reclaim_dust makes a legal step.                                      *)
LEMMA ReclaimDustOK ==
  ASSUME IInv, NEW i \in Ids, ReclaimDust(i)
  PROVE  StepOK
<1> DEFINE s == streams[i]
           u == [s EXCEPT !.deposited = @ - Dust(s)]
<1>1. /\ Terminal(s) /\ Write(i, u)
      /\ TransferOut(Only(s.token, Dust(s)))
      /\ signers' = {s.sender}
      /\ UNCHANGED <<now, nextId, pooled, grants, halting>>
  BY DEF ReclaimDust
<1>2. Dust(s) = 0
  BY <1>1, IInvParts, SettledHasNoDust DEF Dust
<1>3. Evolves
  <2>1. RecordStep(s, u)
    BY <1>1 DEF RecordStep
  <2> QED
    BY <1>1, <2>1, WriteEvolves
<1>4. FundsTyped'
  <2>1. Only(s.token, Dust(s)) \in [Tokens -> Int]
    BY <1>2, OnlyTyped
  <2>2. held' \in [Tokens -> Nat]
    BY <1>1, <2>1, IInvParts, TransferOutTyped
  <2> QED
    BY <1>1, <2>2, IInvParts DEF FundsTyped
<1>5. OthersTyped'
  BY <1>1, StreamParties, OthersKept DEF halting
<1> QED
  BY <1>3, <1>4, <1>5 DEF StepOK

(* Both top-ups: a live stream grows by an amount that is pulled in full.  *)
LEMMA TopUpOK ==
  ASSUME IInv, NEW i \in Ids, NEW amount \in Nat, NEW delta \in Nat,
         ToppedUpStep(streams[i], Extended(streams[i], amount, delta)),
         Write(i, Extended(streams[i], amount, delta)),
         PullDeposits(Only(streams[i].token, amount)),
         signers' \subseteq Accounts,
         UNCHANGED <<now, nextId, grants, halting>>
  PROVE  StepOK
<1>1. RecordStep(streams[i], Extended(streams[i], amount, delta))
  BY DEF RecordStep
<1>2. Evolves
  BY <1>1, WriteEvolves
<1>3. FundsTyped'
  BY OnlyTyped, IInvParts, PullDepositsTyped
<1>4. OthersTyped'
  BY OthersKept DEF halting
<1> QED
  BY <1>2, <1>3, <1>4 DEF StepOK

(* The calls that move no tokens.                                          *)
LEMMA QuietWriteOK ==
  ASSUME IInv, NEW i \in Ids, NEW u, RecordStep(streams[i], u), Write(i, u),
         signers' \subseteq Accounts,
         UNCHANGED <<now, nextId, funds, grants, halting>>
  PROVE  StepOK
<1>1. Evolves
  BY WriteEvolves
<1>2. FundsTyped'
  BY IInvParts DEF FundsTyped, funds
<1>3. OthersTyped'
  BY OthersKept DEF halting
<1> QED
  BY <1>1, <1>2, <1>3 DEF StepOK

(* A call that leaves streams and funds alone makes a legal step.        *)
LEMMA QuietStepOK ==
  ASSUME IInv, OthersTyped', now' \in Nat, now <= now',
         UNCHANGED <<streams, nextId, funds>>
  PROVE  StepOK
<1>1. Evolves
  BY IdleEvolves
<1>2. FundsTyped'
  BY IInvParts DEF FundsTyped, funds
<1> QED
  BY <1>1, <1>2 DEF StepOK

-----------------------------------------------------------------------------
(* The batch calls.                                                        *)
IdList(ids) ==
  /\ Len(ids) \in Nat /\ DOMAIN ids = 1 .. Len(ids)
  /\ \A k \in 1 .. Len(ids) : ids[k] \in Ids

(* A batch of ids is a list of ids.                                      *)
LEMMA BatchOfIds ==
  ASSUME NEW ids \in Batches(Ids)
  PROVE  IdList(ids) /\ Len(ids) >= 1
<1>1. PICK n \in 1 .. MAX_BATCH_SIZE : ids \in [1 .. n -> Ids]
  BY DEF Batches
<1>2. n \in Nat /\ n >= 1
  BY <1>1
<1>3. ids \in Seq(Ids) /\ Len(ids) = n
  BY <1>1, <1>2
<1> QED
  BY <1>1, <1>2, <1>3 DEF IdList

(* What a batch moves in each token is a natural.                        *)
LEMMA BatchTotalTyped ==
  ASSUME NEW ids, IdList(ids), NEW amount,
         \A k \in 1 .. Len(ids) : amount[k] \in Nat
  PROVE  [t \in Tokens |-> BatchTotal(ids, amount, t)] \in [Tokens -> Nat]
<1> SUFFICES ASSUME NEW t \in Tokens
             PROVE  BatchTotal(ids, amount, t) \in Nat
  OBVIOUS
<1> DEFINE due == [k \in 1 .. Len(ids) |->
                     IF streams[ids[k]].token = t THEN amount[k] ELSE 0]
<1>1. \A k \in 1 .. Len(ids) : due[k] \in Nat
  OBVIOUS
<1> HIDE DEF due
<1>2. SumTo(due, Len(ids)) \in Nat
  BY <1>1, SumToNat DEF IdList
<1> QED
  BY <1>2 DEF BatchTotal, due

(* batch_withdraw makes a legal step.                                    *)
LEMMA BatchWithdrawOK ==
  ASSUME IInv, NEW recipient \in Accounts, NEW ids, IdList(ids),
         BatchWithdraw(recipient, ids)
  PROVE  StepOK
<1> DEFINE available == [k \in 1 .. Len(ids) |-> Withdrawable(streams[ids[k]], now)]
           paid == {ids[k] : k \in {j \in DOMAIN ids : available[j] > 0}}
<1>1. /\ streams' = [i \in Ids |->
                       IF i \in paid
                       THEN PaidOut(streams[i], Withdrawable(streams[i], now), now)
                       ELSE streams[i]]
      /\ PayOut([t \in Tokens |-> BatchTotal(ids, available, t)])
      /\ signers' = {recipient}
      /\ UNCHANGED <<now, nextId, grants, halting>>
  BY DEF BatchWithdraw
<1>2. ASSUME NEW i \in Ids
      PROVE  Withdrawable(streams[i], now) \in Nat
  BY StreamParties DEF Withdrawable, Greatest
<1>3. \A k \in 1 .. Len(ids) : available[k] \in Nat
  BY <1>2 DEF IdList
<1>4. ASSUME NEW i \in paid
      PROVE  Withdrawable(streams[i], now) > 0
  BY DEF IdList
<1> HIDE DEF available, paid
<1>5. ASSUME NEW i \in Ids
      PROVE  RecordStep(streams[i], streams'[i])
  <2> DEFINE all == Withdrawable(streams[i], now)
  <2>1. CASE i \in paid
    <3>1. all \in 1 .. all
      BY <1>2, <1>4, <2>1
    <3>2. streams'[i] = PaidOut(streams[i], all, now)
      BY <1>1, <2>1
    <3> QED
      BY <3>1, <3>2 DEF RecordStep
  <2>2. CASE i \notin paid
    BY <1>1, <2>2 DEF RecordStep
  <2> QED
    BY <2>1, <2>2
<1>6. streams' = [i \in Ids |-> streams'[i]]
  BY <1>1
<1>7. Evolves
  BY <1>1, <1>5, <1>6, RewriteEvolves
<1>8. FundsTyped'
  <2> DEFINE total == [t \in Tokens |-> BatchTotal(ids, available, t)]
  <2>1. total \in [Tokens -> Nat]
    BY <1>3, BatchTotalTyped
  <2>2. PayOut(total)
    BY <1>1
  <2> HIDE DEF total
  <2> QED
    BY <2>1, <2>2, IInvParts, PayOutTyped
<1>9. OthersTyped'
  BY <1>1, OthersKept DEF halting
<1> QED
  BY <1>7, <1>8, <1>9 DEF StepOK

(* batch_cancel makes a legal step.                                      *)
LEMMA BatchCancelOK ==
  ASSUME IInv, NEW sender \in Accounts, NEW ids, IdList(ids),
         BatchCancel(sender, ids)
  PROVE  StepOK
<1> DEFINE refund  == [k \in 1 .. Len(ids) |-> Refundable(streams[ids[k]], now)]
           settled == {ids[k] : k \in DOMAIN ids}
<1>1. /\ \A k \in DOMAIN ids : MayCancel(streams[ids[k]])
      /\ streams' = [i \in Ids |->
                       IF i \in settled THEN Settled(streams[i], now) ELSE streams[i]]
      /\ PayOut([t \in Tokens |-> BatchTotal(ids, refund, t)])
      /\ signers' = {sender}
      /\ UNCHANGED <<now, nextId, grants, halting>>
  BY DEF BatchCancel
<1>2. ASSUME NEW i \in Ids
      PROVE  Refundable(streams[i], now) \in Nat
  BY StreamParties DEF Refundable
<1>3. \A k \in 1 .. Len(ids) : refund[k] \in Nat
  BY <1>2 DEF IdList
<1>4. \A i \in settled : MayCancel(streams[i])
  BY <1>1
<1> HIDE DEF refund, settled
<1>5. ASSUME NEW i \in Ids
      PROVE  RecordStep(streams[i], streams'[i])
  BY <1>1, <1>4 DEF RecordStep
<1>6. streams' = [i \in Ids |-> streams'[i]]
  BY <1>1
<1>7. Evolves
  BY <1>1, <1>5, <1>6, RewriteEvolves
<1>8. FundsTyped'
  <2> DEFINE total == [t \in Tokens |-> BatchTotal(ids, refund, t)]
  <2>1. total \in [Tokens -> Nat]
    BY <1>3, BatchTotalTyped
  <2>2. PayOut(total)
    BY <1>1
  <2> HIDE DEF total
  <2> QED
    BY <2>1, <2>2, IInvParts, PayOutTyped
<1>9. OthersTyped'
  BY <1>1, OthersKept DEF halting
<1> QED
  BY <1>7, <1>8, <1>9 DEF StepOK

-----------------------------------------------------------------------------
(* The calls on one stream, by its parties and by delegates.               *)
LEMMA StreamCallOK ==
  ASSUME IInv, NEW i \in Ids, StreamCall(i)
  PROVE  StepOK
<1> DEFINE s == streams[i]
<1>1. s.sender \in Accounts /\ s.recipient \in Accounts
  BY StreamParties
<1>2. CASE \E payout \in 1 .. Withdrawable(s, now) : Withdraw(i, payout)
  BY <1>1, <1>2, WithdrawalOK DEF Withdraw
<1>3. CASE Cancel(i)
  BY <1>1, <1>3, CancellationOK DEF Cancel
<1>4. CASE ReclaimDust(i)
  BY <1>4, ReclaimDustOK
<1>5. ASSUME NEW amount \in TopUpAmounts, TopUp(i, amount)
      PROVE  StepOK
  <2> DEFINE delta == TopUpDelta(s, amount)
  <2>1. /\ ~ Terminal(s) /\ ~ Matured(s) /\ amount > 0
        /\ PullDeposits(Only(s.token, amount))
        /\ Write(i, Extended(s, amount, delta))
        /\ signers' = {s.sender}
        /\ UNCHANGED <<now, nextId, grants, halting>>
    BY <1>5 DEF TopUp
  <2>2. amount \in Nat
    BY <2>1, ConstantsAssumption
  <2>3. delta \in Nat
    BY <2>1, <2>2, IInvParts, RateDeltaType
  <2>4. ToppedUpStep(s, Extended(s, amount, delta))
    <3>1. /\ TopUpFits(s, amount, delta)
          /\ Vested(Extended(s, amount, delta), now) >= Vested(s, now)
      BY <1>5 DEF TopUp, NotDecreased
    <3>2. /\ delta \in {0, RateDelta(s, amount)}
          /\ s.curve = "Linear" => delta = RateDelta(s, amount) /\ delta > 0
      BY <1>5 DEF TopUp, TopUpDelta, ExtensionPriced
    <3> HIDE DEF delta
    <3> QED
      BY <2>1, <2>2, <2>3, <3>1, <3>2 DEF ToppedUpStep
  <2> HIDE DEF delta
  <2> QED
    BY <1>1, <2>1, <2>2, <2>3, <2>4, TopUpOK
<1>6. CASE Pause(i)
  <2>1. RecordStep(s, Paused(s, now))
    BY <1>6 DEF Pause, RecordStep
  <2> QED
    BY <1>1, <1>6, <2>1, QuietWriteOK DEF Pause
<1>7. CASE Resume(i)
  <2>1. RecordStep(s, Resumed(s, now))
    BY <1>7 DEF Resume, RecordStep
  <2> QED
    BY <1>1, <1>7, <2>1, QuietWriteOK DEF Resume
<1>8. ASSUME NEW to \in Accounts, TransferRecipient(i, to)
      PROVE  StepOK
  <2>1. RecordStep(s, [s EXCEPT !.recipient = to])
    BY <1>8 DEF TransferRecipient, RecordStep
  <2> QED
    BY <1>1, <1>8, <2>1, QuietWriteOK DEF TransferRecipient
<1> QED
  BY <1>2, <1>3, <1>4, <1>5, <1>6, <1>7, <1>8 DEF StreamCall

(* Granting and revoking make legal steps.                               *)
LEMMA DelegationOK ==
  ASSUME IInv, NEW i \in Ids, NEW d \in Delegates,
         \/ \E ops \in GrantOps, expires_at \in Expiries :
              GrantDelegate(i, d, ops, expires_at)
         \/ \E grantor \in Accounts : RevokeDelegate(i, grantor, d)
  PROVE  StepOK
<1> DEFINE Grant == [ops: SUBSET (SenderOps \cup RecipientOps),
                     expires_at: Nat \cup {None}]
<1>1. PICK g \in Grant, signed \in SUBSET Accounts :
        /\ grants' = [grants EXCEPT ![<<i, d>>] = g]
        /\ signers' = signed
        /\ UNCHANGED <<now, streams, nextId, funds, halting>>
  <2>1. ASSUME NEW ops \in GrantOps, NEW expires_at \in Expiries,
               GrantDelegate(i, d, ops, expires_at)
        PROVE  \E g \in Grant, signed \in SUBSET Accounts :
                 /\ grants' = [grants EXCEPT ![<<i, d>>] = g]
                 /\ signers' = signed
                 /\ UNCHANGED <<now, streams, nextId, funds, halting>>
    <3>1. [ops |-> ops, expires_at |-> expires_at] \in Grant
      BY ConstantsAssumption, ArgumentsAssumption
    <3>2. signers' \in SUBSET Accounts
      BY <2>1, StreamParties DEF GrantDelegate
    <3> QED
      BY <2>1, <3>1, <3>2 DEF GrantDelegate
  <2>2. ASSUME NEW grantor \in Accounts, RevokeDelegate(i, grantor, d)
        PROVE  \E g \in Grant, signed \in SUBSET Accounts :
                 /\ grants' = [grants EXCEPT ![<<i, d>>] = g]
                 /\ signers' = signed
                 /\ UNCHANGED <<now, streams, nextId, funds, halting>>
    <3>1. NoGrant \in Grant
      BY DEF NoGrant
    <3>2. signers' \in SUBSET Accounts
      BY <2>2 DEF RevokeDelegate
    <3> QED
      BY <2>2, <3>1, <3>2 DEF RevokeDelegate
  <2> QED
    BY <2>1, <2>2
<1>2. grants' \in [AllIds \X Delegates -> Grant]
  BY <1>1, IInvParts DEF OthersTyped
<1>3. OthersTyped'
  BY <1>1, <1>2, IInvParts DEF OthersTyped, halting
<1> QED
  BY <1>1, <1>3, IInvParts, QuietStepOK

(* Every call of a delegate makes a legal step.                          *)
LEMMA DelegateCallOK ==
  ASSUME IInv, NEW i \in Ids, NEW d \in Delegates, DelegateCall(i, d)
  PROVE  StepOK
<1> DEFINE s == streams[i]
<1>1. d \in Accounts /\ s.sender \in Accounts
  BY ConstantsAssumption, StreamParties
<1>2. CASE \E payout \in 1 .. Withdrawable(s, now) : DelegateWithdraw(i, d, payout)
  BY <1>1, <1>2, WithdrawalOK DEF DelegateWithdraw
<1>3. CASE DelegateCancel(i, d)
  BY <1>1, <1>3, CancellationOK DEF DelegateCancel
<1>4. ASSUME NEW amount \in TopUpAmounts, DelegateTopUp(i, d, amount)
      PROVE  StepOK
  <2> DEFINE delta == RateDelta(s, amount)
  <2>1. /\ ~ Terminal(s) /\ ~ Matured(s) /\ amount > 0
        /\ PullDeposits(Only(s.token, amount))
        /\ Write(i, Extended(s, amount, delta))
        /\ signers' = {d, s.sender}
        /\ UNCHANGED <<now, nextId, grants, halting>>
    BY <1>4 DEF DelegateTopUp
  <2>2. amount \in Nat
    BY <2>1, ConstantsAssumption
  <2>3. delta \in Nat
    BY <2>1, <2>2, IInvParts, RateDeltaType
  <2>4. ToppedUpStep(s, Extended(s, amount, delta))
    <3>1. TopUpFits(s, amount, delta)
      BY <1>4 DEF DelegateTopUp
    <3>2. TopUpDelegated /\ delta > 0
      BY <1>4 DEF DelegateTopUp, CheckDelegate, TopUpDelegated, ExtensionPriced
    <3> HIDE DEF delta
    <3> QED
      BY <2>1, <2>2, <2>3, <3>1, <3>2 DEF ToppedUpStep, delta
  <2> HIDE DEF delta
  <2> QED
    BY <1>1, <2>1, <2>2, <2>3, <2>4, TopUpOK
<1>5. CASE DelegatePause(i, d)
  <2>1. RecordStep(s, Paused(s, now))
    BY <1>5 DEF DelegatePause, RecordStep
  <2> QED
    BY <1>1, <1>5, <2>1, QuietWriteOK DEF DelegatePause
<1>6. CASE DelegateResume(i, d)
  <2>1. RecordStep(s, Resumed(s, now))
    BY <1>6 DEF DelegateResume, RecordStep
  <2> QED
    BY <1>1, <1>6, <2>1, QuietWriteOK DEF DelegateResume
<1>7. ASSUME NEW to \in Accounts, DelegateTransferRecipient(i, d, to)
      PROVE  StepOK
  <2>1. RecordStep(s, [s EXCEPT !.recipient = to])
    BY <1>7 DEF DelegateTransferRecipient, RecordStep
  <2> QED
    BY <1>1, <1>7, <2>1, QuietWriteOK DEF DelegateTransferRecipient
<1>8. CASE \/ \E ops \in GrantOps, expires_at \in Expiries :
                GrantDelegate(i, d, ops, expires_at)
           \/ \E grantor \in Accounts : RevokeDelegate(i, grantor, d)
  BY <1>8, DelegationOK
<1> QED
  BY <1>2, <1>3, <1>4, <1>5, <1>6, <1>7, <1>8 DEF DelegateCall

-----------------------------------------------------------------------------
(* Every step.                                                             *)
LEMMA CreationOK ==
  ASSUME IInv,
         \/ \E req \in CreateRequests :
              \/ CreateStreamWithCliffMode(req)
              \/ CreateStreamWithCurve(req)
              \/ \E answer \in FactoryAnswers : CreateStreamViaFactory(req, answer)
         \/ \E reqs \in Batches(CreateRequests) : BatchCreate(reqs)
  PROVE  StepOK
<1>1. ASSUME NEW req \in CreateRequests, CreateStreams(<<req>>)
      PROVE  StepOK
  BY <1>1, OneRequest, CreateStreamsOK
<1>2. ASSUME NEW reqs \in Batches(CreateRequests), CreateStreams(reqs)
      PROVE  StepOK
  BY <1>2, BatchOfRequests, CreateStreamsOK
<1> QED
  BY <1>1, <1>2
  DEF CreateStreamWithCliffMode, CreateStreamWithCurve, CreateStreamViaFactory, BatchCreate

(* The operator's calls make legal steps.                                *)
LEMMA HaltingOK ==
  ASSUME IInv, (\E a \in HaltOperators : SetHaltOperator(a)) \/ Halt \/ ResumeContract
  PROVE  StepOK
<1>1. UNCHANGED <<now, streams, nextId, funds, grants>> /\ now \in Nat
  BY IInvParts DEF SetHaltOperator, Halt, ResumeContract
<1>2. operator' \in SUBSET HaltOperators /\ haltedAt' \in Nat \cup {None}
      /\ signers' \in SUBSET Accounts
  BY IInvParts, ConstantsAssumption
  DEF SetHaltOperator, Halt, ResumeContract, OthersTyped
<1>3. OthersTyped'
  BY <1>1, <1>2, IInvParts DEF OthersTyped
<1> QED
  BY <1>1, <1>3, QuietStepOK

(* A token changing the balance makes a legal step.                      *)
LEMMA RebaseOK ==
  ASSUME IInv, NEW t \in Tokens, NEW change \in Rebases, Rebase(t, change)
  PROVE  StepOK
<1>1. /\ held' = [held EXCEPT ![t] = @ + change]
      /\ held[t] + change >= 0 /\ signers' = {}
      /\ UNCHANGED <<now, streams, nextId, pooled, grants, halting>>
  BY DEF Rebase
<1>2. held[t] + change \in Nat
  BY <1>1, ConstantsAssumption, IInvParts DEF FundsTyped
<1>3. FundsTyped'
  BY <1>1, <1>2, IInvParts DEF FundsTyped
<1>4. OthersTyped'
  BY <1>1, IInvParts, OthersKept DEF halting
<1>5. Evolves
  BY <1>1, IInvParts, IdleEvolves
<1> QED
  BY <1>3, <1>4, <1>5 DEF StepOK

(* The clock makes a legal step.                                         *)
LEMMA TickOK ==
  ASSUME IInv, Tick
  PROVE  StepOK
<1>1. OthersTyped'
  BY IInvParts, OthersKept DEF Tick, halting
<1>2. now' \in Nat /\ now <= now' /\ UNCHANGED <<streams, nextId, funds>>
  BY IInvParts DEF Tick
<1> QED
  BY <1>1, <1>2, QuietStepOK

(* Every step is legal.                                                  *)
LEMMA NextOK ==
  ASSUME IInv, [Next]_vars
  PROVE  StepOK
<1>1. CASE UNCHANGED vars
  <2>1. OthersTyped'
    BY <1>1, IInvParts DEF OthersTyped, vars
  <2> QED
    BY <1>1, <2>1, IInvParts, QuietStepOK DEF vars, funds
<1>2. ASSUME NEW a \in Accounts, NEW ids \in Batches(Ids),
             BatchWithdraw(a, ids) \/ BatchCancel(a, ids)
      PROVE  StepOK
  BY <1>2, BatchOfIds, BatchWithdrawOK, BatchCancelOK
<1> QED
  BY <1>1, <1>2, CreationOK, StreamCallOK, DelegateCallOK, HaltingOK, RebaseOK, TickOK
  DEF Next

(* The invariant holds before the first call.                            *)
LEMMA InitIInv == Init => IInv
<1> SUFFICES ASSUME Init
             PROVE  IInv
  OBVIOUS
<1>1. Ids = {}
  BY DEF Init, Ids
<1>2. TypeOK
  BY <1>1 DEF Init, TypeOK, NoGrant
<1>3. RecordsSound
  BY <1>1 DEF RecordsSound
<1> QED
  BY <1>2, <1>3 DEF IInv

(* A legal step keeps the invariant.                                       *)
LEMMA StepIInv ==
  ASSUME IInv, StepOK
  PROVE  IInv'
<1>1. Evolves /\ FundsTyped' /\ OthersTyped'
  BY DEF StepOK
<1>2. /\ RecordsSound' /\ now' \in Nat /\ nextId' \in Nat
      /\ streams' \in [Ids' -> Stream]
  BY <1>1, EvolvesSound
<1> QED
  BY <1>1, <1>2 DEF IInv, TypeOK, FundsTyped, OthersTyped

(* Every step keeps the invariant.                                       *)
LEMMA NextIInv == IInv /\ [Next]_vars => IInv'
BY NextOK, StepIInv

(* The invariant the theorems below rest on holds in every reachable state. *)
THEOREM Invariance == Spec => []IInv
<1>1. Init => IInv
  BY InitIInv
<1>2. IInv /\ [Next]_vars => IInv'
  BY NextIInv
<1> QED
  BY <1>1, <1>2, PTL DEF Spec

-----------------------------------------------------------------------------
(* Every variable keeps its type: no call stores a negative deposit, a     *)
(* withdrawal below zero, or a record outside the ids issued.              *)
THEOREM TypeCorrect == Spec => []TypeOK
<1>1. IInv => TypeOK
  BY DEF IInv
<1> QED
  BY <1>1, Invariance, PTL

(* No stream is left that can neither be paid nor end: while it is live    *)
(* the contract owes its recipient something.                              *)
THEOREM LiveStreamsAlwaysOwe == Spec => []LiveStreamsOwe
<1>1. IInv => LiveStreamsOwe
  BY DEF IInv, RecordsSound, Sound, OwesWhileLive, LiveStreamsOwe
<1> QED
  BY <1>1, Invariance, PTL

(* I5 of accrual.rs: pauses stay coherent whoever pauses, resumes, drains  *)
(* or cancels, in any order and within any ledger.                         *)
THEOREM PausesStayCoherent == Spec => []PauseCoherence
<1>1. IInv => PauseCoherence
  BY DEF IInv, RecordsSound, Sound, PauseCoherent, PauseCoherence
<1> QED
  BY <1>1, Invariance, PTL

(* A settled stream reads as matured at every later instant, on every      *)
(* curve and cliff: its tail can be drawn at once, and reclaim_dust finds  *)
(* nothing to return.                                                      *)
THEOREM SettledStreamsStayVested == Spec => []SettledStreamsFullyVested
<1>1. IInv => SettledStreamsFullyVested
  <2> SUFFICES ASSUME IInv, NEW i \in Ids, Terminal(streams[i])
               PROVE  /\ Vested(streams[i], now) = streams[i].deposited
                      /\ Dust(streams[i]) = 0
    BY DEF SettledStreamsFullyVested
  <2>1. Sound(streams[i], now) /\ now \in Nat
    BY IInvParts
  <2> QED
    BY <2>1, SettledHasNoDust DEF Sound, MaturedIfSettled, Dust
<1> QED
  BY <1>1, Invariance, PTL

(* No sequence of transfers makes a sender the recipient of its own stream. *)
THEOREM PartiesStayDistinct == Spec => []SenderIsNeverRecipient
<1>1. IInv => SenderIsNeverRecipient
  BY DEF IInv, RecordsSound, Sound, PartiesDiffer, SenderIsNeverRecipient
<1> QED
  BY <1>1, Invariance, PTL

=============================================================================
