---------------------------- MODULE FluxoraStream ----------------------------
(***************************************************************************)
(* The Fluxora stream contract (contracts/stream/src/lib.rs and            *)
(* storage.rs): streams of tokens that vest to a recipient over time, paid *)
(* out of one pooled balance per token.                                    *)
(*                                                                         *)
(* An action is one successful contract invocation.  A Soroban invocation  *)
(* is atomic and cannot be re-entered: one that returns an error is rolled *)
(* back in full, so a refused call is a stuttering step and needs no       *)
(* action.  The order in which a ledger applies invocations, and how many  *)
(* fall between two clock ticks, is free.  Tick and Rebase are the         *)
(* environment: the ledger clock, and a token that changes the contract's  *)
(* balance on its own.                                                     *)
(***************************************************************************)
EXTENDS StreamRecord, Sums, Sequences, FiniteSets

CONSTANTS
  CreateRequests,  \* the terms callers ask for
  FactoryAnswers,  \* what a contract named as factory may answer
  TopUpAmounts,    \* amounts a sender adds to a stream
  GrantOps,        \* sets of operations that are granted together
  Expiries,        \* expiry timestamps of grants, None among them
  Delegates,       \* accounts that receive grants
  HaltOperators,   \* accounts that install themselves as halt operator
  MAX_BATCH_SIZE,  \* streams in one batch call
  Fees,            \* what a token may skim off one call's transfers
  Rebases,         \* changes a token makes to the contract's balance
  MaxStreams,      \* bound: streams created
  MaxTime,         \* bound: the ledger clock
  MaxDrift         \* bound: distance a rebase opens between pool and balance

ASSUME ConstantsAssumption ==
  /\ I128Max \in Nat /\ U64Max \in Nat
  /\ CreateRequests \subseteq CreateRequest
  /\ TopUpAmounts \subseteq Int
  /\ Expiries \subseteq Nat \cup {None}
  /\ Delegates \subseteq Accounts /\ HaltOperators \subseteq Accounts
  /\ MAX_BATCH_SIZE \in Nat /\ MaxStreams \in Nat
  /\ MaxTime \in Nat /\ MaxDrift \in Nat
  /\ Fees \subseteq Nat /\ Rebases \subseteq Int

VARIABLES
  now,        \* the ledger timestamp
  streams,    \* DataKey::Stream(id) for every id issued
  nextId,     \* DataKey::NextStreamId, and StreamCount with it
  pooled,     \* DataKey::PooledBalance(token): what the contract accounts for
  held,       \* what the token says the contract owns
  grants,     \* DataKey::Delegate(id, address)
  operator,   \* DataKey::HaltOperator: {} or one account
  haltedAt,   \* DataKey::HaltedAt, or None
  signers     \* the addresses the last invocation required to authorize

funds == <<pooled, held>>
halting == <<operator, haltedAt>>
vars == <<now, streams, nextId, pooled, held, grants, operator, haltedAt, signers>>

Ids == 0 .. nextId - 1
AllIds == 0 .. MaxStreams - 1

(* Non-empty lists of at most MAX_BATCH_SIZE members of S.                 *)
Batches(S) == UNION {[1..n -> S] : n \in 1..MAX_BATCH_SIZE}

SenderOps == {"CANCEL", "PAUSE", "RESUME", "TOP_UP"}
RecipientOps == {"WITHDRAW", "TRANSFER_RECIPIENT"}

(* A stored grant always names an operation, so no operation is no entry.  *)
NoGrant == [ops |-> {}, expires_at |-> None]

(* get_factory_config and is_allowlisted, as the stream contract reads them. *)
FactoryAnswer ==
  [creation_paused: BOOLEAN, max_deposit: Int, min_duration: Nat,
   min_rate: Nat \cup {None}, max_rate: Nat \cup {None},
   allowlist: SUBSET Tokens]

ASSUME ArgumentsAssumption ==
  /\ GrantOps \subseteq SUBSET (SenderOps \cup RecipientOps)
  /\ FactoryAnswers \subseteq FactoryAnswer

-----------------------------------------------------------------------------
Init ==
  /\ now = 0
  /\ streams = [i \in {} |-> {}]
  /\ nextId = 0
  /\ pooled = [t \in Tokens |-> 0]
  /\ held = [t \in Tokens |-> 0]
  /\ grants = [p \in AllIds \X Delegates |-> NoGrant]
  /\ operator = {}
  /\ haltedAt = None
  /\ signers = {}

-----------------------------------------------------------------------------
(* Guards shared by the entry points.                                      *)

(* Mutant: a halt takes effect with the next ledger.                       *)
NotHaltedYet == haltedAt \in {None, now}

(* require_not_halted                                                      *)
NotHalted == haltedAt = None

(* Mutant: a grant is refused only once it is past its expiry by a tick.   *)
CheckDelegateLate(i, d, op) ==
  LET grant == grants[<<i, d>>]
  IN  /\ op \in grant.ops
      /\ grant.expires_at = None \/ now <= grant.expires_at + 1

(* check_delegate: the last instant of a grant is its expiry.              *)
CheckDelegate(i, d, op) ==
  LET grant == grants[<<i, d>>]
  IN  /\ op \in grant.ops
      /\ grant.expires_at = None \/ now <= grant.expires_at

(* Mutant: any list of ids is accepted.                                    *)
DistinctIdsUnchecked(ids) == ids # <<>>

(* reject_duplicate_ids                                                    *)
DistinctIds(ids) ==
  \A j, k \in DOMAIN ids : ids[j] = ids[k] => j = k

(* A call that would lower what the recipient has earned is refused.       *)
NotDecreased(before, after) ==
  /\ AccrualFits(before, now) /\ AccrualFits(after, now)
  /\ Vested(after, now) >= Vested(before, now)

-----------------------------------------------------------------------------
(* Tokens.  A token may deliver less than it was asked to move, or take    *)
(* more from the payer: by a fee out of Fees, over one call's transfers.   *)

Only(token, amount) == [t \in Tokens |-> IF t = token THEN amount ELSE 0]

(* Mutant: the pool is credited with what was asked for, whatever arrived. *)
PullDepositsUnmeasured(due) ==
  \E fee \in [Tokens -> Fees] :
    LET received == [t \in Tokens |-> IF due[t] = 0 THEN 0 ELSE due[t] - fee[t]]
    IN  /\ pooled' = [t \in Tokens |-> pooled[t] + due[t]]
        /\ \A t \in Tokens : pooled'[t] <= I128Max
        /\ held' = [t \in Tokens |-> held[t] + received[t]]

(* pull_deposit: the contract's balance must have grown by exactly the     *)
(* amount, and the pool is credited with it.                               *)
PullDeposits(due) ==
  \E fee \in [Tokens -> Fees] :
    LET received == [t \in Tokens |-> IF due[t] = 0 THEN 0 ELSE due[t] - fee[t]]
    IN  /\ \A t \in Tokens : received[t] = due[t]
        /\ pooled' = [t \in Tokens |-> pooled[t] + due[t]]
        /\ \A t \in Tokens : pooled'[t] <= I128Max
        /\ held' = [t \in Tokens |-> held[t] + received[t]]

(* The contract's transfers of out[t], and the balance each leaves behind. *)
TransferOut(out) ==
  \E fee \in [Tokens -> Fees] :
    LET left == [t \in Tokens |->
                   IF out[t] = 0 THEN held[t] ELSE held[t] - out[t] - fee[t]]
    IN  (\A t \in Tokens : left[t] >= 0) /\ held' = left

(* debit_pool, with the transfer it accompanies.                           *)
PayOut(out) ==
  /\ TransferOut(out)
  /\ pooled' = [t \in Tokens |-> pooled[t] - out[t]]

(* Mutant: the balance is never compared with the pool.                    *)
VerifyPoolSkipped(ts) == ts \subseteq Tokens

(* verify_pool_balance, after the call's transfers: a shortfall refuses    *)
(* the call, a surplus does not.                                           *)
VerifyPool(ts) == \A t \in ts : held'[t] >= pooled'[t]

-----------------------------------------------------------------------------
(* Creation.                                                               *)

(* Mutant: the id counter does not move.                                   *)
EnrolKeepsCounter(reqs) ==
  /\ streams' = [i \in 0 .. nextId + Len(reqs) - 1 |->
                   IF i < nextId THEN streams[i]
                   ELSE NewStream(reqs[i - nextId + 1])]
  /\ UNCHANGED nextId

(* next_stream_id and save_stream: each stream takes the next id.          *)
Enrol(reqs) ==
  /\ nextId + Len(reqs) <= MaxStreams
  /\ nextId + Len(reqs) <= U64Max
  /\ streams' = [i \in 0 .. nextId + Len(reqs) - 1 |->
                   IF i < nextId THEN streams[i]
                   ELSE NewStream(reqs[i - nextId + 1])]
  /\ nextId' = nextId + Len(reqs)

(* The deposits a list of requests asks for in token t.                    *)
DepositsIn(reqs, t) ==
  SumTo([k \in 1 .. Len(reqs) |->
           IF reqs[k].token = t THEN reqs[k].deposit ELSE 0], Len(reqs))

(* create_stream_inner, for each request in turn: all or none.             *)
CreateStreams(reqs) ==
  /\ \A k \in 1 .. Len(reqs) :
       /\ ValidTerms(reqs[k])
       /\ ProductFits(reqs[k].deposit, reqs[k].end_time - reqs[k].start_time)
       /\ reqs[k].sender = reqs[1].sender
  /\ Enrol(reqs)
  /\ PullDeposits([t \in Tokens |-> DepositsIn(reqs, t)])
  /\ signers' = {reqs[1].sender}
  /\ UNCHANGED <<now, grants, halting>>

(* create_stream is this call with the default cliff mode.                 *)
CreateStreamWithCliffMode(req) ==
  /\ NotHalted
  /\ req.curve = "Linear"
  /\ CreateStreams(<<req>>)

CreateStreamWithCurve(req) ==
  /\ NotHalted
  /\ req.cliff_mode = "Schedule"
  /\ CreateStreams(<<req>>)

BatchCreate(reqs) ==
  /\ NotHalted
  /\ \A k \in DOMAIN reqs : reqs[k].curve = "Linear" /\ reqs[k].cliff_mode = "Schedule"
  /\ CreateStreams(reqs)

(* create_stream_via_factory: the policy is whatever the contract the      *)
(* caller named as factory answers.                                        *)
WithinPolicy(req, answer) ==
  /\ ~ answer.creation_paused
  /\ req.deposit <= answer.max_deposit
  /\ req.end_time > req.start_time =>
       LET duration == req.end_time - req.start_time
           rate     == req.deposit \div duration
       IN  /\ duration >= answer.min_duration
           /\ req.deposit > 0 =>
                /\ answer.min_rate = None \/ rate >= answer.min_rate
                /\ answer.max_rate = None \/ rate <= answer.max_rate
  /\ req.token \in answer.allowlist

CreateStreamViaFactory(req, answer) ==
  /\ NotHalted
  /\ WithinPolicy(req, answer)
  /\ req.curve = "Linear" /\ req.cliff_mode = "Schedule"
  /\ CreateStreams(<<req>>)

-----------------------------------------------------------------------------
(* Withdrawals.                                                            *)

Write(i, s) == streams' = [streams EXCEPT ![i] = s]

(* The body withdraw and delegate_withdraw share; without an amount they   *)
(* pay all that is available.                                              *)
Withdrawal(i, payout) ==
  LET s == streams[i]
  IN  /\ AccrualFits(s, now)
      /\ payout \in 1 .. Withdrawable(s, now)
      /\ Write(i, PaidOut(s, payout, now))
      /\ PayOut(Only(s.token, payout))
      /\ VerifyPool({s.token})
      /\ UNCHANGED <<now, nextId, grants, halting>>

Withdraw(i, payout) ==
  /\ NotHalted
  /\ Withdrawal(i, payout)
  /\ signers' = {streams[i].recipient}

DelegateWithdraw(i, d, payout) ==
  /\ NotHalted
  /\ CheckDelegate(i, d, "WITHDRAW")
  /\ Withdrawal(i, payout)
  /\ signers' = {d}

TokensOf(ids) == {streams[ids[k]].token : k \in DOMAIN ids}

(* What a batch moves in token t, amount[k] for the k-th stream.           *)
BatchTotal(ids, amount, t) ==
  SumTo([k \in 1 .. Len(ids) |->
           IF streams[ids[k]].token = t THEN amount[k] ELSE 0], Len(ids))

(* batch_withdraw: all streams are read and priced before any is paid.     *)
(* Streams with nothing available are skipped.                             *)
BatchWithdraw(recipient, ids) ==
  LET available == [k \in 1 .. Len(ids) |-> Withdrawable(streams[ids[k]], now)]
      paid      == {ids[k] : k \in {j \in DOMAIN ids : available[j] > 0}}
  IN  /\ NotHalted
      /\ DistinctIds(ids)
      /\ \A k \in DOMAIN ids : /\ streams[ids[k]].recipient = recipient
                               /\ AccrualFits(streams[ids[k]], now)
      /\ SumTo(available, Len(ids)) <= I128Max
      /\ streams' = [i \in Ids |->
                       IF i \in paid
                       THEN PaidOut(streams[i], Withdrawable(streams[i], now), now)
                       ELSE streams[i]]
      /\ PayOut([t \in Tokens |-> BatchTotal(ids, available, t)])
      /\ VerifyPool(TokensOf(ids))
      /\ signers' = {recipient}
      /\ UNCHANGED <<now, nextId, grants, halting>>

-----------------------------------------------------------------------------
(* Cancellation.                                                           *)

(* Mutant: whether the stream was created cancellable is not asked.        *)
MayCancelAnyStream(s) == ~ Terminal(s) /\ AccrualFits(s, now)

(* quote_cancel answers a price.                                           *)
MayCancel(s) == s.cancellable /\ ~ Terminal(s) /\ AccrualFits(s, now)

(* The body cancel and delegate_cancel share: settle_cancel at the price.  *)
(* The pool is verified even when there is nothing to refund.              *)
Cancellation(i) ==
  LET s == streams[i]
  IN  /\ MayCancel(s)
      /\ Write(i, Settled(s, now))
      /\ PayOut(Only(s.token, Refundable(s, now)))
      /\ VerifyPool({s.token})
      /\ UNCHANGED <<now, nextId, grants, halting>>

Cancel(i) ==
  /\ NotHalted
  /\ Cancellation(i)
  /\ signers' = {streams[i].sender}

DelegateCancel(i, d) ==
  /\ NotHalted
  /\ CheckDelegate(i, d, "CANCEL")
  /\ Cancellation(i)
  /\ signers' = {d}

(* batch_cancel asks no halt guard.  A stream that cannot be cancelled     *)
(* refuses the batch with an answer, not an error, and changes nothing.    *)
BatchCancel(sender, ids) ==
  LET refund  == [k \in 1 .. Len(ids) |-> Refundable(streams[ids[k]], now)]
      settled == {ids[k] : k \in DOMAIN ids}
  IN  /\ DistinctIds(ids)
      /\ \A k \in DOMAIN ids : /\ streams[ids[k]].sender = sender
                               /\ MayCancel(streams[ids[k]])
      /\ SumTo(refund, Len(ids)) <= I128Max
      /\ streams' = [i \in Ids |->
                       IF i \in settled THEN Settled(streams[i], now) ELSE streams[i]]
      /\ PayOut([t \in Tokens |-> BatchTotal(ids, refund, t)])
      /\ VerifyPool(TokensOf(ids))
      /\ signers' = {sender}
      /\ UNCHANGED <<now, nextId, grants, halting>>

(* What reclaim_dust would return to the sender: the part of the           *)
(* outstanding liability the recipient cannot claim.                       *)
Dust(s) == Greatest(Liability(s) - Withdrawable(s, now), 0)

(* reclaim_dust asks no halt guard, does not debit the pool and does not   *)
(* verify it.                                                              *)
ReclaimDust(i) ==
  LET s == streams[i]
  IN  /\ Terminal(s)
      /\ AccrualFits(s, now)
      /\ Write(i, [s EXCEPT !.deposited = @ - Dust(s)])
      /\ TransferOut(Only(s.token, Dust(s)))
      /\ signers' = {s.sender}
      /\ UNCHANGED <<now, nextId, pooled, grants, halting>>

-----------------------------------------------------------------------------
(* Top-ups.                                                                *)

Matured(s) == StreamTime(s, now) >= s.end_time

(* A linear stream must gain at least a second, and the product that       *)
(* prices the extension must fit.                                          *)
ExtensionPriced(s, amount, delta) ==
  ProductFits(amount, Duration(s)) /\ delta > 0

TopUp(i, amount) ==
  LET s     == streams[i]
      delta == TopUpDelta(s, amount)
      after == Extended(s, amount, delta)
  IN  /\ NotHalted
      /\ ~ Terminal(s)
      /\ amount > 0
      /\ ~ Matured(s)
      /\ s.curve = "Linear" => ExtensionPriced(s, amount, delta)
      /\ TopUpFits(s, amount, delta)
      /\ NotDecreased(s, after)
      /\ PullDeposits(Only(s.token, amount))
      /\ VerifyPool({s.token})
      /\ Write(i, after)
      /\ signers' = {s.sender}
      /\ UNCHANGED <<now, nextId, grants, halting>>

(* delegate_top_up extends every curve at the linear rate, and does not    *)
(* ask whether the amount vested went down.  The tokens are the sender's,  *)
(* who must authorize as well.                                             *)
DelegateTopUp(i, d, amount) ==
  LET s     == streams[i]
      delta == RateDelta(s, amount)
  IN  /\ NotHalted
      /\ CheckDelegate(i, d, "TOP_UP")
      /\ ~ Terminal(s)
      /\ amount > 0
      /\ ~ Matured(s)
      /\ ExtensionPriced(s, amount, delta)
      /\ TopUpFits(s, amount, delta)
      /\ PullDeposits(Only(s.token, amount))
      /\ VerifyPool({s.token})
      /\ Write(i, Extended(s, amount, delta))
      /\ signers' = {d, s.sender}
      /\ UNCHANGED <<now, nextId, grants, halting>>

-----------------------------------------------------------------------------
(* Pausing.                                                                *)

(* Mutant: whether the stream was created pausable is not asked.           *)
MayPauseAnyStream(s) == s.status = "Active"

MayPause(s) == s.pausable /\ s.status = "Active"

MayResume(s) == s.status = "Paused" /\ s.paused_at # None

Pause(i) ==
  LET s == streams[i]
  IN  /\ NotHalted
      /\ MayPause(s)
      /\ NotDecreased(s, Paused(s, now))
      /\ Write(i, Paused(s, now))
      /\ signers' = {s.sender}
      /\ UNCHANGED <<now, nextId, funds, grants, halting>>

Resume(i) ==
  LET s == streams[i]
  IN  /\ NotHalted
      /\ MayResume(s)
      /\ NotDecreased(s, Resumed(s, now))
      /\ Write(i, Resumed(s, now))
      /\ signers' = {s.sender}
      /\ UNCHANGED <<now, nextId, funds, grants, halting>>

DelegatePause(i, d) ==
  /\ NotHalted
  /\ CheckDelegate(i, d, "PAUSE")
  /\ MayPause(streams[i])
  /\ Write(i, Paused(streams[i], now))
  /\ signers' = {d}
  /\ UNCHANGED <<now, nextId, funds, grants, halting>>

DelegateResume(i, d) ==
  /\ NotHalted
  /\ CheckDelegate(i, d, "RESUME")
  /\ MayResume(streams[i])
  /\ Write(i, Resumed(streams[i], now))
  /\ signers' = {d}
  /\ UNCHANGED <<now, nextId, funds, grants, halting>>

-----------------------------------------------------------------------------
(* Recipient transfer.  A cancelled stream with a tail may be transferred. *)

(* Mutant: the sender may become the recipient of its own stream.          *)
MayTransferToSender(s, to) ==
  /\ s.transferable
  /\ s.status # "Depleted" /\ s.withdrawn < s.deposited
  /\ to # s.recipient

MayTransfer(s, to) ==
  /\ s.transferable
  /\ s.status # "Depleted" /\ s.withdrawn < s.deposited
  /\ to \notin {s.sender, s.recipient}

TransferRecipient(i, to) ==
  LET s     == streams[i]
      after == [s EXCEPT !.recipient = to]
  IN  /\ NotHalted
      /\ MayTransfer(s, to)
      /\ NotDecreased(s, after)
      /\ Write(i, after)
      /\ signers' = {s.sender}
      /\ UNCHANGED <<now, nextId, funds, grants, halting>>

DelegateTransferRecipient(i, d, to) ==
  /\ NotHalted
  /\ CheckDelegate(i, d, "TRANSFER_RECIPIENT")
  /\ MayTransfer(streams[i], to)
  /\ Write(i, [streams[i] EXCEPT !.recipient = to])
  /\ signers' = {d}
  /\ UNCHANGED <<now, nextId, funds, grants, halting>>

-----------------------------------------------------------------------------
(* Delegation.                                                             *)

(* grant_delegate: the party that owns the operations must be the grantor; *)
(* a mix of both sides is refused.  An existing grant is replaced.         *)
GrantDelegate(i, d, ops, expires_at) ==
  LET s == streams[i]
  IN  /\ NotHalted
      /\ ~ Terminal(s)
      /\ ops # {}
      /\ \/ ops \subseteq SenderOps /\ signers' = {s.sender}
         \/ ops \subseteq RecipientOps /\ signers' = {s.recipient}
      /\ grants' = [grants EXCEPT ![<<i, d>>] =
                      [ops |-> ops, expires_at |-> expires_at]]
      /\ UNCHANGED <<now, streams, nextId, funds, halting>>

(* revoke_delegate: either party, whoever granted, in any status.          *)
RevokeDelegate(i, grantor, d) ==
  /\ NotHalted
  /\ grantor \in {streams[i].sender, streams[i].recipient}
  /\ grants' = [grants EXCEPT ![<<i, d>>] = NoGrant]
  /\ signers' = {grantor}
  /\ UNCHANGED <<now, streams, nextId, funds, halting>>

-----------------------------------------------------------------------------
(* The emergency halt.                                                     *)

SetHaltOperator(a) ==
  /\ operator = {}
  /\ operator' = {a}
  /\ signers' = {a}
  /\ UNCHANGED <<now, streams, nextId, funds, grants, haltedAt>>

Halt ==
  /\ operator # {} /\ haltedAt = None
  /\ haltedAt' = now
  /\ signers' = operator
  /\ UNCHANGED <<now, streams, nextId, funds, grants, operator>>

ResumeContract ==
  /\ operator # {} /\ haltedAt # None
  /\ haltedAt' = None
  /\ signers' = operator
  /\ UNCHANGED <<now, streams, nextId, funds, grants, operator>>

-----------------------------------------------------------------------------
(* The environment.                                                        *)

(* A ledger closes: timestamps never go back.                              *)
Tick ==
  /\ now < MaxTime
  /\ now' = now + 1
  /\ signers' = {}
  /\ UNCHANGED <<streams, nextId, funds, grants, halting>>

(* The token changes the contract's balance: an elastic supply, or a       *)
(* transfer into the contract from anyone.                                 *)
Rebase(t, change) ==
  /\ held[t] + change >= 0
  /\ held[t] + change - pooled[t] \in -MaxDrift .. MaxDrift
  /\ held' = [held EXCEPT ![t] = @ + change]
  /\ signers' = {}
  /\ UNCHANGED <<now, streams, nextId, pooled, grants, halting>>

-----------------------------------------------------------------------------
StreamCall(i) ==
  \/ \E payout \in 1 .. Withdrawable(streams[i], now) : Withdraw(i, payout)
  \/ Cancel(i)
  \/ ReclaimDust(i)
  \/ \E amount \in TopUpAmounts : TopUp(i, amount)
  \/ Pause(i)
  \/ Resume(i)
  \/ \E to \in Accounts : TransferRecipient(i, to)

DelegateCall(i, d) ==
  \/ \E payout \in 1 .. Withdrawable(streams[i], now) : DelegateWithdraw(i, d, payout)
  \/ DelegateCancel(i, d)
  \/ \E amount \in TopUpAmounts : DelegateTopUp(i, d, amount)
  \/ DelegatePause(i, d)
  \/ DelegateResume(i, d)
  \/ \E to \in Accounts : DelegateTransferRecipient(i, d, to)
  \/ \E ops \in GrantOps, expires_at \in Expiries : GrantDelegate(i, d, ops, expires_at)
  \/ \E grantor \in Accounts : RevokeDelegate(i, grantor, d)

Next ==
  \/ \E req \in CreateRequests :
       \/ CreateStreamWithCliffMode(req)
       \/ CreateStreamWithCurve(req)
       \/ \E answer \in FactoryAnswers : CreateStreamViaFactory(req, answer)
  \/ \E reqs \in Batches(CreateRequests) : BatchCreate(reqs)
  \/ \E i \in Ids : StreamCall(i)
  \/ \E i \in Ids, d \in Delegates : DelegateCall(i, d)
  \/ \E a \in Accounts, ids \in Batches(Ids) : BatchWithdraw(a, ids) \/ BatchCancel(a, ids)
  \/ \E a \in HaltOperators : SetHaltOperator(a)
  \/ Halt
  \/ ResumeContract
  \/ \E t \in Tokens, change \in Rebases : Rebase(t, change)
  \/ Tick

Spec == Init /\ [][Next]_vars

-----------------------------------------------------------------------------
(***************************************************************************)
(* Safety.                                                                 *)
(***************************************************************************)

(* Every variable keeps its type; ids run from 0 without a gap, and a      *)
(* stored record is a Stream (storage.rs, save_stream).                    *)
TypeOK ==
  /\ now \in Nat
  /\ nextId \in Nat
  /\ streams \in [Ids -> Stream]
  /\ pooled \in [Tokens -> Int]
  /\ held \in [Tokens -> Nat]
  /\ grants \in [AllIds \X Delegates ->
                   [ops: SUBSET (SenderOps \cup RecipientOps),
                    expires_at: Nat \cup {None}]]
  /\ operator \in SUBSET HaltOperators
  /\ haltedAt \in Nat \cup {None}
  /\ signers \in SUBSET Accounts

(* What the streams of token t are still owed.                             *)
Claims(t) ==
  SumTo([k \in 1 .. nextId |->
           IF streams[k - 1].token = t THEN Liability(streams[k - 1]) ELSE 0],
        nextId)

(* The running total PooledBalance, which verify_pool_balance compares     *)
(* with the token's balance, is the sum of the outstanding liabilities of  *)
(* all streams of the token: the sum the contract cannot compute.          *)
PoolMatchesClaims == \A t \in Tokens : pooled[t] = Claims(t)

(* I1 of accrual.rs: 0 <= withdrawn <= vested(t) <= deposited.             *)
WithdrawnVestedDeposited ==
  \A i \in Ids :
    /\ 0 <= streams[i].withdrawn
    /\ streams[i].withdrawn <= Vested(streams[i], now)
    /\ Vested(streams[i], now) <= streams[i].deposited

(* accrual.rs of vested: "Rounds down".  A front-loaded stream shows at    *)
(* most deposited * (2u - u^2), u the fraction of the schedule consumed.   *)
FrontLoadedRoundsDown ==
  \A i \in Ids :
    LET s == streams[i]
        c == Elapsed(s, now)
        d == Duration(s)
    IN  s.curve = "FrontLoaded" /\ c < d =>
          Vested(s, now) * d * d <= s.deposited * (2 * c * d - c * c)

(* I2 and I3 of accrual.rs: neither time nor any call reduces what a       *)
(* recipient has earned.                                                   *)
VestedNeverDecreases ==
  [][\A i \in Ids : Vested(streams'[i], now') >= Vested(streams[i], now)]_vars

(* I5 of accrual.rs: a stream has a pause in progress exactly when its     *)
(* status says so, and the pauses counted fit in the time gone by.         *)
PauseCoherence ==
  \A i \in Ids :
    LET s == streams[i]
    IN  /\ s.status = "Paused" <=> s.paused_at # None
        /\ s.paused_at # None => s.paused_total <= s.paused_at /\ s.paused_at <= now
        /\ s.paused_total <= now

(* While a stream is paused nothing accrues, and resuming it does not      *)
(* recover the time it was paused, unless its cliff is a wall-clock date.  *)
PauseFreezesAccrual ==
  [][\A i \in Ids :
       LET s == streams[i]
           t == streams'[i]
       IN  ( /\ s.status = "Paused" /\ s.cliff_mode = "Schedule"
             /\ t.status \in {"Paused", "Active"} /\ t.deposited = s.deposited )
           => Vested(t, now') = Vested(s, now)]_vars

(* A settled stream reads as fully vested: all it still owes can be        *)
(* withdrawn at once, and reclaim_dust never finds anything to return.     *)
SettledStreamsFullyVested ==
  \A i \in Ids :
    Terminal(streams[i]) =>
      /\ Vested(streams[i], now) = streams[i].deposited
      /\ Dust(streams[i]) = 0

(* A live stream still owes its recipient something, and a depleted one    *)
(* nothing: no stream is left that can neither be paid nor end.            *)
LiveStreamsOwe ==
  \A i \in Ids :
    /\ ~ Terminal(streams[i]) => streams[i].withdrawn < streams[i].deposited
    /\ streams[i].status = "Depleted" => streams[i].withdrawn = streams[i].deposited

(* The guard at creation and top-up is enough: no later computation of     *)
(* vested overflows, so no stream becomes impossible to settle.            *)
AccrualNeverOverflows ==
  \A i \in Ids : \A later \in now .. MaxTime + 1 : AccrualFits(streams[i], later)

(* A top-up never accelerates a linear schedule: at the same instant it    *)
(* shows at most what one more second of the old schedule would.           *)
TopUpNeverAccelerates ==
  [][\A i \in Ids :
       LET s == streams[i]
           t == streams'[i]
       IN  /\ s.curve = "Linear" /\ t.deposited > s.deposited
           /\ CliffReached(s, now)
           => Vested(t, now) <=
                VestedLinear(s.deposited, Elapsed(s, now) + 1, Duration(s))]_vars

(* The immutable guarantees of lib.rs: the terms a recipient accepted stay *)
(* as they were, a stream that is not cancellable never gives back a       *)
(* deposit, one that is not pausable never stops, one that is not          *)
(* transferable keeps its recipient, and a settled stream stays settled.   *)
GuaranteesHold ==
  [][\A i \in Ids :
       LET s == streams[i]
           t == streams'[i]
       IN  /\ \A term \in {"sender", "token", "start_time", "cliff_time",
                           "cliff_mode", "cancellable", "pausable",
                           "transferable", "curve"} : t[term] = s[term]
           /\ ~ s.cancellable => t.deposited >= s.deposited /\ t.end_time >= s.end_time
           /\ ~ s.pausable => t.paused_at = None /\ t.paused_total = s.paused_total
           /\ ~ s.transferable => t.recipient = s.recipient
           /\ Terminal(s) => t.status = s.status]_vars

(* A stream its sender can neither pause nor cancel is fully vested once   *)
(* the ledger clock passes its end.                                        *)
UnstoppableStreamsMature ==
  \A i \in Ids :
    ~ streams[i].pausable /\ ~ streams[i].cancellable /\ now >= streams[i].end_time
      => Vested(streams[i], now) = streams[i].deposited

(* docs/same-ledger-ordering.md, pair 4: withdraw and cancel in the same   *)
(* ledger leave both parties with the same amounts in either order.        *)
EitherOrderSettlesAlike ==
  \A i \in Ids :
    LET s         == streams[i]
        available == Withdrawable(s, now)
        drawn     == PaidOut(s, available, now)
        cancelled == Settled(s, now)
    IN  s.cancellable /\ ~ Terminal(s) =>
          /\ cancelled.withdrawn + Withdrawable(cancelled, now) = drawn.withdrawn
          /\ Refundable(drawn, now) = Refundable(s, now)
          /\ Liability(cancelled) = Withdrawable(cancelled, now)

-----------------------------------------------------------------------------
(* No call of the contract opens or widens a shortfall of a token: only    *)
(* the token itself can.                                                   *)
ShortfallNeverOpened ==
  [][\A t \in Tokens :
       held'[t] < pooled'[t] /\ <<pooled, streams>>' # <<pooled, streams>>
         => held'[t] - pooled'[t] >= held[t] - pooled[t]]_vars

(* While a token is short, nothing is paid out of its pool: whoever comes  *)
(* first does not empty what is left for the others.                       *)
ShortfallBlocksPayouts ==
  [][\A t \in Tokens : held[t] < pooled[t] => pooled'[t] >= pooled[t]]_vars

(* Halted, the contract creates no stream, pays no recipient, changes no   *)
(* grant, and changes a stream only by cancelling a cancellable one.       *)
HaltAllowsOnlyCancellation ==
  [][haltedAt # None /\ haltedAt' # None =>
       /\ nextId' = nextId /\ grants' = grants
       /\ \A i \in Ids :
            \/ streams'[i] = streams[i]
            \/ /\ MayCancel(streams[i])
               /\ streams'[i] = Settled(streams[i], now)]_vars

(* halt(): "Every state-changing entry point then refuses with             *)
(* ContractHalted until resume_contract is called."                        *)
HaltRefusesEveryChange ==
  [][haltedAt # None /\ haltedAt' # None =>
       UNCHANGED <<streams, nextId, pooled, grants>>]_vars

-----------------------------------------------------------------------------
(* The last call was signed by a delegate to whom the stream's unexpired   *)
(* grant gives the operation.                                              *)
SignedByDelegate(i, op) ==
  \E d \in Delegates \cap signers' :
    /\ op \in grants[<<i, d>>].ops
    /\ grants[<<i, d>>].expires_at = None \/ now <= grants[<<i, d>>].expires_at

SignedFor(i, party, op) == party \in signers' \/ SignedByDelegate(i, op)

(* Whatever happens to a stream was authorized by the party whose right it *)
(* touches, or by a delegate with a live grant for exactly that: payouts   *)
(* by the recipient, the rest by the sender; and only the sender's own     *)
(* signature moves the sender's tokens in.                                 *)
EveryChangeIsAuthorized ==
  [][\A i \in Ids :
       LET s == streams[i]
           t == streams'[i]
       IN  /\ t.withdrawn # s.withdrawn => SignedFor(i, s.recipient, "WITHDRAW")
           /\ t.status = "Cancelled" /\ ~ Terminal(s) => SignedFor(i, s.sender, "CANCEL")
           /\ t.deposited > s.deposited => s.sender \in signers'
           /\ t.status = "Paused" /\ s.status = "Active" => SignedFor(i, s.sender, "PAUSE")
           /\ t.status = "Active" /\ s.status = "Paused" => SignedFor(i, s.sender, "RESUME")
           /\ t.recipient # s.recipient =>
                SignedFor(i, s.sender, "TRANSFER_RECIPIENT")]_vars

(* What is left of I3 when delegates may top up any curve: earnings shrink *)
(* in one way only, when the stream is not linear and a delegate with a    *)
(* live grant tops it up, at the sender's expense and with its signature.  *)
OnlyDelegatedTopUpsReduce ==
  [][\A i \in Ids :
       LET s == streams[i]
           t == streams'[i]
       IN  Vested(t, now') < Vested(s, now) =>
             /\ s.curve # "Linear" /\ t.deposited > s.deposited
             /\ s.sender \in signers'
             /\ SignedByDelegate(i, "TOP_UP")]_vars

(* No sequence of transfers makes a sender the recipient of its own stream. *)
SenderIsNeverRecipient == \A i \in Ids : streams[i].sender # streams[i].recipient

-----------------------------------------------------------------------------
(* What the contract promises, seen without its clock, pool and delegates. *)
Promise == INSTANCE VestingPromise WITH
  StreamIds <- AllIds,
  total     <- [i \in AllIds |-> IF i < nextId THEN streams[i].deposited ELSE 0],
  earned    <- [i \in AllIds |-> IF i < nextId THEN Vested(streams[i], now) ELSE 0],
  paid      <- [i \in AllIds |-> IF i < nextId THEN streams[i].withdrawn ELSE 0],
  closed    <- [i \in AllIds |-> i < nextId /\ Terminal(streams[i])]

(* Every stream keeps the promise: the contract implements VestingPromise. *)
KeepsPromise == Promise!Spec

(* The same seen of the linear streams alone, whose top-ups keep the rate  *)
(* whoever makes them.                                                     *)
Linear(i) == i < nextId /\ streams[i].curve = "Linear"

LinearPromise == INSTANCE VestingPromise WITH
  StreamIds <- AllIds,
  total     <- [i \in AllIds |-> IF Linear(i) THEN streams[i].deposited ELSE 0],
  earned    <- [i \in AllIds |-> IF Linear(i) THEN Vested(streams[i], now) ELSE 0],
  paid      <- [i \in AllIds |-> IF Linear(i) THEN streams[i].withdrawn ELSE 0],
  closed    <- [i \in AllIds |-> Linear(i) /\ Terminal(streams[i])]

(* A linear stream keeps the promise beside streams of any curve and with  *)
(* any delegate: what delegate_top_up does to other curves is theirs alone. *)
LinearStreamsKeepPromise == LinearPromise!Spec

-----------------------------------------------------------------------------
(***************************************************************************)
(* Liveness.  The contract has no scheduler: nothing happens to a stream   *)
(* unless somebody calls.  The ledger clock is the network's to keep going *)
(* (WF), and a recipient who wants the money keeps asking for all there is *)
(* (SF: a halt may take the call away and give it back).  Nothing is asked *)
(* of a sender, of an operator or of a token.                              *)
(***************************************************************************)
DrawAll(i) == i \in Ids /\ Withdraw(i, Withdrawable(streams[i], now))

Fairness == WF_vars(Tick) /\ \A i \in AllIds : SF_vars(DrawAll(i))

FairSpec == Spec /\ Fairness

(* Unless the operator keeps the contract halted for good, every stream    *)
(* that cannot be paused ends, with its recipient paid all that it holds.  *)
UnpausableStreamsArePaidOut ==
  []<>NotHalted =>
    \A i \in AllIds :
      i \in Ids /\ ~ streams[i].pausable
        ~> i \in Ids /\ Terminal(streams[i]) /\ Liability(streams[i]) = 0
=============================================================================
