---------------------------- MODULE FluxoraEvents ----------------------------
(***************************************************************************)
(* What the stream contract publishes (contracts/stream/src/events.rs, and *)
(* where lib.rs calls it), and an indexer that knows of the streams only   *)
(* what the events say: "these events are the only way an indexer learns   *)
(* that a stream exists or that its state moved".                          *)
(*                                                                         *)
(* The network keeps the events of an invocation together and in order.    *)
(* An indexer that stops after storing some of what it read and before     *)
(* storing how far it read is served the same invocations again.  The fold *)
(* is that of contracts/stream/src/test/event_reconstruction.rs.           *)
(***************************************************************************)
EXTENDS FluxoraStream

CONSTANT MaxJournal    \* bound: invocations the indexer may be behind

ASSUME EventsAssumption == MaxJournal \in Nat

VARIABLES
  journal,   \* the events of each invocation since the indexer's checkpoint
  mirror     \* what the indexer has stored: streams, grants and the halt

indexer == <<journal, mirror>>
eventsVars == <<vars, indexer>>

-----------------------------------------------------------------------------
(* One event, from the record as the invocation leaves it.                 *)

StreamCreated(i, s) ==
  [kind |-> "stream_created", stream_id |-> i,
   sender |-> s.sender, recipient |-> s.recipient, token |-> s.token,
   deposited |-> s.deposited, start_time |-> s.start_time,
   end_time |-> s.end_time, cliff_time |-> s.cliff_time,
   cancellable |-> s.cancellable, pausable |-> s.pausable,
   transferable |-> s.transferable, curve |-> s.curve, cliff_mode |-> s.cliff_mode]

(* Mutant: the schema before the pause bookkeeping was published.          *)
WithdrawnPauseUnknown(i, s, amount) ==
  [kind |-> "withdrawn", stream_id |-> i,
   recipient |-> s.recipient, amount |-> amount, withdrawn |-> s.withdrawn,
   deposited |-> s.deposited, status |-> s.status, sender |-> s.sender,
   paused_at |-> None, paused_total |-> 0]

Withdrawn(i, s, amount) ==
  [kind |-> "withdrawn", stream_id |-> i,
   recipient |-> s.recipient, amount |-> amount, withdrawn |-> s.withdrawn,
   deposited |-> s.deposited, status |-> s.status, sender |-> s.sender,
   paused_at |-> s.paused_at, paused_total |-> s.paused_total]

Cancelled(i, s, refunded) ==
  [kind |-> "cancelled", stream_id |-> i,
   sender |-> s.sender, recipient |-> s.recipient, refunded |-> refunded,
   vested |-> s.deposited, withdrawn |-> s.withdrawn, end_time |-> s.end_time,
   paused_at |-> s.paused_at, paused_total |-> s.paused_total]

PausedEvent(i, s) ==
  [kind |-> "paused", stream_id |-> i, sender |-> s.sender,
   paused_at |-> s.paused_at, paused_total |-> s.paused_total,
   recipient |-> s.recipient]

ResumedEvent(i, s, paused_duration) ==
  [kind |-> "resumed", stream_id |-> i, sender |-> s.sender,
   paused_duration |-> paused_duration, paused_total |-> s.paused_total,
   recipient |-> s.recipient]

ToppedUp(i, s, amount) ==
  [kind |-> "topped_up", stream_id |-> i, sender |-> s.sender, amount |-> amount,
   deposited |-> s.deposited, end_time |-> s.end_time, recipient |-> s.recipient]

(* Mutant: the schema before both parties were named.                      *)
RecipientTransferredUnsent(i, s, old) ==
  [kind |-> "recipient_transferred", stream_id |-> i, old_recipient |-> old,
   recipient |-> s.recipient]

RecipientTransferred(i, s, old) ==
  [kind |-> "recipient_transferred", stream_id |-> i, old_recipient |-> old,
   recipient |-> s.recipient, sender |-> s.sender]

DelegateGranted(i, grantor, d, ops, expires_at) ==
  [kind |-> "delegate_granted", stream_id |-> i, grantor |-> grantor,
   delegate |-> d, ops |-> ops, expires_at |-> expires_at]

DelegateRevoked(i, grantor, d) ==
  [kind |-> "delegate_revoked", stream_id |-> i, grantor |-> grantor, delegate |-> d]

HaltOperatorSet(a) == [kind |-> "halt_operator_set", operator |-> a]

ContractHalted(a) == [kind |-> "contract_halted", operator |-> a, halted_at |-> now]

ContractResumed(a) ==
  [kind |-> "contract_resumed", operator |-> a, resumed_at |-> now,
   halted_for |-> SatSub(now, haltedAt)]

LifecycleKinds ==
  {"stream_created", "withdrawn", "cancelled", "paused", "resumed", "topped_up",
   "recipient_transferred"}

-----------------------------------------------------------------------------
(* The fold: what an indexer that holds s makes of an event about it.      *)

(* The record of a stream just created.                                    *)
Opened(e) ==
  [sender |-> e.sender, recipient |-> e.recipient, token |-> e.token,
   deposited |-> e.deposited, withdrawn |-> 0,
   start_time |-> e.start_time, end_time |-> e.end_time,
   cliff_time |-> e.cliff_time, cliff_mode |-> e.cliff_mode,
   cancellable |-> e.cancellable, pausable |-> e.pausable,
   transferable |-> e.transferable, paused_at |-> None, paused_total |-> 0,
   status |-> "Active", curve |-> e.curve]

(* Mutant: the amount of the event is added to what the indexer had.       *)
FoldedWithdrawalAdds(s, e) ==
  [s EXCEPT !.withdrawn = @ + e.amount, !.deposited = e.deposited,
            !.status = e.status,
            !.paused_at = e.paused_at, !.paused_total = e.paused_total]

FoldedWithdrawal(s, e) ==
  [s EXCEPT !.withdrawn = e.withdrawn, !.deposited = e.deposited,
            !.status = e.status,
            !.paused_at = e.paused_at, !.paused_total = e.paused_total]

FoldedCancellation(s, e) ==
  [s EXCEPT !.deposited = e.vested, !.withdrawn = e.withdrawn,
            !.end_time = e.end_time, !.status = "Cancelled",
            !.paused_at = e.paused_at, !.paused_total = e.paused_total]

(* reconstruct: the record s of a stream after an event about it.          *)
Folded(s, e) ==
  CASE e.kind = "withdrawn" -> FoldedWithdrawal(s, e)
    [] e.kind = "cancelled" -> FoldedCancellation(s, e)
    [] e.kind = "paused" ->
         [s EXCEPT !.paused_at = e.paused_at, !.paused_total = e.paused_total,
                   !.status = "Paused"]
    [] e.kind = "resumed" ->
         [s EXCEPT !.paused_total = e.paused_total, !.paused_at = None,
                   !.status = "Active"]
    [] e.kind = "topped_up" ->
         [s EXCEPT !.deposited = e.deposited, !.end_time = e.end_time]
    [] e.kind = "recipient_transferred" -> [s EXCEPT !.recipient = e.recipient]

About(events, i) == {e \in events : e.kind \in LifecycleKinds /\ e.stream_id = i}

(* The streams an indexer that knows those of known holds after events.    *)
FoldedStreams(known, events) ==
  LET created == {e \in events : e.kind = "stream_created"}
  IN  [i \in DOMAIN known \cup {e.stream_id : e \in created} |->
         IF About(events, i) = {} THEN known[i]
         ELSE LET e == CHOOSE e \in About(events, i) : TRUE
              IN  IF e.kind = "stream_created" THEN Opened(e)
                  ELSE Folded(known[i], e)]

Granting(events, p) ==
  {e \in events : /\ e.kind \in {"delegate_granted", "delegate_revoked"}
                  /\ p = <<e.stream_id, e.delegate>>}

(* Its second store, for the grants.                                       *)
FoldedGrants(known, events) ==
  [p \in DOMAIN known |->
     IF Granting(events, p) = {} THEN known[p]
     ELSE LET e == CHOOSE e \in Granting(events, p) : TRUE
          IN  IF e.kind = "delegate_granted"
              THEN [ops |-> e.ops, expires_at |-> e.expires_at]
              ELSE NoGrant]

FoldedHalt(known, events) ==
  IF \E e \in events : e.kind = "contract_halted"
  THEN (CHOOSE e \in events : e.kind = "contract_halted").halted_at
  ELSE IF \E e \in events : e.kind = "contract_resumed" THEN None
  ELSE known

(* Everything an indexer keeps.                                            *)
Caught(known, events) ==
  [streams |-> FoldedStreams(known.streams, events),
   grants |-> FoldedGrants(known.grants, events),
   halted_at |-> FoldedHalt(known.halted_at, events)]

(* What is left to read, folded one invocation after the other.            *)
CaughtUp(known, calls) ==
  LET upTo[n \in 0 .. Len(calls)] ==
        IF n = 0 THEN known ELSE Caught(upTo[n - 1], calls[n])
  IN  upTo[Len(calls)]

Stored == [streams |-> streams, grants |-> grants, halted_at |-> haltedAt]

-----------------------------------------------------------------------------
EventsInit ==
  /\ Init
  /\ journal = <<>>
  /\ mirror = Stored

PublishNothing == UNCHANGED indexer

Publish(events) ==
  IF events = {} THEN PublishNothing
  ELSE /\ Len(journal) < MaxJournal
       /\ journal' = Append(journal, events)
       /\ UNCHANGED mirror

(* create_stream_inner publishes for each stream it enrols.                *)
Creation ==
  /\ \/ \E req \in CreateRequests :
          \/ CreateStreamWithCliffMode(req)
          \/ CreateStreamWithCurve(req)
          \/ \E answer \in FactoryAnswers : CreateStreamViaFactory(req, answer)
     \/ \E reqs \in Batches(CreateRequests) : BatchCreate(reqs)
  /\ Publish({StreamCreated(i, streams'[i]) : i \in nextId .. nextId' - 1})

(* apply_withdrawal publishes what it paid.                                *)
Payout(i) ==
  \E payout \in 1 .. Withdrawable(streams[i], now) :
    /\ Withdraw(i, payout) \/ \E d \in Delegates : DelegateWithdraw(i, d, payout)
    /\ Publish({Withdrawn(i, streams'[i], payout)})

(* Streams with nothing to pay publish nothing.                            *)
BatchPayout(a, ids) ==
  /\ BatchWithdraw(a, ids)
  /\ LET paid == {i \in {ids[k] : k \in DOMAIN ids} : Withdrawable(streams[i], now) > 0}
     IN  Publish({Withdrawn(i, streams'[i], Withdrawable(streams[i], now)) : i \in paid})

(* Mutant: the refund is read from the stream as settled.                  *)
CancellationsReadAfter(i) ==
  /\ Cancel(i) \/ \E d \in Delegates : DelegateCancel(i, d)
  /\ Publish({Cancelled(i, streams'[i], Refundable(streams'[i], now))})

(* quote_cancel reads the refund before settle_cancel rewrites the record. *)
Cancellations(i) ==
  /\ Cancel(i) \/ \E d \in Delegates : DelegateCancel(i, d)
  /\ Publish({Cancelled(i, streams'[i], Refundable(streams[i], now))})

BatchCancellation(a, ids) ==
  /\ BatchCancel(a, ids)
  /\ Publish({Cancelled(i, streams'[i], Refundable(streams[i], now)) :
                i \in {ids[k] : k \in DOMAIN ids}})

Extension(i) ==
  \E amount \in TopUpAmounts :
    /\ TopUp(i, amount) \/ \E d \in Delegates : DelegateTopUp(i, d, amount)
    /\ Publish({ToppedUp(i, streams'[i], amount)})

Pausing(i) ==
  /\ Pause(i) \/ \E d \in Delegates : DelegatePause(i, d)
  /\ Publish({PausedEvent(i, streams'[i])})

Resuming(i) ==
  /\ Resume(i) \/ \E d \in Delegates : DelegateResume(i, d)
  /\ Publish({ResumedEvent(i, streams'[i], SatSub(now, streams[i].paused_at))})

Reassignment(i) ==
  \E to \in Accounts :
    /\ TransferRecipient(i, to) \/ \E d \in Delegates : DelegateTransferRecipient(i, d, to)
    /\ Publish({RecipientTransferred(i, streams'[i], streams[i].recipient)})

(* reclaim_dust publishes nothing.                                         *)
Reclaiming(i) == ReclaimDust(i) /\ PublishNothing

Delegating(i, d) ==
  \/ \E ops \in GrantOps, expires_at \in Expiries :
       /\ GrantDelegate(i, d, ops, expires_at)
       /\ \E grantor \in signers' : Publish({DelegateGranted(i, grantor, d, ops, expires_at)})
  \/ \E grantor \in Accounts :
       /\ RevokeDelegate(i, grantor, d)
       /\ Publish({DelegateRevoked(i, grantor, d)})

Halting ==
  \/ \E a \in HaltOperators : SetHaltOperator(a) /\ Publish({HaltOperatorSet(a)})
  \/ \E a \in operator : Halt /\ Publish({ContractHalted(a)})
  \/ \E a \in operator : ResumeContract /\ Publish({ContractResumed(a)})

Environment ==
  /\ Tick \/ \E t \in Tokens, change \in Rebases : Rebase(t, change)
  /\ PublishNothing

-----------------------------------------------------------------------------
(* The indexer.                                                            *)

(* It stores what the next invocations say, but not how far it read.       *)
ReadUnsaved ==
  /\ \E n \in 1 .. Len(journal) : mirror' = CaughtUp(mirror, SubSeq(journal, 1, n))
  /\ UNCHANGED <<vars, journal>>

(* It stores both: nothing of this is served again.                        *)
ReadSaved ==
  /\ journal # <<>>
  /\ mirror' = CaughtUp(mirror, journal)
  /\ journal' = <<>>
  /\ UNCHANGED vars

EventsNext ==
  \/ Creation
  \/ \E i \in Ids :
       \/ Payout(i) \/ Cancellations(i) \/ Extension(i) \/ Pausing(i)
       \/ Resuming(i) \/ Reassignment(i) \/ Reclaiming(i)
       \/ \E d \in Delegates : Delegating(i, d)
  \/ \E a \in Accounts, ids \in Batches(Ids) :
       BatchPayout(a, ids) \/ BatchCancellation(a, ids)
  \/ Halting
  \/ Environment
  \/ ReadUnsaved
  \/ ReadSaved

EventsSpec == EventsInit /\ [][EventsNext]_eventsVars

-----------------------------------------------------------------------------
(* The events of the last invocation, as a step sees them.                 *)
Published ==
  IF Len(journal') > Len(journal) THEN journal'[Len(journal')] ELSE {}

(* events.rs, "Every state change emits exactly one event": what a call    *)
(* publishes is all that is needed to follow what it did to the streams,   *)
(* the grants and the halt, the pauses that withdrawals and cancellations  *)
(* close on the way and the schedule they collapse among them.             *)
EventsTellAll == [][Stored' = Caught(Stored, Published)]_eventsVars

(* Wherever an indexer stands, and however often it has been served the    *)
(* same invocations, reading on brings it to what the contract holds:      *)
(* events carry the figures after the call, not the change.                *)
IndexerCatchesUp == CaughtUp(mirror, journal) = Stored

(* What an event says moved in the pool of the stream's token.             *)
Moved(e) ==
  CASE e.kind = "stream_created" -> e.deposited
    [] e.kind = "topped_up" -> e.amount
    [] e.kind = "withdrawn" -> - e.amount
    [] e.kind = "cancelled" -> - e.refunded
    [] OTHER -> 0

(* events.rs of Cancelled: amounts "reconcile with storage and the token   *)
(* ledger exactly".  The pool of each token moves by what the events of    *)
(* the call say, and a cancellation divides the whole deposit between the  *)
(* parties.                                                                *)
EventsBalance ==
  [][/\ \A t \in Tokens :
          pooled'[t] - pooled[t] =
            SumTo([k \in 1 .. nextId' |->
                     IF streams'[k - 1].token = t /\ About(Published, k - 1) # {}
                     THEN Moved(CHOOSE e \in About(Published, k - 1) : TRUE)
                     ELSE 0], nextId')
     /\ \A e \in Published :
          e.kind = "cancelled" =>
            e.refunded + e.vested = streams[e.stream_id].deposited]_eventsVars

(* "Both parties, on every lifecycle event": an event names the sender and *)
(* the recipient the stream has after it, and the recipient it had.        *)
EventsNameBothParties ==
  [][\A e \in Published :
       e.kind \in LifecycleKinds =>
         LET s == streams'[e.stream_id]
             named == {e[f] : f \in DOMAIN e \cap {"sender", "recipient", "old_recipient"}}
         IN  /\ {s.sender, s.recipient} \subseteq named
             /\ e.stream_id \in Ids => streams[e.stream_id].recipient \in named]_eventsVars
=============================================================================
