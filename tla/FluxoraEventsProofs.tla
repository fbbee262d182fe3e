-------------------------- MODULE FluxoraEventsProofs --------------------------
(***************************************************************************)
(* Events say everything, for every value of the constants.                *)
(*                                                                         *)
(* Call by call: what a call publishes is what it did to the records, the  *)
(* grants and the halt, to the parties and to the money (Tells).  Reading  *)
(* by reading: because events carry the figures after a call, what an      *)
(* indexer holds while it reads again is, figure by figure, what it held   *)
(* at that place the first time or what it holds already (Between); when   *)
(* it is back where it stopped, both are the same.                         *)
(***************************************************************************)
EXTENDS FluxoraEvents, FluxoraPoolProofs, FluxoraPromiseProofs, SequenceTheorems

-----------------------------------------------------------------------------
(* One event about one record.                                             *)

RecordKinds == LifecycleKinds \ {"stream_created"}

Named(e) == {e[f] : f \in DOMAIN e \cap {"sender", "recipient", "old_recipient"}}

(* e tells how the record s of stream i became u, between whom and with    *)
(* what money.                                                             *)
RecordTold(i, s, u, e) ==
  /\ e.kind \in RecordKinds /\ e.stream_id = i
  /\ Folded(s, e) = u
  /\ {u.sender, u.recipient, s.recipient} \subseteq Named(e)
  /\ u.token = s.token
  /\ Moved(e) = Liability(u) - Liability(s)
  /\ e.kind = "cancelled" => e.refunded + e.vested = s.deposited

(* A field of an event that names a party.                                 *)
LEMMA NamedField ==
  ASSUME NEW e, NEW f \in {"sender", "recipient", "old_recipient"}, f \in DOMAIN e
  PROVE  e[f] \in Named(e)
BY DEF Named

(* A withdrawal.                                                           *)
LEMMA PaidTold ==
  ASSUME NEW i, NEW s \in Stream, NEW payout \in Nat, NEW t \in Nat
  PROVE  RecordTold(i, s, PaidOut(s, payout, t),
                    Withdrawn(i, PaidOut(s, payout, t), payout))
<1> DEFINE u == PaidOut(s, payout, t)
           e == Withdrawn(i, u, payout)
<1>1. /\ e.kind = "withdrawn" /\ e.stream_id = i /\ e.amount = payout
      /\ e.sender = u.sender /\ e.recipient = u.recipient
      /\ e.withdrawn = u.withdrawn /\ e.deposited = u.deposited
      /\ e.status = u.status
      /\ e.paused_at = u.paused_at /\ e.paused_total = u.paused_total
      /\ {"sender", "recipient"} \subseteq DOMAIN e
  BY DEF Withdrawn
<1>2. u.sender = s.sender /\ u.recipient = s.recipient /\ u.deposited = s.deposited
  BY PaidOutFields DEF SameSchedule
<1>3. u = [s EXCEPT !.withdrawn = u.withdrawn, !.deposited = s.deposited,
                    !.status = u.status,
                    !.paused_at = u.paused_at, !.paused_total = u.paused_total]
  <2> DEFINE paid   == [s EXCEPT !.withdrawn = @ + payout]
             ended  == [paid EXCEPT !.status = "Depleted"]
             closed == [paid EXCEPT !.status = "Depleted",
                                    !.paused_total = PauseServed(s, t), !.paused_at = None]
  <2>1. u \in {paid, ended, closed}
    BY DEF PaidOut
  <2> HIDE DEF u
  <2>2. CASE u = paid
    BY <2>2 DEF Stream
  <2>3. CASE u = ended
    BY <2>3 DEF Stream
  <2>4. CASE u = closed
    BY <2>4 DEF Stream
  <2> QED
    BY <2>1, <2>2, <2>3, <2>4
<1>4. u.token = s.token /\ Liability(u) = Liability(s) - payout
  BY PaidOutOwes
<1>5. Liability(s) \in Int
  BY StreamFields DEF Liability
<1> HIDE DEF u, e
<1>6. Folded(s, e) = u
  BY <1>1, <1>2, <1>3 DEF Folded, FoldedWithdrawal
<1>7. Moved(e) = - payout
  BY <1>1 DEF Moved
<1>8. {u.sender, u.recipient, s.recipient} \subseteq Named(e)
  BY <1>1, <1>2, NamedField
<1> QED
  BY <1>1, <1>4, <1>5, <1>6, <1>7, <1>8 DEF RecordTold, RecordKinds, LifecycleKinds, u, e

(* A cancellation: the event divides the deposit between the parties.      *)
LEMMA CancelTold ==
  ASSUME NEW i, NEW s \in Stream, NEW t \in Nat
  PROVE  RecordTold(i, s, Settled(s, t),
                    Cancelled(i, Settled(s, t), Refundable(s, t)))
<1> DEFINE u == Settled(s, t)
           e == Cancelled(i, u, Refundable(s, t))
<1>1. /\ e.kind = "cancelled" /\ e.stream_id = i /\ e.refunded = Refundable(s, t)
      /\ e.sender = u.sender /\ e.recipient = u.recipient
      /\ e.vested = u.deposited /\ e.withdrawn = u.withdrawn
      /\ e.end_time = u.end_time
      /\ e.paused_at = u.paused_at /\ e.paused_total = u.paused_total
      /\ {"sender", "recipient"} \subseteq DOMAIN e
  BY DEF Cancelled
<1>2. u.sender = s.sender /\ u.recipient = s.recipient /\ u.deposited = Vested(s, t)
  BY DEF Settled, Stream
<1>3. u = [s EXCEPT !.deposited = u.deposited, !.withdrawn = u.withdrawn,
                    !.end_time = u.end_time, !.status = "Cancelled",
                    !.paused_at = u.paused_at, !.paused_total = u.paused_total]
  <2> DEFINE vested == Vested(s, t)
             ended  == Greatest(StreamTime(s, t), s.start_time)
  <2>1. u = [s EXCEPT !.deposited = vested, !.end_time = ended,
                      !.paused_at = None, !.status = "Cancelled"]
    BY DEF Settled
  <2> HIDE DEF u, vested, ended
  <2> QED
    BY <2>1 DEF Stream
<1>4. u.token = s.token /\ Liability(u) = Liability(s) - Refundable(s, t)
  BY SettledOwes
<1>5. /\ Liability(s) \in Int /\ Vested(s, t) \in Int /\ s.deposited \in Int
      /\ Refundable(s, t) = s.deposited - Vested(s, t)
  BY StreamFields, VestedBounds DEF Liability, Refundable
<1> HIDE DEF u, e
<1>6. Folded(s, e) = u
  BY <1>1, <1>3 DEF Folded, FoldedCancellation
<1>7. Moved(e) = - Refundable(s, t)
  BY <1>1 DEF Moved
<1>8. {u.sender, u.recipient, s.recipient} \subseteq Named(e)
  BY <1>1, <1>2, NamedField
<1>9. e.refunded + e.vested = s.deposited
  BY <1>1, <1>2, <1>5
<1> QED
  BY <1>1, <1>4, <1>5, <1>6, <1>7, <1>8, <1>9
  DEF RecordTold, RecordKinds, LifecycleKinds, u, e

(* A top-up.                                                               *)
LEMMA ToppedUpTold ==
  ASSUME NEW i, NEW s \in Stream, NEW amount \in Nat, NEW delta \in Nat
  PROVE  RecordTold(i, s, Extended(s, amount, delta),
                    ToppedUp(i, Extended(s, amount, delta), amount))
<1> DEFINE u == Extended(s, amount, delta)
           e == ToppedUp(i, u, amount)
<1>1. /\ e.kind = "topped_up" /\ e.stream_id = i /\ e.amount = amount
      /\ e.sender = u.sender /\ e.recipient = u.recipient
      /\ e.deposited = u.deposited /\ e.end_time = u.end_time
      /\ {"sender", "recipient"} \subseteq DOMAIN e
  BY DEF ToppedUp
<1>2. u.sender = s.sender /\ u.recipient = s.recipient
  BY DEF Extended, Stream
<1>3. u = [s EXCEPT !.deposited = u.deposited, !.end_time = u.end_time]
  BY DEF Extended, Stream
<1>4. u.token = s.token /\ Liability(u) = Liability(s) + amount
  BY ExtendedOwes
<1>5. Liability(s) \in Int
  BY StreamFields DEF Liability
<1> HIDE DEF u, e
<1>6. Folded(s, e) = u
  BY <1>1, <1>3 DEF Folded
<1>7. Moved(e) = amount
  BY <1>1 DEF Moved
<1>8. {u.sender, u.recipient, s.recipient} \subseteq Named(e)
  BY <1>1, <1>2, NamedField
<1> QED
  BY <1>1, <1>4, <1>5, <1>6, <1>7, <1>8 DEF RecordTold, RecordKinds, LifecycleKinds, u, e

(* A pause.                                                                *)
LEMMA PausedTold ==
  ASSUME NEW i, NEW s \in Stream, NEW t \in Nat
  PROVE  RecordTold(i, s, Paused(s, t), PausedEvent(i, Paused(s, t)))
<1> DEFINE u == Paused(s, t)
           e == PausedEvent(i, u)
<1>1. /\ e.kind = "paused" /\ e.stream_id = i
      /\ e.sender = u.sender /\ e.recipient = u.recipient
      /\ e.paused_at = u.paused_at /\ e.paused_total = u.paused_total
      /\ {"sender", "recipient"} \subseteq DOMAIN e
  BY DEF PausedEvent
<1>2. u.sender = s.sender /\ u.recipient = s.recipient
  BY DEF Paused, Stream
<1>3. u = [s EXCEPT !.paused_at = u.paused_at, !.paused_total = u.paused_total,
                    !.status = "Paused"]
  BY DEF Paused, Stream
<1>4. u.token = s.token /\ Liability(u) = Liability(s)
  BY QuietOwes DEF OwesAlike
<1>5. Liability(s) \in Int
  BY StreamFields DEF Liability
<1> HIDE DEF u, e
<1>6. Folded(s, e) = u
  BY <1>1, <1>3 DEF Folded
<1>7. Moved(e) = 0
  BY <1>1 DEF Moved
<1>8. {u.sender, u.recipient, s.recipient} \subseteq Named(e)
  BY <1>1, <1>2, NamedField
<1> QED
  BY <1>1, <1>4, <1>5, <1>6, <1>7, <1>8 DEF RecordTold, RecordKinds, LifecycleKinds, u, e

(* The end of a pause.                                                     *)
LEMMA ResumedTold ==
  ASSUME NEW i, NEW s \in Stream, NEW t \in Nat, NEW paused_duration
  PROVE  RecordTold(i, s, Resumed(s, t), ResumedEvent(i, Resumed(s, t), paused_duration))
<1> DEFINE u == Resumed(s, t)
           e == ResumedEvent(i, u, paused_duration)
<1>1. /\ e.kind = "resumed" /\ e.stream_id = i
      /\ e.sender = u.sender /\ e.recipient = u.recipient
      /\ e.paused_total = u.paused_total
      /\ {"sender", "recipient"} \subseteq DOMAIN e
  BY DEF ResumedEvent
<1>2. u.sender = s.sender /\ u.recipient = s.recipient
  BY DEF Resumed, Stream
<1>3. u = [s EXCEPT !.paused_total = u.paused_total, !.paused_at = None,
                    !.status = "Active"]
  BY DEF Resumed, Stream
<1>4. u.token = s.token /\ Liability(u) = Liability(s)
  BY QuietOwes DEF OwesAlike
<1>5. Liability(s) \in Int
  BY StreamFields DEF Liability
<1> HIDE DEF u, e
<1>6. Folded(s, e) = u
  BY <1>1, <1>3 DEF Folded
<1>7. Moved(e) = 0
  BY <1>1 DEF Moved
<1>8. {u.sender, u.recipient, s.recipient} \subseteq Named(e)
  BY <1>1, <1>2, NamedField
<1> QED
  BY <1>1, <1>4, <1>5, <1>6, <1>7, <1>8 DEF RecordTold, RecordKinds, LifecycleKinds, u, e

(* A change of recipient: the one replaced is named as well.               *)
LEMMA TransferTold ==
  ASSUME NEW i, NEW s \in Stream, NEW to
  PROVE  RecordTold(i, s, [s EXCEPT !.recipient = to],
                    RecipientTransferred(i, [s EXCEPT !.recipient = to], s.recipient))
<1> DEFINE u == [s EXCEPT !.recipient = to]
           e == RecipientTransferred(i, u, s.recipient)
<1>1. /\ e.kind = "recipient_transferred" /\ e.stream_id = i
      /\ e.sender = u.sender /\ e.recipient = u.recipient
      /\ e.old_recipient = s.recipient
      /\ {"sender", "recipient", "old_recipient"} \subseteq DOMAIN e
  BY DEF RecipientTransferred
<1>2. u.recipient = to
  BY DEF Stream
<1>3. u.token = s.token /\ Liability(u) = Liability(s)
  BY QuietOwes DEF OwesAlike
<1>4. Liability(s) \in Int
  BY StreamFields DEF Liability
<1>5. u = [s EXCEPT !.recipient = u.recipient]
  BY <1>2
<1> HIDE DEF u, e
<1>6. Folded(s, e) = u
  BY <1>1, <1>5 DEF Folded
<1>7. Moved(e) = 0
  BY <1>1 DEF Moved
<1>8. {u.sender, u.recipient, s.recipient} \subseteq Named(e)
  BY <1>1, NamedField
<1> QED
  BY <1>1, <1>3, <1>4, <1>6, <1>7, <1>8 DEF RecordTold, RecordKinds, LifecycleKinds, u, e

-----------------------------------------------------------------------------
(* What a call publishes.                                                  *)

(* A stream is announced alone: nothing else in the call is about it.      *)
Opening(events) ==
  \A e \in events : e.kind = "stream_created" => About(events, e.stream_id) = {e}

PartiesTold(events) ==
  \A e \in events :
    e.kind \in LifecycleKinds =>
      /\ {streams'[e.stream_id].sender, streams'[e.stream_id].recipient} \subseteq Named(e)
      /\ e.stream_id \in Ids => streams[e.stream_id].recipient \in Named(e)

WasOwed(i) == IF i \in Ids THEN Liability(streams[i]) ELSE 0

MoneyTold(events) ==
  /\ \A i \in Ids' :
       /\ i \in Ids => streams'[i].token = streams[i].token
       /\ Liability(streams'[i]) - WasOwed(i) =
            IF About(events, i) = {} THEN 0
            ELSE Moved(CHOOSE e \in About(events, i) : TRUE)
  /\ \A e \in events :
       e.kind = "cancelled" => e.refunded + e.vested = streams[e.stream_id].deposited

(* All that a call did is in its events.                                   *)
Tells(events) ==
  /\ streams' = FoldedStreams(streams, events)
  /\ grants' = FoldedGrants(grants, events)
  /\ haltedAt' = FoldedHalt(haltedAt, events)
  /\ Opening(events) /\ PartiesTold(events) /\ MoneyTold(events)

(* One event for each of some streams.                                     *)
OnePerStream(f, touched) ==
  \A i \in touched : f[i].stream_id = i /\ f[i].kind \in LifecycleKinds

(* What such events are about.                                             *)
LEMMA AboutTouched ==
  ASSUME NEW f, NEW touched, OnePerStream(f, touched), NEW i
  PROVE  LET events == {f[j] : j \in touched}
         IN  /\ i \in touched => About(events, i) = {f[i]}
             /\ i \notin touched => About(events, i) = {}
BY DEF About, OnePerStream

(* They are not about grants or the halt.                                  *)
LEMMA StreamEventsOnly ==
  ASSUME IInv, NEW events, \A e \in events : e.kind \in LifecycleKinds
  PROVE  FoldedGrants(grants, events) = grants /\ FoldedHalt(haltedAt, events) = haltedAt
<1>1. \A p : Granting(events, p) = {}
  BY DEF Granting, LifecycleKinds
<1>2. FoldedGrants(grants, events) = [p \in DOMAIN grants |-> grants[p]]
  BY <1>1 DEF FoldedGrants
<1>3. grants = [p \in DOMAIN grants |-> grants[p]]
  BY IInvParts DEF OthersTyped
<1>4. FoldedHalt(haltedAt, events) = haltedAt
  BY DEF FoldedHalt, LifecycleKinds
<1> QED
  BY <1>2, <1>3, <1>4

(* The one event there is.                                                 *)
LEMMA TheOnly ==
  ASSUME NEW e
  PROVE  (CHOOSE x \in {e} : TRUE) = e
OBVIOUS

(* A call that rewrites some records tells it when each of them is told.   *)
LEMMA RewritesTell ==
  ASSUME IInv, IInv', NEW touched, touched \subseteq Ids, NEW f,
         UNCHANGED <<nextId, grants, haltedAt>>,
         \A i \in touched : RecordTold(i, streams[i], streams'[i], f[i]),
         \A i \in Ids \ touched : streams'[i] = streams[i]
  PROVE  Tells({f[i] : i \in touched})
<1> DEFINE events == {f[i] : i \in touched}
<1>1. OnePerStream(f, touched) /\ \A i \in touched : f[i].kind # "stream_created"
  BY DEF OnePerStream, RecordTold, RecordKinds
<1>2. /\ \A i \in touched : About(events, i) = {f[i]}
      /\ \A i : i \notin touched => About(events, i) = {}
  BY <1>1, AboutTouched
<1>3. \A e \in events : e.kind \in LifecycleKinds /\ e.kind # "stream_created"
  BY <1>1 DEF OnePerStream
<1>4. \A e \in events : \E i \in touched : e = f[i] /\ e.stream_id = i
  BY <1>1 DEF OnePerStream
<1>5. /\ Ids' = Ids
      /\ streams \in [Ids -> Stream] /\ streams' \in [Ids -> Stream]
  BY IInvParts DEF IInv, TypeOK, Ids
<1> HIDE DEF events
<1>6. streams' = FoldedStreams(streams, events)
  <2>1. {e \in events : e.kind = "stream_created"} = {}
    BY <1>3
  <2>2. DOMAIN streams \cup {e.stream_id : e \in {}} = Ids
    BY <1>5
  <2>3. FoldedStreams(streams, events) =
          [i \in Ids |-> IF About(events, i) = {} THEN streams[i]
                         ELSE LET e == CHOOSE e \in About(events, i) : TRUE
                              IN  IF e.kind = "stream_created" THEN Opened(e)
                                  ELSE Folded(streams[i], e)]
    BY <2>1, <2>2, Zenon DEF FoldedStreams
  <2>4. ASSUME NEW i \in Ids
        PROVE  streams'[i] = FoldedStreams(streams, events)[i]
    <3>1. CASE i \in touched
      <4>1. About(events, i) # {} /\ (CHOOSE e \in About(events, i) : TRUE) = f[i]
        BY <1>2, <3>1, TheOnly
      <4>2. FoldedStreams(streams, events)[i] = Folded(streams[i], f[i])
        BY <1>1, <2>3, <3>1, <4>1
      <4> QED
        BY <3>1, <4>2 DEF RecordTold
    <3>2. CASE i \notin touched
      BY <1>2, <2>3, <3>2
    <3> QED
      BY <3>1, <3>2
  <2>5. streams' = [i \in Ids |-> FoldedStreams(streams, events)[i]]
    BY <1>5, <2>4
  <2>6. FoldedStreams(streams, events) = [i \in Ids |-> FoldedStreams(streams, events)[i]]
    BY <2>3, Zenon
  <2> QED
    BY <2>5, <2>6
<1>7. FoldedGrants(grants, events) = grants /\ FoldedHalt(haltedAt, events) = haltedAt
  BY <1>3, StreamEventsOnly
<1>8. Opening(events)
  BY <1>3 DEF Opening
<1>9. PartiesTold(events)
  BY <1>4 DEF PartiesTold, RecordTold
<1>10. MoneyTold(events)
  <2>1. ASSUME NEW i \in Ids
        PROVE  /\ streams'[i].token = streams[i].token
               /\ Liability(streams'[i]) - Liability(streams[i]) =
                    IF About(events, i) = {} THEN 0
                    ELSE Moved(CHOOSE e \in About(events, i) : TRUE)
    <3>1. CASE i \in touched
      <4>1. About(events, i) # {} /\ (CHOOSE e \in About(events, i) : TRUE) = f[i]
        BY <1>2, <3>1, TheOnly
      <4> QED
        BY <3>1, <4>1 DEF RecordTold
    <3>2. CASE i \notin touched
      <4>1. Liability(streams[i]) \in Int
        BY StreamParties DEF Liability
      <4> QED
        BY <1>2, <3>2, <4>1
    <3> QED
      BY <3>1, <3>2
  <2>2. \A e \in events :
          e.kind = "cancelled" => e.refunded + e.vested = streams[e.stream_id].deposited
    BY <1>4 DEF RecordTold
  <2> QED
    BY <1>5, <2>1, <2>2 DEF MoneyTold, WasOwed
<1> QED
  BY <1>6, <1>7, <1>8, <1>9, <1>10 DEF Tells, events

(* A new record is the one its event announces, and owes the deposit.      *)
LEMMA NewStreamTold ==
  ASSUME NEW i, NEW req \in CreateRequest
  PROVE  LET u == NewStream(req)
             e == StreamCreated(i, u)
         IN  /\ e.kind = "stream_created" /\ e.stream_id = i
             /\ Opened(e) = u
             /\ Liability(u) = req.deposit /\ Moved(e) = Liability(u)
             /\ {u.sender, u.recipient} \subseteq Named(e)
<1> DEFINE u == NewStream(req)
           e == StreamCreated(i, u)
<1>1. /\ e.kind = "stream_created" /\ e.stream_id = i
      /\ e.sender = u.sender /\ e.recipient = u.recipient /\ e.deposited = u.deposited
      /\ {"sender", "recipient"} \subseteq DOMAIN e
  BY DEF StreamCreated
<1>2. Opened(e) = u
  BY DEF StreamCreated, Opened, NewStream
<1>3. u.deposited = req.deposit /\ u.withdrawn = 0 /\ req.deposit \in Int
  BY DEF NewStream, CreateRequest
<1> HIDE DEF u, e
<1>4. Liability(u) = req.deposit
  BY <1>3 DEF Liability
<1>5. Moved(e) = req.deposit
  BY <1>1, <1>3 DEF Moved
<1>6. {u.sender, u.recipient} \subseteq Named(e)
  BY <1>1, NamedField
<1> QED
  BY <1>1, <1>2, <1>4, <1>5, <1>6 DEF u, e

(* A creation, of one stream or of a batch.                                *)
LEMMA CreateStreamsTell ==
  ASSUME IInv, IInv', NEW reqs, RequestList(reqs), CreateStreams(reqs)
  PROVE  Tells({StreamCreated(i, streams'[i]) : i \in nextId .. nextId' - 1})
<1> DEFINE m == Len(reqs)
           fresh == nextId .. nextId' - 1
           f == [i \in fresh |-> StreamCreated(i, streams'[i])]
           events == {f[i] : i \in fresh}
<1>1. /\ nextId' = nextId + m
      /\ streams' = [i \in 0 .. nextId + m - 1 |->
                       IF i < nextId THEN streams[i]
                       ELSE NewStream(reqs[i - nextId + 1])]
      /\ UNCHANGED <<grants, haltedAt>>
  BY DEF CreateStreams, Enrol, halting
<1>2. /\ nextId \in Nat /\ m \in Nat /\ streams \in [Ids -> Stream]
      /\ nextId' \in Nat /\ streams' \in [Ids' -> Stream]
      /\ Ids = 0 .. nextId - 1 /\ Ids' = 0 .. nextId' - 1
  BY IInvParts DEF RequestList, IInv, TypeOK, Ids
<1>3. \A k \in 1 .. m : reqs[k] \in CreateRequest
  BY ConstantsAssumption DEF RequestList
<1> HIDE DEF m, f
<1>4. /\ \A i \in Ids : i \in Ids' /\ i \notin fresh /\ streams'[i] = streams[i]
      /\ \A i \in Ids' : i \in Ids \/ i \in fresh
      /\ \A i \in fresh : i \in Ids' /\ i \notin Ids
  BY <1>1, <1>2
<1>5. ASSUME NEW i \in fresh
      PROVE  \E req \in CreateRequest : streams'[i] = NewStream(req)
  <2>1. i - nextId + 1 \in 1 .. m /\ ~ (i < nextId) /\ i \in 0 .. nextId + m - 1
    BY <1>1, <1>2
  <2> QED
    BY <1>1, <1>3, <2>1
<1>6. ASSUME NEW i \in fresh
      PROVE  /\ f[i].kind = "stream_created" /\ f[i].stream_id = i
             /\ Opened(f[i]) = streams'[i]
             /\ Liability(streams'[i]) \in Int /\ Moved(f[i]) = Liability(streams'[i])
             /\ {streams'[i].sender, streams'[i].recipient} \subseteq Named(f[i])
  <2>1. f[i] = StreamCreated(i, streams'[i])
    BY DEF f
  <2>2. PICK req \in CreateRequest : streams'[i] = NewStream(req)
    BY <1>5
  <2>3. req.deposit \in Int
    BY DEF CreateRequest
  <2> QED
    BY <2>1, <2>2, <2>3, NewStreamTold
<1> HIDE DEF fresh
<1>7. OnePerStream(f, fresh)
  BY <1>6 DEF OnePerStream, LifecycleKinds
<1>8. /\ \A i \in fresh : About(events, i) = {f[i]}
      /\ \A i : i \notin fresh => About(events, i) = {}
  BY <1>7, AboutTouched
<1>9. \A e \in events : \E i \in fresh : e = f[i] /\ e.stream_id = i
  BY <1>6
<1>10. /\ \A e \in events : e.kind = "stream_created" /\ e.kind \in LifecycleKinds
       /\ {e.stream_id : e \in events} = fresh
  BY <1>6 DEF LifecycleKinds
<1> HIDE DEF events
<1>11. streams' = FoldedStreams(streams, events)
  <2>1. {e \in events : e.kind = "stream_created"} = events
    BY <1>10
  <2>2. DOMAIN streams \cup {e.stream_id : e \in events} = Ids'
    BY <1>2, <1>4, <1>10
  <2>3. FoldedStreams(streams, events) =
          [i \in Ids' |-> IF About(events, i) = {} THEN streams[i]
                          ELSE LET e == CHOOSE e \in About(events, i) : TRUE
                               IN  IF e.kind = "stream_created" THEN Opened(e)
                                   ELSE Folded(streams[i], e)]
    BY <2>1, <2>2, Zenon DEF FoldedStreams
  <2>4. ASSUME NEW i \in Ids'
        PROVE  streams'[i] = FoldedStreams(streams, events)[i]
    <3>1. CASE i \in fresh
      <4>1. About(events, i) # {} /\ (CHOOSE e \in About(events, i) : TRUE) = f[i]
        BY <1>8, <3>1, TheOnly
      <4>2. FoldedStreams(streams, events)[i] = Opened(f[i])
        BY <1>6, <2>3, <3>1, <4>1
      <4> QED
        BY <1>6, <3>1, <4>2
    <3>2. CASE i \notin fresh
      BY <1>4, <1>8, <2>3, <3>2
    <3> QED
      BY <3>1, <3>2
  <2>5. streams' = [i \in Ids' |-> FoldedStreams(streams, events)[i]]
    BY <1>2, <2>4
  <2>6. FoldedStreams(streams, events) = [i \in Ids' |-> FoldedStreams(streams, events)[i]]
    BY <2>3, Zenon
  <2> QED
    BY <2>5, <2>6
<1>12. grants' = FoldedGrants(grants, events) /\ haltedAt' = FoldedHalt(haltedAt, events)
  BY <1>1, <1>10, StreamEventsOnly
<1>13. Opening(events)
  BY <1>8, <1>9 DEF Opening
<1>14. PartiesTold(events)
  BY <1>4, <1>6, <1>9 DEF PartiesTold
<1>15. MoneyTold(events)
  <2>1. ASSUME NEW i \in Ids'
        PROVE  /\ i \in Ids => streams'[i].token = streams[i].token
               /\ Liability(streams'[i]) - WasOwed(i) =
                    IF About(events, i) = {} THEN 0
                    ELSE Moved(CHOOSE e \in About(events, i) : TRUE)
    <3>1. CASE i \in fresh
      <4>1. About(events, i) # {} /\ (CHOOSE e \in About(events, i) : TRUE) = f[i]
        BY <1>8, <3>1, TheOnly
      <4>2. WasOwed(i) = 0 /\ i \notin Ids
        BY <1>4, <3>1 DEF WasOwed
      <4>3. Liability(streams'[i]) \in Int /\ Moved(f[i]) = Liability(streams'[i])
        BY <1>6, <3>1
      <4>4. Liability(streams'[i]) - WasOwed(i) = Liability(streams'[i])
        BY <4>2, <4>3
      <4>5. Moved(CHOOSE e \in About(events, i) : TRUE) = Moved(f[i])
        BY <4>1
      <4> QED
        BY <4>1, <4>2, <4>3, <4>4, <4>5
    <3>2. CASE i \notin fresh
      <4>1. /\ i \in Ids /\ streams'[i] = streams[i] /\ About(events, i) = {}
            /\ Liability(streams[i]) \in Int
        BY <1>4, <1>8, <3>2, StreamParties DEF Liability
      <4> QED
        BY <4>1 DEF WasOwed
    <3> QED
      BY <3>1, <3>2
  <2> QED
    BY <1>10, <2>1 DEF MoneyTold
<1>16. events = {StreamCreated(i, streams'[i]) : i \in nextId .. nextId' - 1}
  BY DEF events, f, fresh
<1>17. Tells(events)
  BY <1>11, <1>12, <1>13, <1>14, <1>15 DEF Tells
<1> QED
  BY <1>16, <1>17

-----------------------------------------------------------------------------
(* Every call.                                                             *)

(* One record rewritten.                                                   *)
LEMMA WriteTells ==
  ASSUME IInv, IInv', NEW i \in Ids, NEW u, NEW e, Write(i, u),
         UNCHANGED <<nextId, grants, haltedAt>>, RecordTold(i, streams[i], u, e)
  PROVE  Tells({e})
<1> DEFINE f == [j \in {i} |-> e]
           touched == {i}
<1>1. streams' = [streams EXCEPT ![i] = u] /\ streams \in [Ids -> Stream]
  BY IInvParts DEF Write
<1>2. \A j \in touched : RecordTold(j, streams[j], streams'[j], f[j])
  BY <1>1
<1>3. \A j \in Ids \ touched : streams'[j] = streams[j]
  BY <1>1
<1>4. {f[j] : j \in touched} = {e}
  OBVIOUS
<1>5. touched \subseteq Ids
  OBVIOUS
<1> HIDE DEF f, touched
<1>6. Tells({f[j] : j \in touched})
  BY <1>2, <1>3, <1>5, RewritesTell, Zenon
<1> QED
  BY <1>4, <1>6

(* No record touched: what is published is not about any.                  *)
LEMMA QuietTells ==
  ASSUME IInv, UNCHANGED <<streams, nextId>>, NEW events,
         \A e \in events : e.kind \notin LifecycleKinds,
         grants' = FoldedGrants(grants, events),
         haltedAt' = FoldedHalt(haltedAt, events)
  PROVE  Tells(events)
<1>1. {e \in events : e.kind = "stream_created"} = {}
  BY DEF LifecycleKinds
<1>2. \A i : About(events, i) = {}
  BY DEF About
<1>3. streams = [i \in DOMAIN streams |-> streams[i]]
  BY IInvParts
<1>4. DOMAIN streams \cup {e.stream_id : e \in {}} = DOMAIN streams
  OBVIOUS
<1>5. FoldedStreams(streams, events) = [i \in DOMAIN streams |-> streams[i]]
  BY <1>1, <1>2, <1>4, Zenon DEF FoldedStreams
<1>6. Opening(events) /\ PartiesTold(events)
  BY DEF Opening, PartiesTold, LifecycleKinds
<1>7. MoneyTold(events)
  <2>1. ASSUME NEW i \in Ids
        PROVE  Liability(streams[i]) - Liability(streams[i]) = 0
    <3>1. Liability(streams[i]) \in Int
      BY StreamParties DEF Liability
    <3> QED
      BY <3>1
  <2> QED
    BY <1>2, <2>1 DEF MoneyTold, WasOwed, Ids, LifecycleKinds
<1> QED
  BY <1>3, <1>5, <1>6, <1>7 DEF Tells

(* Nothing to tell, nothing published.                                     *)
LEMMA IdleTells ==
  ASSUME IInv, UNCHANGED <<streams, nextId, grants, haltedAt>>
  PROVE  Tells({})
<1>1. FoldedGrants(grants, {}) = grants /\ FoldedHalt(haltedAt, {}) = haltedAt
  BY StreamEventsOnly
<1> QED
  BY <1>1, QuietTells

(* The call at hand is told by what it publishes.                          *)
Told == \E events : Tells(events) /\ Publish(events)

LEMMA PayoutTold ==
  ASSUME IInv, IInv', NEW i \in Ids, Payout(i)
  PROVE  Told
<1>1. PICK payout \in 1 .. Withdrawable(streams[i], now) :
        /\ Withdraw(i, payout) \/ \E d \in Delegates : DelegateWithdraw(i, d, payout)
        /\ Publish({Withdrawn(i, streams'[i], payout)})
  BY DEF Payout
<1> DEFINE u == PaidOut(streams[i], payout, now)
<1>2. /\ Write(i, u) /\ UNCHANGED <<nextId, grants, haltedAt>>
  BY <1>1 DEF Withdraw, DelegateWithdraw, Withdrawal, halting
<1>3. payout \in Nat /\ now \in Nat /\ streams[i] \in Stream
  BY IInvParts, StreamParties, WithdrawableBounds
<1>4. streams'[i] = u
  BY <1>2, IInvParts DEF Write
<1>5. RecordTold(i, streams[i], u, Withdrawn(i, u, payout))
  BY <1>3, PaidTold
<1> HIDE DEF u
<1>6. Tells({Withdrawn(i, u, payout)})
  BY <1>2, <1>5, WriteTells
<1> QED
  BY <1>1, <1>4, <1>6 DEF Told

LEMMA CancellationsTold ==
  ASSUME IInv, IInv', NEW i \in Ids, Cancellations(i)
  PROVE  Told
<1> DEFINE u == Settled(streams[i], now)
           e == Cancelled(i, u, Refundable(streams[i], now))
<1>1. /\ Write(i, u) /\ UNCHANGED <<nextId, grants, haltedAt>>
      /\ Publish({Cancelled(i, streams'[i], Refundable(streams[i], now))})
  BY DEF Cancellations, Cancel, DelegateCancel, Cancellation, halting
<1>2. now \in Nat /\ streams[i] \in Stream
  BY IInvParts, StreamParties
<1>3. streams'[i] = u
  BY <1>1, IInvParts DEF Write
<1>4. RecordTold(i, streams[i], u, e)
  BY <1>2, CancelTold
<1>5. Publish({e})
  BY <1>1, <1>3
<1> HIDE DEF u, e
<1>6. Tells({e})
  BY <1>1, <1>4, WriteTells
<1> QED
  BY <1>5, <1>6 DEF Told

LEMMA ExtensionTold ==
  ASSUME IInv, IInv', NEW i \in Ids, Extension(i)
  PROVE  Told
<1>1. PICK amount \in TopUpAmounts :
        /\ TopUp(i, amount) \/ \E d \in Delegates : DelegateTopUp(i, d, amount)
        /\ Publish({ToppedUp(i, streams'[i], amount)})
  BY DEF Extension
<1>2. amount > 0 /\ ~ Terminal(streams[i]) /\ amount \in Nat
  BY <1>1, ConstantsAssumption DEF TopUp, DelegateTopUp
<1>3. now \in Nat /\ streams[i] \in Stream /\ Sound(streams[i], now)
  BY IInvParts, StreamParties
<1>4. PICK delta \in Nat :
        /\ Write(i, Extended(streams[i], amount, delta))
        /\ UNCHANGED <<nextId, grants, haltedAt>>
  BY <1>1, <1>2, <1>3, RateDeltaType DEF TopUp, DelegateTopUp, halting
<1> DEFINE u == Extended(streams[i], amount, delta)
           e == ToppedUp(i, u, amount)
<1>5. streams'[i] = u
  BY <1>4, IInvParts DEF Write
<1>6. RecordTold(i, streams[i], u, e)
  BY <1>2, <1>3, ToppedUpTold
<1>7. Publish({e}) /\ Write(i, u)
  BY <1>1, <1>4, <1>5
<1> HIDE DEF u, e
<1>8. Tells({e})
  BY <1>4, <1>6, <1>7, WriteTells
<1> QED
  BY <1>7, <1>8 DEF Told

LEMMA PausingTold ==
  ASSUME IInv, IInv', NEW i \in Ids, Pausing(i)
  PROVE  Told
<1> DEFINE u == Paused(streams[i], now)
           e == PausedEvent(i, u)
<1>1. /\ Write(i, u) /\ UNCHANGED <<nextId, grants, haltedAt>>
      /\ Publish({PausedEvent(i, streams'[i])})
  BY DEF Pausing, Pause, DelegatePause, halting
<1>2. now \in Nat /\ streams[i] \in Stream
  BY IInvParts, StreamParties
<1>3. Publish({e})
  BY <1>1, IInvParts DEF Write
<1>4. RecordTold(i, streams[i], u, e)
  BY <1>2, PausedTold
<1> HIDE DEF u, e
<1>5. Tells({e})
  BY <1>1, <1>4, WriteTells
<1> QED
  BY <1>3, <1>5 DEF Told

LEMMA ResumingTold ==
  ASSUME IInv, IInv', NEW i \in Ids, Resuming(i)
  PROVE  Told
<1> DEFINE u == Resumed(streams[i], now)
           e == ResumedEvent(i, u, SatSub(now, streams[i].paused_at))
<1>1. /\ Write(i, u) /\ UNCHANGED <<nextId, grants, haltedAt>>
      /\ Publish({ResumedEvent(i, streams'[i], SatSub(now, streams[i].paused_at))})
  BY DEF Resuming, Resume, DelegateResume, halting
<1>2. now \in Nat /\ streams[i] \in Stream
  BY IInvParts, StreamParties
<1>3. Publish({e})
  BY <1>1, IInvParts DEF Write
<1>4. RecordTold(i, streams[i], u, e)
  BY <1>2, ResumedTold
<1> HIDE DEF u, e
<1>5. Tells({e})
  BY <1>1, <1>4, WriteTells
<1> QED
  BY <1>3, <1>5 DEF Told

LEMMA ReassignmentTold ==
  ASSUME IInv, IInv', NEW i \in Ids, Reassignment(i)
  PROVE  Told
<1>1. PICK to \in Accounts :
        /\ TransferRecipient(i, to) \/ \E d \in Delegates : DelegateTransferRecipient(i, d, to)
        /\ Publish({RecipientTransferred(i, streams'[i], streams[i].recipient)})
  BY DEF Reassignment
<1> DEFINE u == [streams[i] EXCEPT !.recipient = to]
           e == RecipientTransferred(i, u, streams[i].recipient)
<1>2. Write(i, u) /\ UNCHANGED <<nextId, grants, haltedAt>>
  BY <1>1 DEF TransferRecipient, DelegateTransferRecipient, halting
<1>3. streams[i] \in Stream
  BY StreamParties
<1>4. Publish({e})
  BY <1>1, <1>2, IInvParts DEF Write
<1>5. RecordTold(i, streams[i], u, e)
  BY <1>3, TransferTold
<1> HIDE DEF u, e
<1>6. Tells({e})
  BY <1>2, <1>5, WriteTells
<1> QED
  BY <1>4, <1>6 DEF Told

(* What a settled stream's sender reclaims is nothing, and nothing is told. *)
LEMMA ReclaimingTold ==
  ASSUME IInv, NEW i \in Ids, Reclaiming(i)
  PROVE  Told
<1> DEFINE s == streams[i]
           u == [s EXCEPT !.deposited = @ - Dust(s)]
<1>1. /\ Terminal(s) /\ Write(i, u)
      /\ UNCHANGED <<nextId, grants, haltedAt, indexer>>
  BY DEF Reclaiming, ReclaimDust, PublishNothing, halting
<1>2. Dust(s) = 0
  BY <1>1, IInvParts, SettledHasNoDust DEF Dust
<1>3. u = s
  BY <1>2, StreamParties, NothingTaken
<1> HIDE DEF u
<1>4. streams' = streams
  BY <1>1, <1>3, IInvParts DEF Write
<1>5. Tells({})
  BY <1>1, <1>4, IdleTells
<1> QED
  BY <1>1, <1>5 DEF Told, Publish, PublishNothing

(* The ids of a batch.                                                     *)
LEMMA BatchMembers ==
  ASSUME NEW ids \in Batches(Ids)
  PROVE  /\ {ids[k] : k \in DOMAIN ids} \subseteq Ids
         /\ DOMAIN ids = 1 .. Len(ids)
BY BatchOfIds DEF IdList

LEMMA BatchPayoutTold ==
  ASSUME IInv, IInv', NEW a \in Accounts, NEW ids \in Batches(Ids), BatchPayout(a, ids)
  PROVE  Told
<1> DEFINE available == [k \in 1 .. Len(ids) |-> Withdrawable(streams[ids[k]], now)]
           paid == {i \in {ids[k] : k \in DOMAIN ids} : Withdrawable(streams[i], now) > 0}
           f == [i \in paid |-> Withdrawn(i, streams'[i], Withdrawable(streams[i], now))]
<1>1. /\ streams' = [i \in Ids |->
                       IF i \in {ids[k] : k \in {j \in DOMAIN ids : available[j] > 0}}
                       THEN PaidOut(streams[i], Withdrawable(streams[i], now), now)
                       ELSE streams[i]]
      /\ UNCHANGED <<nextId, grants, haltedAt>>
  BY DEF BatchPayout, BatchWithdraw, halting
<1>2. {ids[k] : k \in {j \in DOMAIN ids : available[j] > 0}} = paid
  BY BatchMembers
<1>3. Publish({Withdrawn(i, streams'[i], Withdrawable(streams[i], now)) : i \in paid})
  BY DEF BatchPayout
<1>4. paid \subseteq Ids
  BY BatchMembers
<1>5. {f[i] : i \in paid} = {Withdrawn(i, streams'[i], Withdrawable(streams[i], now)) : i \in paid}
  OBVIOUS
<1>6. ASSUME NEW i \in paid
      PROVE  RecordTold(i, streams[i], streams'[i], f[i])
  <2>1. Withdrawable(streams[i], now) \in Nat
    BY <1>4, StreamParties DEF Withdrawable, Greatest
  <2>2. now \in Nat /\ streams[i] \in Stream
    BY <1>4, IInvParts, StreamParties
  <2>3. streams'[i] = PaidOut(streams[i], Withdrawable(streams[i], now), now)
    BY <1>1, <1>2, <1>4
  <2>4. f[i] = Withdrawn(i, streams'[i], Withdrawable(streams[i], now))
    OBVIOUS
  <2> QED
    BY <2>1, <2>2, <2>3, <2>4, PaidTold
<1>7. \A i \in Ids \ paid : streams'[i] = streams[i]
  BY <1>1, <1>2
<1>8. UNCHANGED <<nextId, grants, haltedAt>>
  BY <1>1
<1> HIDE DEF f, paid
<1>9. Tells({f[i] : i \in paid})
  BY <1>4, <1>6, <1>7, <1>8, RewritesTell, Zenon
<1> QED
  BY <1>3, <1>5, <1>9 DEF Told

LEMMA BatchCancellationTold ==
  ASSUME IInv, IInv', NEW a \in Accounts, NEW ids \in Batches(Ids), BatchCancellation(a, ids)
  PROVE  Told
<1> DEFINE settled == {ids[k] : k \in DOMAIN ids}
           f == [i \in settled |-> Cancelled(i, streams'[i], Refundable(streams[i], now))]
<1>1. /\ streams' = [i \in Ids |->
                       IF i \in settled THEN Settled(streams[i], now) ELSE streams[i]]
      /\ UNCHANGED <<nextId, grants, haltedAt>>
  BY DEF BatchCancellation, BatchCancel, halting
<1>2. Publish({Cancelled(i, streams'[i], Refundable(streams[i], now)) : i \in settled})
  BY DEF BatchCancellation
<1>3. settled \subseteq Ids
  BY BatchMembers
<1>4. {f[i] : i \in settled} = {Cancelled(i, streams'[i], Refundable(streams[i], now)) : i \in settled}
  OBVIOUS
<1>5. ASSUME NEW i \in settled
      PROVE  RecordTold(i, streams[i], streams'[i], f[i])
  <2>1. now \in Nat /\ streams[i] \in Stream
    BY <1>3, IInvParts, StreamParties
  <2>2. streams'[i] = Settled(streams[i], now)
    BY <1>1, <1>3
  <2>3. f[i] = Cancelled(i, streams'[i], Refundable(streams[i], now))
    OBVIOUS
  <2> QED
    BY <2>1, <2>2, <2>3, CancelTold
<1>6. \A i \in Ids \ settled : streams'[i] = streams[i]
  BY <1>1
<1> HIDE DEF f, settled
<1>7. Tells({f[i] : i \in settled})
  BY <1>1, <1>3, <1>5, <1>6, RewritesTell, Zenon
<1> QED
  BY <1>2, <1>4, <1>7 DEF Told

(* e makes v the grant of i to d.                                          *)
Grants(e, i, d, v) ==
  /\ e.stream_id = i /\ e.delegate = d
  /\ \/ e.kind = "delegate_granted" /\ v = [ops |-> e.ops, expires_at |-> e.expires_at]
     \/ e.kind = "delegate_revoked" /\ v = NoGrant

Granted(i, d, v) == [grants EXCEPT ![<<i, d>>] = v]

(* The fold of one event about one grant.                                  *)
LEMMA OneGranting ==
  ASSUME IInv, NEW i, NEW d, NEW e, NEW v, Grants(e, i, d, v)
  PROVE  FoldedGrants(grants, {e}) = Granted(i, d, v)
<1> USE DEF Grants, Granted
<1>1. /\ Granting({e}, <<i, d>>) = {e}
      /\ \A p : p # <<i, d>> => Granting({e}, p) = {}
  BY DEF Granting
<1>2. (CHOOSE x \in Granting({e}, <<i, d>>) : TRUE) = e
  BY <1>1, TheOnly
<1>3. ASSUME NEW p \in DOMAIN grants
      PROVE  FoldedGrants(grants, {e})[p] = [grants EXCEPT ![<<i, d>>] = v][p]
  <2>1. CASE p = <<i, d>>
    BY <1>1, <1>2, <2>1 DEF FoldedGrants
  <2>2. CASE p # <<i, d>>
    BY <1>1, <2>2 DEF FoldedGrants
  <2> QED
    BY <2>1, <2>2
<1>4. DOMAIN FoldedGrants(grants, {e}) = DOMAIN grants
  BY DEF FoldedGrants
<1>5. FoldedGrants(grants, {e}) = [p \in DOMAIN grants |-> FoldedGrants(grants, {e})[p]]
  BY <1>4 DEF FoldedGrants
<1>6. [grants EXCEPT ![<<i, d>>] = v] =
        [p \in DOMAIN grants |-> [grants EXCEPT ![<<i, d>>] = v][p]]
  OBVIOUS
<1> QED
  BY <1>3, <1>5, <1>6

LEMMA DelegatingTold ==
  ASSUME IInv, NEW i \in Ids, NEW d \in Delegates, Delegating(i, d)
  PROVE  Told
<1> DEFINE Says(e, v) ==
             /\ Publish({e})
             /\ grants' = Granted(i, d, v)
             /\ UNCHANGED <<streams, nextId, haltedAt>>
             /\ Grants(e, i, d, v)
<1>1. PICK e, v : Says(e, v)
  <2>1. ASSUME NEW ops \in GrantOps, NEW expires_at \in Expiries,
               GrantDelegate(i, d, ops, expires_at),
               NEW grantor \in signers', Publish({DelegateGranted(i, grantor, d, ops, expires_at)})
        PROVE  \E e, v : Says(e, v)
    <3> DEFINE e == DelegateGranted(i, grantor, d, ops, expires_at)
               v == [ops |-> ops, expires_at |-> expires_at]
    <3>1. /\ e.kind = "delegate_granted" /\ e.stream_id = i /\ e.delegate = d
          /\ v = [ops |-> e.ops, expires_at |-> e.expires_at]
      BY DEF DelegateGranted
    <3>2. /\ Publish({e}) /\ grants' = Granted(i, d, v)
          /\ UNCHANGED <<streams, nextId, haltedAt>>
      BY <2>1 DEF GrantDelegate, Granted, halting
    <3> HIDE DEF e, v
    <3> QED
      BY <3>1, <3>2 DEF Grants
  <2>2. ASSUME NEW grantor \in Accounts, RevokeDelegate(i, grantor, d),
               Publish({DelegateRevoked(i, grantor, d)})
        PROVE  \E e, v : Says(e, v)
    <3> DEFINE e == DelegateRevoked(i, grantor, d)
    <3>1. e.kind = "delegate_revoked" /\ e.stream_id = i /\ e.delegate = d
      BY DEF DelegateRevoked
    <3>2. /\ Publish({e}) /\ grants' = Granted(i, d, NoGrant)
          /\ UNCHANGED <<streams, nextId, haltedAt>>
      BY <2>2 DEF RevokeDelegate, Granted, halting
    <3> HIDE DEF e
    <3> QED
      BY <3>1, <3>2 DEF Grants
  <2> QED
    BY <2>1, <2>2 DEF Delegating
<1>2. grants' = FoldedGrants(grants, {e})
  <2>1. Grants(e, i, d, v)
    BY <1>1
  <2>2. FoldedGrants(grants, {e}) = Granted(i, d, v)
    BY <2>1, OneGranting
  <2> QED
    BY <1>1, <2>2
<1>3. FoldedHalt(haltedAt, {e}) = haltedAt
  BY <1>1 DEF FoldedHalt, Grants
<1>4. \A x \in {e} : x.kind \notin LifecycleKinds
  BY <1>1 DEF LifecycleKinds, Grants
<1>5. Tells({e})
  BY <1>1, <1>2, <1>3, <1>4, QuietTells
<1> QED
  BY <1>1, <1>5 DEF Told

(* The fold of one event about the halt.                                   *)
LEMMA OneHalting ==
  ASSUME IInv, NEW e, e.kind \in {"halt_operator_set", "contract_halted", "contract_resumed"}
  PROVE  /\ FoldedGrants(grants, {e}) = grants
         /\ e.kind = "halt_operator_set" => FoldedHalt(haltedAt, {e}) = haltedAt
         /\ e.kind = "contract_halted" => FoldedHalt(haltedAt, {e}) = e.halted_at
         /\ e.kind = "contract_resumed" => FoldedHalt(haltedAt, {e}) = None
<1>1. \A p : Granting({e}, p) = {}
  BY DEF Granting
<1>2. FoldedGrants(grants, {e}) = [p \in DOMAIN grants |-> grants[p]]
  BY <1>1 DEF FoldedGrants
<1>3. grants = [p \in DOMAIN grants |-> grants[p]]
  BY IInvParts DEF OthersTyped
<1>4. ASSUME e.kind = "contract_halted"
      PROVE  FoldedHalt(haltedAt, {e}) = e.halted_at
  <2>1. (CHOOSE x \in {e} : x.kind = "contract_halted") = e
    BY <1>4
  <2> QED
    BY <1>4, <2>1 DEF FoldedHalt
<1>5. e.kind = "contract_resumed" => FoldedHalt(haltedAt, {e}) = None
  BY DEF FoldedHalt
<1>6. e.kind = "halt_operator_set" => FoldedHalt(haltedAt, {e}) = haltedAt
  BY DEF FoldedHalt
<1> QED
  BY <1>2, <1>3, <1>4, <1>5, <1>6

LEMMA HaltingTold ==
  ASSUME IInv, Halting
  PROVE  Told
<1> DEFINE Says(e) ==
             /\ Publish({e})
             /\ UNCHANGED <<streams, nextId, grants>>
             /\ \/ e.kind = "halt_operator_set" /\ haltedAt' = haltedAt
                \/ e.kind = "contract_halted" /\ haltedAt' = e.halted_at
                \/ e.kind = "contract_resumed" /\ haltedAt' = None
<1>1. PICK e : Says(e)
  <2>1. ASSUME NEW a \in HaltOperators, SetHaltOperator(a), Publish({HaltOperatorSet(a)})
        PROVE  \E e : Says(e)
    <3> DEFINE e == HaltOperatorSet(a)
    <3>1. e.kind = "halt_operator_set"
      BY DEF HaltOperatorSet
    <3>2. Publish({e}) /\ UNCHANGED <<streams, nextId, grants, haltedAt>>
      BY <2>1 DEF SetHaltOperator
    <3> HIDE DEF e
    <3> QED
      BY <3>1, <3>2
  <2>2. ASSUME NEW a \in operator, Halt, Publish({ContractHalted(a)})
        PROVE  \E e : Says(e)
    <3> DEFINE e == ContractHalted(a)
    <3>1. e.kind = "contract_halted" /\ e.halted_at = now
      BY DEF ContractHalted
    <3>2. Publish({e}) /\ haltedAt' = now /\ UNCHANGED <<streams, nextId, grants>>
      BY <2>2 DEF Halt
    <3> HIDE DEF e
    <3> QED
      BY <3>1, <3>2
  <2>3. ASSUME NEW a \in operator, ResumeContract, Publish({ContractResumed(a)})
        PROVE  \E e : Says(e)
    <3> DEFINE e == ContractResumed(a)
    <3>1. e.kind = "contract_resumed"
      BY DEF ContractResumed
    <3>2. Publish({e}) /\ haltedAt' = None /\ UNCHANGED <<streams, nextId, grants>>
      BY <2>3 DEF ResumeContract
    <3> HIDE DEF e
    <3> QED
      BY <3>1, <3>2
  <2> QED
    BY <2>1, <2>2, <2>3 DEF Halting
<1>2. e.kind \in {"halt_operator_set", "contract_halted", "contract_resumed"}
  BY <1>1
<1>3. grants' = FoldedGrants(grants, {e}) /\ haltedAt' = FoldedHalt(haltedAt, {e})
  BY <1>1, <1>2, OneHalting
<1>4. \A x \in {e} : x.kind \notin LifecycleKinds
  BY <1>2 DEF LifecycleKinds
<1>5. Tells({e})
  BY <1>1, <1>3, <1>4, QuietTells
<1> QED
  BY <1>1, <1>5 DEF Told

LEMMA EnvironmentTold ==
  ASSUME IInv, Environment
  PROVE  Told
<1>1. UNCHANGED <<streams, nextId, grants, haltedAt, indexer>>
  BY DEF Environment, Tick, Rebase, PublishNothing, halting
<1>2. Tells({})
  BY <1>1, IdleTells
<1> QED
  BY <1>1, <1>2 DEF Told, Publish, PublishNothing

LEMMA CreationTold ==
  ASSUME IInv, IInv', Creation
  PROVE  Told
<1>1. PICK reqs : RequestList(reqs) /\ CreateStreams(reqs)
  <2>1. ASSUME NEW req \in CreateRequests, CreateStreams(<<req>>)
        PROVE  \E reqs : RequestList(reqs) /\ CreateStreams(reqs)
    BY <2>1, OneRequest
  <2>2. ASSUME NEW reqs \in Batches(CreateRequests), CreateStreams(reqs)
        PROVE  RequestList(reqs)
    BY <2>2, BatchOfRequests
  <2> QED
    BY <2>1, <2>2
    DEF Creation, CreateStreamWithCliffMode, CreateStreamWithCurve, CreateStreamViaFactory,
        BatchCreate
<1>2. Tells({StreamCreated(i, streams'[i]) : i \in nextId .. nextId' - 1})
  BY <1>1, CreateStreamsTell
<1> QED
  BY <1>2 DEF Told, Creation

(* Any call, or the environment.                                           *)
Calls ==
  \/ Creation
  \/ \E i \in Ids :
       \/ Payout(i) \/ Cancellations(i) \/ Extension(i) \/ Pausing(i)
       \/ Resuming(i) \/ Reassignment(i) \/ Reclaiming(i)
       \/ \E d \in Delegates : Delegating(i, d)
  \/ \E a \in Accounts, ids \in Batches(Ids) :
       BatchPayout(a, ids) \/ BatchCancellation(a, ids)
  \/ Halting
  \/ Environment

LEMMA CallsTold ==
  ASSUME IInv, IInv', Calls
  PROVE  Told
BY CreationTold, PayoutTold, CancellationsTold, ExtensionTold, PausingTold, ResumingTold,
   ReassignmentTold, ReclaimingTold, DelegatingTold, BatchPayoutTold,
   BatchCancellationTold, HaltingTold, EnvironmentTold
DEF Calls

(* The calls are those of the contract.                                    *)
LEMMA CallsAreNext ==
  ASSUME Calls
  PROVE  Next
<1>1. CASE Creation
  BY <1>1 DEF Creation, Next
<1>2. ASSUME NEW i \in Ids,
             \/ Payout(i) \/ Cancellations(i) \/ Extension(i) \/ Pausing(i)
             \/ Resuming(i) \/ Reassignment(i) \/ Reclaiming(i)
      PROVE  StreamCall(i) \/ \E d \in Delegates : DelegateCall(i, d)
  BY <1>2
  DEF Payout, Cancellations, Extension, Pausing, Resuming, Reassignment, Reclaiming,
      StreamCall, DelegateCall
<1>3. ASSUME NEW i \in Ids, NEW d \in Delegates, Delegating(i, d)
      PROVE  DelegateCall(i, d)
  BY <1>3 DEF Delegating, DelegateCall
<1>4. ASSUME NEW a \in Accounts, NEW ids \in Batches(Ids),
             BatchPayout(a, ids) \/ BatchCancellation(a, ids)
      PROVE  BatchWithdraw(a, ids) \/ BatchCancel(a, ids)
  BY <1>4 DEF BatchPayout, BatchCancellation
<1>5. CASE Halting
  BY <1>5 DEF Halting, Next
<1>6. CASE Environment
  BY <1>6 DEF Environment, Next
<1> QED
  BY <1>1, <1>2, <1>3, <1>4, <1>5, <1>6 DEF Calls, Next

-----------------------------------------------------------------------------
(* What a step publishes.                                                  *)

JournalTyped == journal \in Seq({journal[k] : k \in DOMAIN journal})

LEMMA JournalIsList ==
  ASSUME JournalTyped
  PROVE  Len(journal) \in Nat /\ DOMAIN journal = 1 .. Len(journal)
BY DEF JournalTyped

LEMMA JournalGrows ==
  ASSUME JournalTyped, NEW events, journal' = Append(journal, events)
  PROVE  /\ Len(journal') = Len(journal) + 1
         /\ journal'[Len(journal')] = events
         /\ \A k \in 1 .. Len(journal) : journal'[k] = journal[k]
         /\ JournalTyped'
<1> DEFINE S == {journal[k] : k \in DOMAIN journal} \cup {events}
           T == {journal'[k] : k \in DOMAIN journal'}
<1>1. journal \in Seq(S) /\ events \in S
  BY DEF JournalTyped
<1> HIDE DEF S
<1>2. /\ journal' \in Seq(S) /\ Len(journal') = Len(journal) + 1
      /\ journal'[Len(journal')] = events
      /\ \A k \in 1 .. Len(journal) : journal'[k] = journal[k]
  BY <1>1
<1>3. PICK n \in Nat : journal' \in [1 .. n -> S]
  BY <1>2, LenProperties
<1>4. \A k \in 1 .. n : journal'[k] \in T
  BY <1>3
<1> HIDE DEF T
<1>5. journal' \in [1 .. n -> T]
  BY <1>3, <1>4
<1>6. journal' \in Seq(T)
  BY <1>3, <1>5, SeqDef
<1> QED
  BY <1>2, <1>6 DEF JournalTyped, T

(* What was published is seen in the journal.                              *)
LEMMA PublishedSeen ==
  ASSUME JournalTyped, NEW events, Publish(events)
  PROVE  /\ Published = events
         /\ JournalTyped'
         /\ mirror' = mirror
         /\ \/ journal' = journal /\ events = {}
            \/ journal' = Append(journal, events)
<1>1. CASE events = {}
  <2>1. journal' = journal /\ mirror' = mirror
    BY <1>1 DEF Publish, PublishNothing, indexer
  <2> QED
    BY <1>1, <2>1, JournalIsList DEF Published, JournalTyped
<1>2. CASE events # {}
  <2>1. journal' = Append(journal, events) /\ mirror' = mirror
    BY <1>2 DEF Publish
  <2> QED
    BY <2>1, JournalIsList, JournalGrows DEF Published
<1> QED
  BY <1>1, <1>2

(* A step in which the indexer reads, or nothing happens.                  *)
LEMMA SilentSteps ==
  ASSUME IInv, JournalTyped, ReadUnsaved \/ ReadSaved \/ UNCHANGED eventsVars
  PROVE  UNCHANGED vars /\ Published = {} /\ JournalTyped' /\ Tells(Published)
<1>1. UNCHANGED vars /\ (journal' = journal \/ journal' = <<>>)
  BY DEF ReadUnsaved, ReadSaved, eventsVars, indexer
<1>2. Published = {} /\ JournalTyped'
  <2>1. CASE journal' = journal
    BY <2>1, JournalIsList DEF Published, JournalTyped
  <2>2. CASE journal' = <<>>
    BY <2>2, JournalIsList DEF Published, JournalTyped
  <2> QED
    BY <1>1, <2>1, <2>2
<1>3. Tells({})
  BY <1>1, IdleTells DEF vars
<1> QED
  BY <1>1, <1>2, <1>3

LEMMA StepsAreCalls ==
  ASSUME EventsNext
  PROVE  Calls \/ ReadUnsaved \/ ReadSaved
BY DEF EventsNext, Calls

(* A step of the two together is one of the contract, and is told.         *)
LEMMA StepTold ==
  ASSUME IInv, JournalTyped, [EventsNext]_eventsVars
  PROVE  [Next]_vars /\ IInv' /\ JournalTyped' /\ Tells(Published)
<1>1. CASE Calls
  <2>1. Next
    BY <1>1, CallsAreNext
  <2>2. IInv'
    BY <2>1, NextIInv
  <2>3. Told
    BY <1>1, <2>2, CallsTold
  <2>4. PICK events : Tells(events) /\ Publish(events)
    BY <2>3 DEF Told
  <2>5. Published = events /\ JournalTyped'
    BY <2>4, PublishedSeen
  <2> QED
    BY <2>1, <2>2, <2>4, <2>5
<1>2. CASE ReadUnsaved \/ ReadSaved \/ UNCHANGED eventsVars
  <2>1. UNCHANGED vars /\ JournalTyped' /\ Tells(Published)
    BY <1>2, SilentSteps
  <2> QED
    BY <2>1, NextIInv
<1> QED
  BY <1>1, <1>2, StepsAreCalls

LEMMA EventsInitTyped ==
  ASSUME EventsInit
  PROVE  PInv /\ JournalTyped
<1>1. JournalTyped
  <2>1. journal = <<>>
    BY DEF EventsInit
  <2> QED
    BY <2>1 DEF JournalTyped
<1> QED
  BY <1>1, InitIInv, InitPool DEF EventsInit, PInv

(* The contract keeps its invariants, watched or not.                      *)
LEMMA EventsInvariance == EventsSpec => [](PInv /\ JournalTyped)
<1>1. EventsInit => PInv /\ JournalTyped
  BY EventsInitTyped
<1>2. PInv /\ JournalTyped /\ [EventsNext]_eventsVars => (PInv /\ JournalTyped)'
  BY StepTold, NextPool DEF PInv
<1> QED
  BY <1>1, <1>2, PTL DEF EventsSpec

(* Publishing and reading change nothing the contract holds, and publish   *)
(* nothing it did not do: with its journal and its indexer hidden, the     *)
(* system is the contract of FluxoraStream.                                *)
THEOREM WatchedContractIsTheContract == EventsSpec => Spec
<1>1. EventsInit => Init
  BY DEF EventsInit
<1>2. [EventsNext]_eventsVars => [Next]_vars
  <2>1. Calls => Next
    BY CallsAreNext
  <2>2. ReadUnsaved \/ ReadSaved \/ UNCHANGED eventsVars => UNCHANGED vars
    BY DEF ReadUnsaved, ReadSaved, eventsVars
  <2> QED
    BY <2>1, <2>2, StepsAreCalls
<1> QED
  BY <1>1, <1>2, PTL DEF EventsSpec, Spec

(* So what holds of the contract holds of it when watched: in particular   *)
(* every change an event reports was authorized, by somebody who is not    *)
(* both parties at once, and no linear stream ever loses what it earned.   *)
THEOREM WatchedContractKeepsFaith ==
  EventsSpec => /\ EveryChangeIsAuthorized /\ []SenderIsNeverRecipient
                /\ OnlyDelegatedTopUpsReduce /\ LinearStreamsKeepPromise
BY WatchedContractIsTheContract, ChangesAreAuthorized, PartiesStayDistinct,
   ReductionsAreDelegated, LinearPromiseIsKept, PTL

(* "Every state change emits exactly one event": what a call publishes is  *)
(* all that is needed to follow what it did, for any streams and batches.  *)
THEOREM EventsTellEverything == EventsSpec => EventsTellAll
<1>1. PInv /\ JournalTyped /\ [EventsNext]_eventsVars => Stored' = Caught(Stored, Published)
  BY StepTold DEF PInv, Tells, Stored, Caught
<1> QED
  BY <1>1, EventsInvariance, PTL DEF EventsSpec, EventsTellAll

(* "Both parties, on every lifecycle event", and the party replaced.       *)
THEOREM PartiesAreNamed == EventsSpec => EventsNameBothParties
<1> DEFINE Step ==
      \A e \in Published :
        e.kind \in LifecycleKinds =>
          LET s == streams'[e.stream_id]
              named == {e[f] : f \in DOMAIN e \cap {"sender", "recipient", "old_recipient"}}
          IN  /\ {s.sender, s.recipient} \subseteq named
              /\ e.stream_id \in Ids => streams[e.stream_id].recipient \in named
<1>1. PInv /\ JournalTyped /\ [EventsNext]_eventsVars => Step
  BY StepTold DEF PInv, Tells, PartiesTold, Named
<1> HIDE DEF Step
<1> QED
  BY <1>1, EventsInvariance, PTL DEF EventsSpec, EventsNameBothParties, Step

-----------------------------------------------------------------------------
(* The money.                                                              *)

(* The first n of m entries are those of f, plus a difference.             *)
Differs(f, n, g, m, d) ==
  \A k \in 1 .. m : d[k] = g[k] - (IF k <= n THEN f[k] ELSE 0)

(* A sum of differences is the difference of the sums.                     *)
LEMMA SumToDifference ==
  ASSUME NEW n \in Nat, NEW m \in Nat, n <= m,
         NEW f, Summable(f, n), NEW g, Summable(g, m), NEW d, Differs(f, n, g, m, d)
  PROVE  SumTo(d, m) = SumTo(g, m) - SumTo(f, n)
<1>1. Summable(d, m)
  BY DEF Summable, Differs
<1>2. /\ SumTo(f, 0) = 0 /\ SumTo(g, 0) = 0 /\ SumTo(d, 0) = 0
      /\ \A k \in 1 .. n : SumTo(f, k) = SumTo(f, k - 1) + f[k]
      /\ \A k \in 1 .. m : SumTo(g, k) = SumTo(g, k - 1) + g[k]
      /\ \A k \in 1 .. m : SumTo(d, k) = SumTo(d, k - 1) + d[k]
      /\ \A k \in 0 .. n : SumTo(f, k) \in Int
      /\ \A k \in 0 .. m : SumTo(g, k) \in Int /\ SumTo(d, k) \in Int
  BY <1>1, SumToRecursion
<1> DEFINE upTo(k) == IF k <= n THEN k ELSE n
           S == {k \in Nat : k <= m => SumTo(d, k) = SumTo(g, k) - SumTo(f, upTo(k))}
<1>3. 0 \in S
  BY <1>2
<1>4. ASSUME NEW k \in Nat, k \in S
      PROVE  k + 1 \in S
  <2> SUFFICES ASSUME k + 1 <= m
               PROVE  SumTo(d, k + 1) = SumTo(g, k + 1) - SumTo(f, upTo(k + 1))
    OBVIOUS
  <2>1. /\ k + 1 \in 1 .. m /\ (k + 1) - 1 = k /\ k \in 0 .. m
        /\ SumTo(d, k) = SumTo(g, k) - SumTo(f, upTo(k))
    BY <1>4
  <2>2. /\ SumTo(d, k + 1) = SumTo(d, k) + d[k + 1]
        /\ SumTo(g, k + 1) = SumTo(g, k) + g[k + 1]
        /\ d[k + 1] = g[k + 1] - (IF k + 1 <= n THEN f[k + 1] ELSE 0)
        /\ g[k + 1] \in Int /\ SumTo(g, k) \in Int /\ SumTo(d, k) \in Int
    BY <1>2, <2>1 DEF Differs, Summable
  <2>3. CASE k + 1 <= n
    <3>1. /\ k + 1 \in 1 .. n /\ upTo(k) = k /\ upTo(k + 1) = k + 1 /\ k \in 0 .. n
      BY <2>3
    <3>2. /\ SumTo(f, k + 1) = SumTo(f, k) + f[k + 1]
          /\ SumTo(f, k) \in Int /\ f[k + 1] \in Int
      BY <1>2, <2>1, <3>1 DEF Summable
    <3> QED
      BY <2>1, <2>2, <2>3, <3>1, <3>2
  <2>4. CASE ~ (k + 1 <= n)
    <3>1. upTo(k + 1) = n /\ upTo(k) = n /\ SumTo(f, n) \in Int
      BY <1>2, <2>4
    <3> QED
      BY <2>1, <2>2, <2>4, <3>1
  <2> QED
    BY <2>3, <2>4
<1> HIDE DEF S
<1>5. Nat \subseteq S
  BY <1>3, <1>4, NatSetInduction
<1>6. m \in S
  BY <1>5
<1>7. upTo(m) = n
  OBVIOUS
<1> QED
  BY <1>6, <1>7 DEF S

(* What the events of a step say moved in the pool of t.                   *)
MovedIn(t) ==
  [k \in 1 .. nextId' |->
     IF streams'[k - 1].token = t /\ About(Published, k - 1) # {}
     THEN Moved(CHOOSE e \in About(Published, k - 1) : TRUE)
     ELSE 0]

LEMMA PoolMovesAsTold ==
  ASSUME PInv, PInv', nextId <= nextId', MoneyTold(Published), NEW t \in Tokens
  PROVE  pooled'[t] - pooled[t] = SumTo(MovedIn(t), nextId')
<1> DEFINE n == nextId
           m == nextId'
           f == OwedIn(streams, n, t)
           g == OwedIn(streams', m, t)
           d == MovedIn(t)
<1>1. /\ n \in Nat /\ streams \in [0 .. n - 1 -> Stream]
      /\ pooled[t] = SumTo(f, n)
  BY PInvParts DEF ClaimsOf
<1>2. /\ m \in Nat /\ streams' \in [0 .. m - 1 -> Stream]
      /\ pooled'[t] = SumTo(g, m)
  <2>1. /\ nextId' \in Nat /\ streams' \in [0 .. nextId' - 1 -> Stream]
    BY DEF PInv, IInv, TypeOK, Ids
  <2>2. pooled'[t] = Claims(t)'
    BY DEF PInv, PoolMatchesClaims
  <2>3. Claims(t)' = SumTo(g, m)
    BY DEF Claims, OwedIn
  <2> QED
    BY <2>1, <2>2, <2>3
<1>3. Summable(f, n) /\ Summable(g, m)
  BY <1>1, <1>2, OwedSummable
<1>4. ASSUME NEW k \in 1 .. m
      PROVE  d[k] = g[k] - (IF k <= n THEN f[k] ELSE 0)
  <2>1. k - 1 \in Ids' /\ (k <= n <=> k - 1 \in Ids)
    BY <1>1, <1>2 DEF Ids
  <2>2. /\ k <= n => streams'[k - 1].token = streams[k - 1].token
        /\ Liability(streams'[k - 1]) - WasOwed(k - 1) =
             IF About(Published, k - 1) = {} THEN 0
             ELSE Moved(CHOOSE e \in About(Published, k - 1) : TRUE)
    BY <2>1 DEF MoneyTold
  <2>3. g[k] = IF streams'[k - 1].token = t THEN Liability(streams'[k - 1]) ELSE 0
    BY DEF OwedIn
  <2>4. k <= n => f[k] = IF streams[k - 1].token = t THEN Liability(streams[k - 1]) ELSE 0
    BY <1>1, <1>2 DEF OwedIn
  <2>5. d[k] = IF streams'[k - 1].token = t /\ About(Published, k - 1) # {}
               THEN Moved(CHOOSE e \in About(Published, k - 1) : TRUE)
               ELSE 0
    BY DEF MovedIn
  <2>6. WasOwed(k - 1) = IF k <= n THEN Liability(streams[k - 1]) ELSE 0
    BY <2>1 DEF WasOwed
  <2> QED
    BY <2>2, <2>3, <2>4, <2>5, <2>6
<1> HIDE DEF f, g, d
<1>5. SumTo(d, m) = SumTo(g, m) - SumTo(f, n)
  BY <1>1, <1>2, <1>3, <1>4, SumToDifference DEF Differs
<1> QED
  BY <1>1, <1>2, <1>5 DEF d

(* "Amounts reconcile": the pool of every token moves by what the events   *)
(* say, and a cancellation divides the deposit between the parties.        *)
THEOREM EventsReconcile == EventsSpec => EventsBalance
<1>1. ASSUME PInv, JournalTyped, [EventsNext]_eventsVars
      PROVE  /\ \A t \in Tokens :
                  pooled'[t] - pooled[t] =
                    SumTo([k \in 1 .. nextId' |->
                             IF streams'[k - 1].token = t /\ About(Published, k - 1) # {}
                             THEN Moved(CHOOSE e \in About(Published, k - 1) : TRUE)
                             ELSE 0], nextId')
             /\ \A e \in Published :
                  e.kind = "cancelled" =>
                    e.refunded + e.vested = streams[e.stream_id].deposited
  <2>1. [Next]_vars /\ IInv' /\ MoneyTold(Published)
    BY <1>1, StepTold DEF PInv, Tells
  <2>2. PInv' /\ nextId <= nextId'
    BY <1>1, <2>1, NextPool, NextOK DEF PInv, StepOK, Evolves
  <2>3. \A t \in Tokens : pooled'[t] - pooled[t] = SumTo(MovedIn(t), nextId')
    BY <1>1, <2>1, <2>2, PoolMovesAsTold
  <2> QED
    BY <2>1, <2>3 DEF MovedIn, MoneyTold
<1> QED
  BY <1>1, EventsInvariance, PTL DEF EventsSpec, EventsBalance

-----------------------------------------------------------------------------
(* Reading.                                                                *)

(* g lists what an indexer holds that begins with m and reads J up to n.   *)
Readings(g, m, J, n) ==
  g = [k \in 0 .. n |-> IF k = 0 THEN m ELSE Caught(g[k - 1], J[k])]

LEMMA ReadingsExist ==
  ASSUME NEW m, NEW J, NEW n \in Nat
  PROVE  \E g : Readings(g, m, J, n)
<1> DEFINE S == {k \in Nat : \E g : Readings(g, m, J, k)}
<1>1. 0 \in S
  <2> DEFINE g == [k \in 0 .. 0 |-> m]
  <2>1. Readings(g, m, J, 0)
    BY DEF Readings
  <2> QED
    BY <2>1
<1>2. ASSUME NEW k \in Nat, k \in S
      PROVE  k + 1 \in S
  <2>1. PICK g : Readings(g, m, J, k)
    BY <1>2
  <2> DEFINE h == [j \in 0 .. k + 1 |-> IF j = k + 1 THEN Caught(g[k], J[k + 1]) ELSE g[j]]
  <2>2. ASSUME NEW j \in 0 .. k + 1
        PROVE  h[j] = IF j = 0 THEN m ELSE Caught(h[j - 1], J[j])
    <3>1. \A x \in 0 .. k : g[x] = IF x = 0 THEN m ELSE Caught(g[x - 1], J[x])
      BY <2>1, Zenon DEF Readings
    <3>2. CASE j = k + 1
      <4>1. h[j] = Caught(g[k], J[k + 1]) /\ h[j - 1] = g[k] /\ j # 0
        BY <3>2
      <4> QED
        BY <3>2, <4>1
    <3>3. CASE j \in 0 .. k
      <4>1. h[j] = g[j] /\ (j # 0 => h[j - 1] = g[j - 1])
        BY <3>3
      <4> QED
        BY <3>1, <3>3, <4>1
    <3> QED
      BY <3>2, <3>3
  <2>3. Readings(h, m, J, k + 1)
    <3>1. h = [j \in 0 .. k + 1 |-> h[j]]
      OBVIOUS
    <3> HIDE DEF h
    <3> QED
      BY <2>2, <3>1 DEF Readings
  <2> QED
    BY <2>3
<1> HIDE DEF S
<1>3. Nat \subseteq S
  BY <1>1, <1>2, NatSetInduction
<1> QED
  BY <1>3 DEF S

(* Each reading takes what the one before left.                            *)
LEMMA ReadingsStep ==
  ASSUME NEW g, NEW m, NEW J, NEW n \in Nat, Readings(g, m, J, n)
  PROVE  /\ g[0] = m
         /\ \A k \in 0 .. n - 1 : g[k + 1] = Caught(g[k], J[k + 1])
<1>1. \A k \in 0 .. n : g[k] = IF k = 0 THEN m ELSE Caught(g[k - 1], J[k])
  BY Zenon DEF Readings
<1>2. \A k \in 0 .. n - 1 : k + 1 \in 0 .. n /\ k + 1 # 0 /\ (k + 1) - 1 = k
  OBVIOUS
<1>3. 0 \in 0 .. n
  OBVIOUS
<1>4. ASSUME NEW k \in 0 .. n - 1
      PROVE  g[k + 1] = Caught(g[k], J[k + 1])
  BY <1>1, <1>2
<1> QED
  BY <1>1, <1>3, <1>4

(* The same calls, read from the same, leave the same.                     *)
LEMMA ReadingsAgree ==
  ASSUME NEW g, NEW m, NEW J, NEW n \in Nat, Readings(g, m, J, n),
         NEW h, NEW K, NEW N \in Nat, n <= N, Readings(h, m, K, N),
         \A k \in 1 .. n : J[k] = K[k]
  PROVE  g[n] = h[n]
<1> DEFINE S == {k \in Nat : k <= n => g[k] = h[k]}
<1>1. /\ g[0] = m /\ h[0] = m
      /\ \A k \in 0 .. n - 1 : g[k + 1] = Caught(g[k], J[k + 1])
      /\ \A k \in 0 .. N - 1 : h[k + 1] = Caught(h[k], K[k + 1])
  BY ReadingsStep
<1>2. 0 \in S
  BY <1>1
<1>3. ASSUME NEW k \in Nat, k \in S
      PROVE  k + 1 \in S
  <2>1. SUFFICES ASSUME k + 1 <= n
                 PROVE  g[k + 1] = h[k + 1]
    OBVIOUS
  <2>2. k \in 0 .. n - 1 /\ k \in 0 .. N - 1 /\ k + 1 \in 1 .. n /\ g[k] = h[k]
    BY <1>3, <2>1
  <2>3. J[k + 1] = K[k + 1]
    BY <2>2
  <2> QED
    BY <1>1, <2>2, <2>3
<1> HIDE DEF S
<1>4. Nat \subseteq S
  BY <1>2, <1>3, NatSetInduction
<1>5. n \in S
  BY <1>4
<1> QED
  BY <1>5 DEF S

(* CaughtUp is the last reading.                                           *)
LEMMA CaughtUpIsLast ==
  ASSUME NEW m, NEW calls, Len(calls) \in Nat,
         NEW h, NEW K, NEW N \in Nat, Len(calls) <= N, Readings(h, m, K, N),
         \A k \in 1 .. Len(calls) : calls[k] = K[k]
  PROVE  CaughtUp(m, calls) = h[Len(calls)]
<1> DEFINE n == Len(calls)
           upTo == CHOOSE g : Readings(g, m, calls, n)
<1>1. \E g : Readings(g, m, calls, n)
  BY ReadingsExist
<1>2. Readings(upTo, m, calls, n)
  BY <1>1, Zenon
<1>3. CaughtUp(m, calls) = upTo[n]
  BY DEF CaughtUp, Readings
<1> HIDE DEF upTo
<1>4. upTo[n] = h[n]
  BY <1>2, ReadingsAgree
<1> QED
  BY <1>3, <1>4

-----------------------------------------------------------------------------
(* Reading again.                                                          *)

Fields ==
  {"sender", "recipient", "token", "deposited", "withdrawn", "start_time", "end_time",
   "cliff_time", "cliff_mode", "cancellable", "pausable", "transferable", "paused_at",
   "paused_total", "status", "curve"}

Shaped(s) == s = [f \in Fields |-> s[f]]

LEMMA OpenedShaped ==
  ASSUME NEW e
  PROVE  Shaped(Opened(e))
BY DEF Opened, Shaped, Fields

LEMMA StreamShaped ==
  ASSUME NEW s \in Stream
  PROVE  Shaped(s)
BY DEF Stream, Shaped, Fields

(* An event carries a field or leaves it, whatever the record.             *)
LEMMA FoldedFieldwise ==
  ASSUME NEW e, e.kind \in RecordKinds, NEW s, Shaped(s), NEW u, Shaped(u)
  PROVE  /\ Shaped(Folded(s, e))
         /\ \A f \in Fields :
              \/ Folded(s, e)[f] = s[f] /\ Folded(u, e)[f] = u[f]
              \/ Folded(s, e)[f] = Folded(u, e)[f]
<1>1. CASE e.kind = "withdrawn"
  <2>1. ASSUME NEW v, Shaped(v)
        PROVE  Folded(v, e) =
                 [f \in Fields |->
                    IF f = "withdrawn" THEN e.withdrawn
                    ELSE IF f = "deposited" THEN e.deposited
                    ELSE IF f = "status" THEN e.status
                    ELSE IF f = "paused_at" THEN e.paused_at
                    ELSE IF f = "paused_total" THEN e.paused_total ELSE v[f]]
    <3>1. Folded(v, e) = FoldedWithdrawal(v, e)
      BY <1>1 DEF Folded
    <3>2. DOMAIN v = Fields
      BY <2>1 DEF Shaped
    <3> QED
      BY <3>1, <3>2 DEF FoldedWithdrawal
  <2> QED
    BY <2>1 DEF Shaped
<1>2. CASE e.kind = "cancelled"
  <2>1. ASSUME NEW v, Shaped(v)
        PROVE  Folded(v, e) =
                 [f \in Fields |->
                    IF f = "deposited" THEN e.vested
                    ELSE IF f = "withdrawn" THEN e.withdrawn
                    ELSE IF f = "end_time" THEN e.end_time
                    ELSE IF f = "status" THEN "Cancelled"
                    ELSE IF f = "paused_at" THEN e.paused_at
                    ELSE IF f = "paused_total" THEN e.paused_total ELSE v[f]]
    <3>1. Folded(v, e) = FoldedCancellation(v, e)
      BY <1>2 DEF Folded
    <3>2. DOMAIN v = Fields
      BY <2>1 DEF Shaped
    <3> QED
      BY <3>1, <3>2 DEF FoldedCancellation
  <2> QED
    BY <2>1 DEF Shaped
<1>3. CASE e.kind = "paused"
  <2>1. ASSUME NEW v, Shaped(v)
        PROVE  Folded(v, e) =
                 [f \in Fields |->
                    IF f = "paused_at" THEN e.paused_at
                    ELSE IF f = "paused_total" THEN e.paused_total
                    ELSE IF f = "status" THEN "Paused" ELSE v[f]]
    <3>1. DOMAIN v = Fields
      BY <2>1 DEF Shaped
    <3> QED
      BY <1>3, <3>1 DEF Folded
  <2> QED
    BY <2>1 DEF Shaped
<1>4. CASE e.kind = "resumed"
  <2>1. ASSUME NEW v, Shaped(v)
        PROVE  Folded(v, e) =
                 [f \in Fields |->
                    IF f = "paused_total" THEN e.paused_total
                    ELSE IF f = "paused_at" THEN None
                    ELSE IF f = "status" THEN "Active" ELSE v[f]]
    <3>1. DOMAIN v = Fields
      BY <2>1 DEF Shaped
    <3> QED
      BY <1>4, <3>1 DEF Folded
  <2> QED
    BY <2>1 DEF Shaped
<1>5. CASE e.kind = "topped_up"
  <2>1. ASSUME NEW v, Shaped(v)
        PROVE  Folded(v, e) =
                 [f \in Fields |->
                    IF f = "deposited" THEN e.deposited
                    ELSE IF f = "end_time" THEN e.end_time ELSE v[f]]
    <3>1. DOMAIN v = Fields
      BY <2>1 DEF Shaped
    <3> QED
      BY <1>5, <3>1 DEF Folded
  <2> QED
    BY <2>1 DEF Shaped
<1>6. CASE e.kind = "recipient_transferred"
  <2>1. ASSUME NEW v, Shaped(v)
        PROVE  Folded(v, e) =
                 [f \in Fields |->
                    IF f = "recipient" THEN e.recipient ELSE v[f]]
    <3>1. DOMAIN v = Fields
      BY <2>1 DEF Shaped
    <3> QED
      BY <1>6, <3>1 DEF Folded
  <2> QED
    BY <2>1 DEF Shaped
<1> QED
  BY <1>1, <1>2, <1>3, <1>4, <1>5, <1>6 DEF RecordKinds, LifecycleKinds

Announced(events) == {e.stream_id : e \in {x \in events : x.kind = "stream_created"}}

(* What an indexer that holds those of known holds of stream i.            *)
LEMMA FoldedStreamAt ==
  ASSUME NEW known, NEW events, Opening(events)
  PROVE  /\ FoldedStreams(known, events) =
              [i \in DOMAIN known \cup Announced(events) |-> FoldedStreams(known, events)[i]]
         /\ \A i \in DOMAIN known \cup Announced(events) :
              \/ /\ About(events, i) = {} /\ i \in DOMAIN known
                 /\ FoldedStreams(known, events)[i] = known[i]
              \/ \E e \in About(events, i) :
                   /\ e = CHOOSE x \in About(events, i) : TRUE
                   /\ \/ /\ e.kind = "stream_created"
                         /\ FoldedStreams(known, events)[i] = Opened(e)
                      \/ /\ e.kind \in RecordKinds /\ i \in DOMAIN known
                         /\ FoldedStreams(known, events)[i] = Folded(known[i], e)
<1> DEFINE F == FoldedStreams(known, events)
           chosen(i) == CHOOSE x \in About(events, i) : TRUE
<1>1. F = [i \in DOMAIN known \cup Announced(events) |->
             IF About(events, i) = {} THEN known[i]
             ELSE IF chosen(i).kind = "stream_created" THEN Opened(chosen(i))
                  ELSE Folded(known[i], chosen(i))]
  BY DEF FoldedStreams, Announced
<1> HIDE DEF F
<1>2. ASSUME NEW i \in DOMAIN known \cup Announced(events)
      PROVE  F[i] = IF About(events, i) = {} THEN known[i]
                    ELSE IF chosen(i).kind = "stream_created" THEN Opened(chosen(i))
                         ELSE Folded(known[i], chosen(i))
  BY <1>1
<1>3. ASSUME NEW i \in Announced(events)
      PROVE  About(events, i) # {} /\ chosen(i).kind = "stream_created"
  <2>1. PICK e \in events : e.kind = "stream_created" /\ e.stream_id = i
    BY DEF Announced
  <2>2. About(events, i) = {e}
    BY <2>1 DEF Opening
  <2>3. chosen(i) = e
    BY <2>2, TheOnly
  <2> QED
    BY <2>1, <2>2, <2>3
<1>4. \A i : About(events, i) # {} =>
              chosen(i) \in About(events, i) /\ chosen(i).kind \in LifecycleKinds
  <2> SUFFICES ASSUME NEW i, About(events, i) # {}
               PROVE  chosen(i) \in About(events, i) /\ chosen(i).kind \in LifecycleKinds
    OBVIOUS
  <2>1. chosen(i) \in About(events, i)
    OBVIOUS
  <2> QED
    BY <2>1 DEF About
<1>5. ASSUME NEW i \in DOMAIN known \cup Announced(events)
      PROVE  \/ /\ About(events, i) = {} /\ i \in DOMAIN known /\ F[i] = known[i]
             \/ \E e \in About(events, i) :
                  /\ e = chosen(i)
                  /\ \/ e.kind = "stream_created" /\ F[i] = Opened(e)
                     \/ /\ e.kind \in RecordKinds /\ i \in DOMAIN known
                        /\ F[i] = Folded(known[i], e)
  <2>1. CASE About(events, i) = {}
    BY <1>2, <1>3, <2>1
  <2>2. CASE About(events, i) # {}
    <3> DEFINE e == chosen(i)
    <3>1. e \in About(events, i) /\ e.kind \in LifecycleKinds
      BY <1>4, <2>2
    <3>2. F[i] = IF e.kind = "stream_created" THEN Opened(e) ELSE Folded(known[i], e)
      BY <1>2, <2>2
    <3>3. e.kind # "stream_created" => i \in DOMAIN known
      BY <1>3
    <3>4. e.kind # "stream_created" => e.kind \in RecordKinds
      BY <3>1 DEF RecordKinds
    <3>5. e = chosen(i)
      OBVIOUS
    <3> HIDE DEF e, chosen
    <3> QED
      BY <3>1, <3>2, <3>3, <3>4, <3>5
  <2> QED
    BY <2>1, <2>2
<1>6. F = [i \in DOMAIN known \cup Announced(events) |-> F[i]]
  BY <1>1
<1> QED
  BY <1>5, <1>6 DEF F

(* The same, of the one event that tells.                                  *)
LEMMA FoldedStreamIs ==
  ASSUME NEW known, NEW events, Opening(events),
         NEW i \in DOMAIN known \cup Announced(events)
  PROVE  LET e == CHOOSE x \in About(events, i) : TRUE
         IN  \/ /\ About(events, i) = {} /\ i \in DOMAIN known
                /\ FoldedStreams(known, events)[i] = known[i]
             \/ /\ About(events, i) # {}
                /\ \/ /\ e.kind = "stream_created"
                      /\ FoldedStreams(known, events)[i] = Opened(e)
                   \/ /\ e.kind \in RecordKinds /\ i \in DOMAIN known
                      /\ FoldedStreams(known, events)[i] = Folded(known[i], e)
<1> DEFINE e == CHOOSE x \in About(events, i) : TRUE
<1>1. CASE About(events, i) = {}
  BY <1>1, FoldedStreamAt
<1>2. CASE About(events, i) # {}
  <2>1. PICK x \in About(events, i) :
          /\ x = e
          /\ \/ /\ x.kind = "stream_created"
                /\ FoldedStreams(known, events)[i] = Opened(x)
             \/ /\ x.kind \in RecordKinds /\ i \in DOMAIN known
                /\ FoldedStreams(known, events)[i] = Folded(known[i], x)
    BY <1>2, FoldedStreamAt
  <2> HIDE DEF e
  <2>2. \/ e.kind = "stream_created" /\ FoldedStreams(known, events)[i] = Opened(e)
        \/ /\ e.kind \in RecordKinds /\ i \in DOMAIN known
           /\ FoldedStreams(known, events)[i] = Folded(known[i], e)
    BY <2>1
  <2> QED
    BY <1>2, <2>2 DEF e
<1> QED
  BY <1>1, <1>2

HeldStreams(known) ==
  /\ known = [i \in DOMAIN known |-> known[i]]
  /\ \A i \in DOMAIN known : Shaped(known[i])

LEMMA StreamsHeld ==
  ASSUME NEW known, HeldStreams(known), NEW events, Opening(events)
  PROVE  /\ HeldStreams(FoldedStreams(known, events))
         /\ DOMAIN FoldedStreams(known, events) = DOMAIN known \cup Announced(events)
<1> DEFINE F == FoldedStreams(known, events)
<1>1. F = [i \in DOMAIN known \cup Announced(events) |-> F[i]]
  BY FoldedStreamAt
<1>2. ASSUME NEW i \in DOMAIN known \cup Announced(events)
      PROVE  Shaped(F[i])
  <2>1. CASE i \in DOMAIN known /\ F[i] = known[i]
    BY <2>1 DEF HeldStreams
  <2>2. ASSUME NEW e, F[i] = Opened(e)
        PROVE  Shaped(F[i])
    BY <2>2, OpenedShaped
  <2>3. ASSUME NEW e, e.kind \in RecordKinds, i \in DOMAIN known, F[i] = Folded(known[i], e)
        PROVE  Shaped(F[i])
    <3>1. Shaped(known[i])
      BY <2>3 DEF HeldStreams
    <3>2. Shaped(Folded(known[i], e))
      BY <2>3, <3>1, FoldedFieldwise
    <3> QED
      BY <2>3, <3>2
  <2> HIDE DEF F
  <2> QED
    BY <2>1, <2>2, <2>3, FoldedStreamAt, Zenon DEF F
<1> HIDE DEF F
<1>3. DOMAIN F = DOMAIN known \cup Announced(events)
  BY <1>1
<1> QED
  BY <1>1, <1>2, <1>3 DEF HeldStreams, F

(* Field by field, s is what was or what will be.                          *)
RecordBetween(s, past, future) ==
  \A f \in Fields : s[f] = past[f] \/ s[f] = future[f]

(* Stream by stream, what is held is what was held or what will be; of a   *)
(* stream not yet known in the past, anything goes.                        *)
StreamsBetween(mine, past, future) ==
  /\ DOMAIN mine = DOMAIN future
  /\ DOMAIN past \subseteq DOMAIN future
  /\ \A i \in DOMAIN past : RecordBetween(mine[i], past[i], future[i])

LEMMA StreamsStayBetween ==
  ASSUME NEW mine, HeldStreams(mine), NEW past, HeldStreams(past), NEW future,
         StreamsBetween(mine, past, future), NEW events, Opening(events),
         DOMAIN past \cup Announced(events) \subseteq DOMAIN future
  PROVE  StreamsBetween(FoldedStreams(mine, events), FoldedStreams(past, events), future)
<1> DEFINE H == FoldedStreams(mine, events)
           P == FoldedStreams(past, events)
<1>1. /\ DOMAIN H = DOMAIN mine \cup Announced(events)
      /\ DOMAIN P = DOMAIN past \cup Announced(events)
  BY StreamsHeld
<1>2. /\ DOMAIN mine = DOMAIN future
      /\ \A i \in DOMAIN past : RecordBetween(mine[i], past[i], future[i])
  BY DEF StreamsBetween
<1>3. ASSUME NEW i \in DOMAIN past \cup Announced(events)
      PROVE  RecordBetween(H[i], P[i], future[i])
  <2> DEFINE e == CHOOSE x \in About(events, i) : TRUE
  <2>1. i \in DOMAIN mine
    BY <1>2
  <2>2. \/ About(events, i) = {} /\ i \in DOMAIN past /\ P[i] = past[i]
        \/ /\ About(events, i) # {}
           /\ \/ e.kind = "stream_created" /\ P[i] = Opened(e)
              \/ e.kind \in RecordKinds /\ i \in DOMAIN past /\ P[i] = Folded(past[i], e)
    BY FoldedStreamIs
  <2>3. \/ About(events, i) = {} /\ H[i] = mine[i]
        \/ /\ About(events, i) # {}
           /\ \/ e.kind = "stream_created" /\ H[i] = Opened(e)
              \/ e.kind \in RecordKinds /\ H[i] = Folded(mine[i], e)
    BY <2>1, FoldedStreamIs
  <2>4. "stream_created" \notin RecordKinds
    BY DEF RecordKinds
  <2> HIDE DEF H, P, e
  <2>5. CASE About(events, i) = {}
    <3>1. H[i] = mine[i] /\ P[i] = past[i] /\ i \in DOMAIN past
      BY <2>2, <2>3, <2>5
    <3> QED
      BY <1>2, <3>1
  <2>6. CASE About(events, i) # {} /\ e.kind = "stream_created"
    <3>1. H[i] = Opened(e) /\ P[i] = Opened(e)
      BY <2>2, <2>3, <2>4, <2>6
    <3> QED
      BY <3>1 DEF RecordBetween
  <2>7. CASE About(events, i) # {} /\ e.kind \in RecordKinds
    <3>1. H[i] = Folded(mine[i], e) /\ P[i] = Folded(past[i], e) /\ i \in DOMAIN past
      BY <2>2, <2>3, <2>4, <2>7
    <3>2. Shaped(mine[i]) /\ Shaped(past[i]) /\ RecordBetween(mine[i], past[i], future[i])
      BY <1>2, <2>1, <3>1 DEF HeldStreams
    <3>3. \A f \in Fields :
            \/ H[i][f] = mine[i][f] /\ P[i][f] = past[i][f]
            \/ H[i][f] = P[i][f]
      BY <2>7, <3>1, <3>2, FoldedFieldwise
    <3> QED
      BY <3>2, <3>3 DEF RecordBetween
  <2> QED
    BY <2>2, <2>5, <2>6, <2>7
<1> HIDE DEF H, P
<1>4. DOMAIN H = DOMAIN future /\ DOMAIN P \subseteq DOMAIN future
  BY <1>1, <1>2
<1> QED
  BY <1>1, <1>3, <1>4 DEF StreamsBetween, H, P

(* Between the same and the same there is nothing else.                    *)
LEMMA StreamsMeet ==
  ASSUME NEW mine, HeldStreams(mine), NEW future, HeldStreams(future),
         StreamsBetween(mine, future, future)
  PROVE  mine = future
<1>1. ASSUME NEW i \in DOMAIN future
      PROVE  mine[i] = future[i]
  <2>1. mine[i] = [f \in Fields |-> mine[i][f]] /\ future[i] = [f \in Fields |-> future[i][f]]
    BY DEF HeldStreams, StreamsBetween, Shaped
  <2>2. \A f \in Fields : mine[i][f] = future[i][f]
    BY DEF StreamsBetween, RecordBetween
  <2>3. [f \in Fields |-> mine[i][f]] = [f \in Fields |-> future[i][f]]
    BY <2>2
  <2> QED
    BY <2>1, <2>3
<1>2. mine = [i \in DOMAIN future |-> mine[i]] /\ future = [i \in DOMAIN future |-> future[i]]
  BY DEF HeldStreams, StreamsBetween
<1> QED
  BY <1>1, <1>2

(* The grants and the halt are told whole.                                 *)
GrantsBetween(mine, past, future) ==
  /\ DOMAIN mine = DOMAIN future /\ DOMAIN past = DOMAIN future
  /\ \A p \in DOMAIN future : mine[p] = past[p] \/ mine[p] = future[p]

HeldGrants(known) == known = [p \in DOMAIN known |-> known[p]]

LEMMA GrantsStayBetween ==
  ASSUME NEW mine, NEW past, NEW future, GrantsBetween(mine, past, future), NEW events
  PROVE  GrantsBetween(FoldedGrants(mine, events), FoldedGrants(past, events), future)
<1> DEFINE told(p) == LET e == CHOOSE e \in Granting(events, p) : TRUE
                      IN  IF e.kind = "delegate_granted"
                          THEN [ops |-> e.ops, expires_at |-> e.expires_at]
                          ELSE NoGrant
<1>1. ASSUME NEW known, NEW p \in DOMAIN known
      PROVE  FoldedGrants(known, events)[p] =
               IF Granting(events, p) = {} THEN known[p] ELSE told(p)
  BY DEF FoldedGrants
<1>2. \A known : DOMAIN FoldedGrants(known, events) = DOMAIN known
  BY DEF FoldedGrants
<1>3. ASSUME NEW p \in DOMAIN future
      PROVE  \/ FoldedGrants(mine, events)[p] = FoldedGrants(past, events)[p]
             \/ FoldedGrants(mine, events)[p] = future[p]
  <2>1. p \in DOMAIN mine /\ p \in DOMAIN past /\ (mine[p] = past[p] \/ mine[p] = future[p])
    BY DEF GrantsBetween
  <2> HIDE DEF told
  <2>2. /\ FoldedGrants(mine, events)[p] =
             IF Granting(events, p) = {} THEN mine[p] ELSE told(p)
        /\ FoldedGrants(past, events)[p] =
             IF Granting(events, p) = {} THEN past[p] ELSE told(p)
    BY <1>1, <2>1
  <2> QED
    BY <2>1, <2>2
<1> QED
  BY <1>2, <1>3 DEF GrantsBetween

LEMMA GrantsMeet ==
  ASSUME NEW mine, HeldGrants(mine), NEW future, HeldGrants(future),
         GrantsBetween(mine, future, future)
  PROVE  mine = future
BY DEF HeldGrants, GrantsBetween

LEMMA HaltStaysBetween ==
  ASSUME NEW mine, NEW past, NEW future, mine = past \/ mine = future, NEW events
  PROVE  \/ FoldedHalt(mine, events) = FoldedHalt(past, events)
         \/ FoldedHalt(mine, events) = future
BY DEF FoldedHalt

-----------------------------------------------------------------------------
(* Everything an indexer keeps.                                            *)
Held(known) ==
  /\ known = [streams |-> known.streams, grants |-> known.grants,
              halted_at |-> known.halted_at]
  /\ HeldStreams(known.streams)
  /\ HeldGrants(known.grants)

Between(mine, past, future) ==
  /\ StreamsBetween(mine.streams, past.streams, future.streams)
  /\ GrantsBetween(mine.grants, past.grants, future.grants)
  /\ mine.halted_at = past.halted_at \/ mine.halted_at = future.halted_at

LEMMA CaughtFields ==
  ASSUME NEW known, NEW events
  PROVE  /\ Caught(known, events).streams = FoldedStreams(known.streams, events)
         /\ Caught(known, events).grants = FoldedGrants(known.grants, events)
         /\ Caught(known, events).halted_at = FoldedHalt(known.halted_at, events)
BY DEF Caught

LEMMA CaughtHeld ==
  ASSUME NEW known, Held(known), NEW events, Opening(events)
  PROVE  /\ Held(Caught(known, events))
         /\ DOMAIN Caught(known, events).streams =
              DOMAIN known.streams \cup Announced(events)
         /\ DOMAIN Caught(known, events).grants = DOMAIN known.grants
<1>1. /\ HeldStreams(FoldedStreams(known.streams, events))
      /\ DOMAIN FoldedStreams(known.streams, events) =
           DOMAIN known.streams \cup Announced(events)
  BY StreamsHeld DEF Held
<1>2. /\ HeldGrants(FoldedGrants(known.grants, events))
      /\ DOMAIN FoldedGrants(known.grants, events) = DOMAIN known.grants
  BY DEF HeldGrants, FoldedGrants
<1> QED
  BY <1>1, <1>2 DEF Held, Caught

LEMMA CaughtStaysBetween ==
  ASSUME NEW mine, Held(mine), NEW past, Held(past), NEW future,
         Between(mine, past, future), NEW events, Opening(events),
         DOMAIN Caught(past, events).streams \subseteq DOMAIN future.streams
  PROVE  Between(Caught(mine, events), Caught(past, events), future)
<1>1. DOMAIN past.streams \cup Announced(events) \subseteq DOMAIN future.streams
  BY CaughtHeld
<1>2. StreamsBetween(FoldedStreams(mine.streams, events),
                     FoldedStreams(past.streams, events), future.streams)
  BY <1>1, StreamsStayBetween DEF Held, Between
<1>3. GrantsBetween(FoldedGrants(mine.grants, events),
                    FoldedGrants(past.grants, events), future.grants)
  BY GrantsStayBetween DEF Between
<1>4. \/ FoldedHalt(mine.halted_at, events) = FoldedHalt(past.halted_at, events)
      \/ FoldedHalt(mine.halted_at, events) = future.halted_at
  BY HaltStaysBetween DEF Between
<1> QED
  BY <1>2, <1>3, <1>4, CaughtFields DEF Between

LEMMA Meet ==
  ASSUME NEW mine, Held(mine), NEW future, Held(future), Between(mine, future, future)
  PROVE  mine = future
<1>1. /\ mine.streams = future.streams
      /\ mine.grants = future.grants
      /\ mine.halted_at = future.halted_at
  BY StreamsMeet, GrantsMeet DEF Held, Between
<1> QED
  BY <1>1 DEF Held

(* Reading keeps what is held in shape, and forgets no stream.             *)
LEMMA ReadingsHeld ==
  ASSUME NEW g, NEW m, NEW J, NEW N \in Nat, Readings(g, m, J, N), Held(m),
         \A k \in 1 .. N : Opening(J[k])
  PROVE  /\ \A k \in 0 .. N : Held(g[k]) /\ DOMAIN g[k].grants = DOMAIN m.grants
         /\ \A j \in 0 .. N : \A k \in 0 .. j : DOMAIN g[k].streams \subseteq DOMAIN g[j].streams
<1> DEFINE Good(j) ==
             /\ Held(g[j]) /\ DOMAIN g[j].grants = DOMAIN m.grants
             /\ \A k \in 0 .. j : DOMAIN g[k].streams \subseteq DOMAIN g[j].streams
           S == {j \in Nat : j <= N => Good(j)}
<1>1. /\ g[0] = m
      /\ \A k \in 0 .. N - 1 : g[k + 1] = Caught(g[k], J[k + 1])
  BY ReadingsStep
<1>2. 0 \in S
  BY <1>1
<1>3. ASSUME NEW j \in Nat, j \in S
      PROVE  j + 1 \in S
  <2>1. SUFFICES ASSUME j + 1 <= N
                 PROVE  Good(j + 1)
    OBVIOUS
  <2>2. /\ Good(j) /\ j + 1 \in 1 .. N /\ g[j + 1] = Caught(g[j], J[j + 1])
    BY <1>1, <1>3, <2>1
  <2>3. /\ Held(g[j + 1]) /\ DOMAIN g[j + 1].grants = DOMAIN m.grants
        /\ DOMAIN g[j].streams \subseteq DOMAIN g[j + 1].streams
    BY <2>2, CaughtHeld
  <2>4. ASSUME NEW k \in 0 .. j + 1
        PROVE  DOMAIN g[k].streams \subseteq DOMAIN g[j + 1].streams
    <3>1. CASE k = j + 1
      BY <3>1
    <3>2. CASE k \in 0 .. j
      BY <2>2, <2>3, <3>2
    <3> QED
      BY <3>1, <3>2
  <2> QED
    BY <2>3, <2>4
<1> HIDE DEF S
<1>4. Nat \subseteq S
  BY <1>2, <1>3, NatSetInduction
<1>5. \A j \in 0 .. N : Good(j)
  BY <1>4 DEF S
<1> QED
  BY <1>5

(* Served again from the start, an indexer that had read as far as n is,   *)
(* once more at n, where it was; and ends where it would have ended.       *)
LEMMA ReadingAgain ==
  ASSUME NEW g, NEW m, NEW J, NEW N \in Nat, Readings(g, m, J, N), Held(m),
         \A k \in 1 .. N : Opening(J[k]),
         NEW n \in 0 .. N, NEW h, Readings(h, g[n], J, N)
  PROVE  h[N] = g[N]
<1>1. /\ g[0] = m /\ h[0] = g[n]
      /\ \A k \in 0 .. N - 1 : g[k + 1] = Caught(g[k], J[k + 1])
      /\ \A k \in 0 .. N - 1 : h[k + 1] = Caught(h[k], J[k + 1])
  BY ReadingsStep
<1>2. /\ \A k \in 0 .. N : Held(g[k]) /\ DOMAIN g[k].grants = DOMAIN m.grants
      /\ \A k \in 0 .. n : DOMAIN g[k].streams \subseteq DOMAIN g[n].streams
  BY ReadingsHeld
<1>3. \A k \in 0 .. N : Held(h[k])
  BY <1>2, ReadingsHeld
<1> DEFINE S == {k \in Nat : k <= n => Between(h[k], g[k], g[n])}
<1>4. 0 \in S
  <2>1. StreamsBetween(g[n].streams, g[0].streams, g[n].streams)
    BY <1>2 DEF StreamsBetween, RecordBetween
  <2>2. GrantsBetween(g[n].grants, g[0].grants, g[n].grants)
    BY <1>2 DEF GrantsBetween
  <2> QED
    BY <1>1, <2>1, <2>2 DEF Between
<1>5. ASSUME NEW k \in Nat, k \in S
      PROVE  k + 1 \in S
  <2>1. SUFFICES ASSUME k + 1 <= n
                 PROVE  Between(h[k + 1], g[k + 1], g[n])
    OBVIOUS
  <2>2. /\ k \in 0 .. N - 1 /\ k \in 0 .. N /\ k + 1 \in 1 .. N /\ k + 1 \in 0 .. n
        /\ Between(h[k], g[k], g[n])
    BY <1>5, <2>1
  <2>3. /\ Held(h[k]) /\ Held(g[k]) /\ Opening(J[k + 1])
        /\ DOMAIN Caught(g[k], J[k + 1]).streams \subseteq DOMAIN g[n].streams
    BY <1>1, <1>2, <1>3, <2>2
  <2>4. Between(Caught(h[k], J[k + 1]), Caught(g[k], J[k + 1]), g[n])
    BY <2>2, <2>3, CaughtStaysBetween
  <2> QED
    BY <1>1, <2>2, <2>4
<1> HIDE DEF S
<1>6. Nat \subseteq S
  BY <1>4, <1>5, NatSetInduction
<1>7. h[n] = g[n]
  <2>1. Between(h[n], g[n], g[n])
    BY <1>6 DEF S
  <2>2. Held(h[n]) /\ Held(g[n])
    BY <1>2, <1>3
  <2> QED
    BY <2>1, <2>2, Meet
<1> DEFINE T == {k \in Nat : n <= k /\ k <= N => h[k] = g[k]}
<1>8. 0 \in T
  BY <1>7
<1>9. ASSUME NEW k \in Nat, k \in T
      PROVE  k + 1 \in T
  <2>1. SUFFICES ASSUME n <= k + 1, k + 1 <= N
                 PROVE  h[k + 1] = g[k + 1]
    OBVIOUS
  <2>2. CASE n = k + 1
    BY <1>7, <2>2
  <2>3. CASE n <= k
    <3>1. k \in 0 .. N - 1 /\ h[k] = g[k]
      BY <1>9, <2>1, <2>3
    <3> QED
      BY <1>1, <3>1
  <2> QED
    BY <2>1, <2>2, <2>3
<1> HIDE DEF T
<1>10. Nat \subseteq T
  BY <1>8, <1>9, NatSetInduction
<1> QED
  BY <1>10 DEF T

-----------------------------------------------------------------------------
(* The indexer and the contract.                                           *)

(* What is known of an indexer wherever it stands.                         *)
Following ==
  /\ JournalTyped
  /\ \A k \in 1 .. Len(journal) : Opening(journal[k])
  /\ Held(mirror)
  /\ IndexerCatchesUp

LEMMA StoredHeld ==
  ASSUME IInv
  PROVE  Held(Stored)
<1>1. HeldStreams(streams)
  BY IInvParts, StreamParties, StreamShaped DEF HeldStreams
<1>2. HeldGrants(grants)
  BY IInvParts DEF OthersTyped, HeldGrants
<1> QED
  BY <1>1, <1>2 DEF Held, Stored

LEMMA NothingCaught ==
  ASSUME NEW known, Held(known)
  PROVE  Caught(known, {}) = known
<1>1. \A i : About({}, i) = {} /\ Granting({}, i) = {}
  BY DEF About, Granting
<1>2. FoldedStreams(known.streams, {}) = known.streams
  <2>1. {e.stream_id : e \in {x \in {} : x.kind = "stream_created"}} = {}
    OBVIOUS
  <2>2. FoldedStreams(known.streams, {}) =
          [i \in DOMAIN known.streams |-> known.streams[i]]
    BY <1>1, <2>1 DEF FoldedStreams
  <2> QED
    BY <2>2 DEF Held, HeldStreams
<1>3. FoldedGrants(known.grants, {}) = known.grants
  <2>1. FoldedGrants(known.grants, {}) = [p \in DOMAIN known.grants |-> known.grants[p]]
    BY <1>1 DEF FoldedGrants
  <2> QED
    BY <2>1 DEF Held, HeldGrants
<1>4. FoldedHalt(known.halted_at, {}) = known.halted_at
  BY DEF FoldedHalt
<1> QED
  BY <1>2, <1>3, <1>4 DEF Held, Caught

(* Nothing left to read.                                                   *)
LEMMA NothingLeft ==
  ASSUME NEW m
  PROVE  CaughtUp(m, <<>>) = m
<1>1. PICK h : Readings(h, m, <<>>, 0)
  BY ReadingsExist
<1>2. CaughtUp(m, <<>>) = h[0]
  BY <1>1, CaughtUpIsLast
<1> QED
  BY <1>1, <1>2, ReadingsStep

LEMMA StartFollowing ==
  ASSUME EventsInit
  PROVE  Following
<1>1. IInv /\ journal = <<>> /\ mirror = Stored
  BY EventsInitTyped DEF EventsInit, PInv
<1>2. Held(mirror) /\ IndexerCatchesUp
  BY <1>1, StoredHeld, NothingLeft DEF IndexerCatchesUp
<1> QED
  BY <1>1, <1>2, EventsInitTyped DEF Following

(* A call leaves one more list of events to read, or none.                 *)
LEMMA CallFollowed ==
  ASSUME IInv, Following, NEW events, Tells(events), Publish(events)
  PROVE  Following'
<1> DEFINE N == Len(journal)
<1>1. /\ JournalTyped /\ Held(mirror) /\ CaughtUp(mirror, journal) = Stored
      /\ \A k \in 1 .. N : Opening(journal[k])
      /\ N \in Nat
  BY JournalIsList DEF Following, IndexerCatchesUp
<1>2. Stored' = Caught(Stored, events) /\ Opening(events)
  BY DEF Tells, Stored, Caught
<1>3. JournalTyped' /\ mirror' = mirror
  BY <1>1, PublishedSeen
<1>4. CASE journal' = journal /\ events = {}
  <2>1. Stored' = Stored
    BY <1>2, <1>4, StoredHeld, NothingCaught
  <2> QED
    BY <1>1, <1>3, <1>4, <2>1 DEF Following, IndexerCatchesUp
<1>5. CASE journal' = Append(journal, events)
  <2>1. /\ Len(journal') = N + 1 /\ journal'[N + 1] = events
        /\ \A k \in 1 .. N : journal'[k] = journal[k]
    BY <1>1, <1>5, JournalGrows
  <2>2. PICK h : Readings(h, mirror, journal', N + 1)
    BY <1>1, ReadingsExist
  <2>3. CaughtUp(mirror, journal) = h[N]
    BY <1>1, <2>1, <2>2, CaughtUpIsLast
  <2>4. CaughtUp(mirror, journal') = h[N + 1]
    BY <1>1, <2>1, <2>2, CaughtUpIsLast
  <2>5. h[N + 1] = Caught(h[N], events)
    <3>1. \A k \in 0 .. (N + 1) - 1 : h[k + 1] = Caught(h[k], journal'[k + 1])
      BY <1>1, <2>2, ReadingsStep
    <3>2. N \in 0 .. (N + 1) - 1
      BY <1>1
    <3> QED
      BY <2>1, <3>1, <3>2
  <2>6. CaughtUp(mirror', journal') = Stored'
    BY <1>1, <1>2, <1>3, <2>3, <2>4, <2>5
  <2>7. ASSUME NEW k \in 1 .. N + 1
        PROVE  Opening(journal'[k])
    <3>1. k \in 1 .. N \/ k = N + 1
      BY <1>1
    <3> QED
      BY <1>1, <1>2, <2>1, <3>1
  <2> QED
    BY <1>1, <1>3, <2>1, <2>6, <2>7 DEF Following, IndexerCatchesUp, Opening
<1> QED
  BY <1>1, <1>4, <1>5, PublishedSeen

(* The first n of the calls.                                               *)
LEMMA FirstCalls ==
  ASSUME JournalTyped, NEW n \in 1 .. Len(journal)
  PROVE  /\ Len(SubSeq(journal, 1, n)) = n
         /\ \A k \in 1 .. n : SubSeq(journal, 1, n)[k] = journal[k]
<1> DEFINE S == {journal[k] : k \in DOMAIN journal}
<1>1. journal \in Seq(S)
  BY DEF JournalTyped
<1> HIDE DEF S
<1> QED
  BY <1>1, SubSeqProperties

(* What is stored twice is not counted twice.                              *)
LEMMA ReadingFollowed ==
  ASSUME IInv, Following, ReadUnsaved
  PROVE  Following'
<1> DEFINE N == Len(journal)
<1>1. PICK n \in 1 .. N : mirror' = CaughtUp(mirror, SubSeq(journal, 1, n))
  BY DEF ReadUnsaved
<1>2. journal' = journal /\ Stored' = Stored
  BY DEF ReadUnsaved, vars, Stored
<1>3. /\ JournalTyped /\ Held(mirror) /\ CaughtUp(mirror, journal) = Stored
      /\ \A k \in 1 .. N : Opening(journal[k])
      /\ N \in Nat
  BY JournalIsList DEF Following, IndexerCatchesUp
<1>4. PICK g : Readings(g, mirror, journal, N)
  BY <1>3, ReadingsExist
<1>5. CaughtUp(mirror, journal) = g[N]
  BY <1>3, <1>4, CaughtUpIsLast
<1>6. mirror' = g[n]
  <2>1. /\ Len(SubSeq(journal, 1, n)) = n
        /\ \A k \in 1 .. n : SubSeq(journal, 1, n)[k] = journal[k]
    BY <1>3, FirstCalls
  <2>2. n \in Nat /\ n <= N
    BY <1>3
  <2> QED
    BY <1>1, <1>3, <1>4, <2>1, <2>2, CaughtUpIsLast
<1>7. PICK h : Readings(h, g[n], journal, N)
  BY <1>3, ReadingsExist
<1>8. n \in 0 .. N
  BY <1>3
<1>9. h[N] = g[N]
  BY <1>3, <1>4, <1>7, <1>8, ReadingAgain
<1>10. CaughtUp(g[n], journal) = h[N]
  BY <1>3, <1>7, CaughtUpIsLast
<1>11. Held(g[n])
  BY <1>3, <1>4, <1>8, ReadingsHeld
<1>12. CaughtUp(mirror', journal') = Stored'
  BY <1>2, <1>3, <1>5, <1>6, <1>9, <1>10
<1>13. JournalTyped'
  BY <1>2, <1>3 DEF JournalTyped
<1> QED
  BY <1>2, <1>3, <1>6, <1>11, <1>12, <1>13 DEF Following, IndexerCatchesUp

LEMMA SavingFollowed ==
  ASSUME IInv, Following, ReadSaved
  PROVE  Following'
<1>1. /\ mirror' = Stored /\ journal' = <<>> /\ Stored' = Stored
  BY DEF ReadSaved, Following, IndexerCatchesUp, vars, Stored
<1>2. CaughtUp(mirror', journal') = Stored'
  BY <1>1, NothingLeft
<1>3. Held(mirror')
  BY <1>1, StoredHeld
<1>4. JournalTyped' /\ Len(journal') = 0
  BY <1>1 DEF JournalTyped
<1> QED
  BY <1>2, <1>3, <1>4 DEF Following, IndexerCatchesUp

LEMMA StepFollowed ==
  ASSUME IInv, Following, [EventsNext]_eventsVars
  PROVE  Following'
<1>1. CASE Calls
  <2>1. Next
    BY <1>1, CallsAreNext
  <2>2. IInv'
    BY <2>1, NextIInv
  <2>3. Told
    BY <1>1, <2>2, CallsTold
  <2> QED
    BY <2>3, CallFollowed DEF Told
<1>2. CASE UNCHANGED eventsVars
  BY <1>2 DEF eventsVars, indexer, vars, Following, JournalTyped, IndexerCatchesUp, Stored
<1> QED
  BY <1>1, <1>2, StepsAreCalls, ReadingFollowed, SavingFollowed

(* "These events are the only way an indexer learns": wherever it stands,  *)
(* and whatever it was served twice, what is left to read brings it to     *)
(* what the contract holds.                                                *)
THEOREM IndexersCatchUp == EventsSpec => []IndexerCatchesUp
<1>1. EventsInit => Following
  BY StartFollowing
<1>2. PInv /\ Following /\ [EventsNext]_eventsVars => Following'
  BY StepFollowed DEF PInv
<1>3. Following => IndexerCatchesUp
  BY DEF Following
<1> QED
  BY <1>1, <1>2, <1>3, EventsInvariance, PTL DEF EventsSpec

(* So an indexer can audit what the contract cannot: PooledBalance is at   *)
(* all times the sum of what is owed by the streams an indexer that reads  *)
(* on will know, however far behind it is and whatever it reads twice.     *)
THEOREM IndexersCanAuditThePool ==
  EventsSpec =>
    [](\A t \in Tokens :
         pooled[t] = ClaimsOf(CaughtUp(mirror, journal).streams, nextId, t))
<1>1. PInv /\ IndexerCatchesUp =>
        \A t \in Tokens :
          pooled[t] = ClaimsOf(CaughtUp(mirror, journal).streams, nextId, t)
  <2> SUFFICES ASSUME PInv, IndexerCatchesUp, NEW t \in Tokens
               PROVE  pooled[t] = ClaimsOf(CaughtUp(mirror, journal).streams, nextId, t)
    OBVIOUS
  <2>1. CaughtUp(mirror, journal).streams = streams
    BY DEF IndexerCatchesUp, Stored
  <2>2. pooled[t] = ClaimsOf(streams, nextId, t)
    BY PInvParts
  <2> QED
    BY <2>1, <2>2
<1>2. EventsSpec => []PInv
  BY WatchedContractIsTheContract, Invariance, PoolIsExact, PTL DEF PInv
<1> QED
  BY <1>1, <1>2, IndexersCatchUp, PTL

=============================================================================
