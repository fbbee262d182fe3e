----------------------------- MODULE FluxoraRent -----------------------------
(***************************************************************************)
(* The life of the stream contract's ledger entries.  Every call of        *)
(* FluxoraStream, with the entries it extends (contracts/stream/src/       *)
(* storage.rs), the two permissionless extensions, and ledgers that close  *)
(* after a varying number of seconds.                                      *)
(*                                                                         *)
(* An entry is live up to and including the ledger noted for it.  The      *)
(* network restores an archived entry, with its minimum life, when an      *)
(* invocation touches it (docs/KNOWN-LIMITATIONS.md, section 1).           *)
(***************************************************************************)
EXTENDS FluxoraStream, StreamStorage

CONSTANTS
  MinPersistentTtl,  \* the network's life of an entry just written or restored
  CloseTimes         \* seconds from one ledger to the next

ASSUME RentAssumption ==
  /\ MinPersistentTtl \in Nat \ {0} /\ MinPersistentTtl <= MaxTtl
  /\ CloseTimes \subseteq Nat \ {0}
  /\ \A seconds \in CloseTimes : WithinMargin(seconds)

VARIABLES
  ledger,        \* the ledger sequence number
  live,          \* per stream, the last live ledger of each of its entries
  instanceLive,  \* the same for the instance: id counter, pool totals, halt
  touched        \* history: the ledger in which a stream was last extended

rent == <<ledger, live, instanceLive, touched>>
rentVars == <<vars, rent>>

RentInit ==
  /\ Init
  /\ ledger = 0
  /\ live = [i \in {} |-> {}]
  /\ instanceLive = MinPersistentTtl - 1
  /\ touched = [i \in {} |-> 0]

-----------------------------------------------------------------------------
Restored(until) == IF until < ledger THEN ledger + MinPersistentTtl - 1 ELSE until

(* extend_ttl, its threshold equal to its target: never shortens a life.   *)
Prolonged(until, target) == Greatest(Restored(until), ledger + target)

(* Mutant: the side entries are left to their own.                         *)
ProlongedRecordOnly(entries, target) ==
  [k \in DOMAIN entries |->
     IF k = "Stream" THEN Prolonged(entries[k], target) ELSE Restored(entries[k])]

(* extend_stream: the record and its side entries alike.                   *)
ProlongedEntries(entries, target) ==
  [k \in DOMAIN entries |-> Prolonged(entries[k], target)]

(* Streams ids are extended, to the target of their record before the call *)
(* (load_stream) or after it (save_stream) or both.                        *)
Extend(ids, target) ==
  /\ live' = [i \in 0 .. nextId' - 1 |->
                IF i >= nextId
                THEN [k \in Keys(streams'[i]) |-> Prolonged(-1, target[i])]
                ELSE IF i \in ids THEN ProlongedEntries(live[i], target[i])
                ELSE live[i]]
  /\ touched' = [i \in 0 .. nextId' - 1 |->
                   IF i >= nextId \/ i \in ids THEN ledger ELSE touched[i]]

Before == [i \in Ids |-> TtlTarget(streams[i], now)]
After == [i \in Ids' |-> TtlTarget(streams'[i], now)]
Either == [i \in Ids |-> Greatest(Before[i], After[i])]

(* Mutant: a call extends for the stream it found, not for the one it      *)
(* leaves.                                                                 *)
LoadOnlySave(i) == Extend({i}, Before)

Load(i) == Extend({i}, Before)
LoadSave(i) == Extend({i}, Either)

(* extend_instance, or a call that reads the instance without it.          *)
ExtendInstance == instanceLive' = ledger + MaxTtl
ReadInstance == instanceLive' = Restored(instanceLive)

-----------------------------------------------------------------------------
(* The calls, grouped by what they extend.                                 *)

Creation ==
  /\ \/ \E req \in CreateRequests :
          \/ CreateStreamWithCliffMode(req)
          \/ CreateStreamWithCurve(req)
          \/ \E answer \in FactoryAnswers : CreateStreamViaFactory(req, answer)
     \/ \E reqs \in Batches(CreateRequests) : BatchCreate(reqs)
  /\ Extend({}, After)
  /\ ExtendInstance
  /\ UNCHANGED ledger

(* Calls that move the pool, and so extend the instance.                   *)
Payment(i) ==
  /\ \/ \E payout \in 1 .. Withdrawable(streams[i], now) :
          \/ Withdraw(i, payout)
          \/ \E d \in Delegates : DelegateWithdraw(i, d, payout)
     \/ \E amount \in TopUpAmounts :
          \/ TopUp(i, amount)
          \/ \E d \in Delegates : DelegateTopUp(i, d, amount)
  /\ LoadSave(i)
  /\ ExtendInstance
  /\ UNCHANGED ledger

(* The instance is extended only when there is a refund.                   *)
Settlement(i) ==
  /\ Cancel(i) \/ \E d \in Delegates : DelegateCancel(i, d)
  /\ LoadSave(i)
  /\ IF Refundable(streams[i], now) > 0 THEN ExtendInstance ELSE ReadInstance
  /\ UNCHANGED ledger

(* Calls that move no money leave the instance alone.                      *)
QuietCall(i) ==
  /\ \/ Pause(i) \/ Resume(i) \/ ReclaimDust(i)
     \/ \E to \in Accounts : TransferRecipient(i, to)
     \/ \E d \in Delegates :
          \/ DelegatePause(i, d) \/ DelegateResume(i, d)
          \/ \E to \in Accounts : DelegateTransferRecipient(i, d, to)
  /\ LoadSave(i)
  /\ ReadInstance
  /\ UNCHANGED ledger

(* reclaim_dust of a live stream answers zero, and grant_delegate of no    *)
(* operation succeeds: both have loaded the stream.                        *)
IdleCall(i) ==
  /\ ~ Terminal(streams[i])
  /\ signers' = {streams[i].sender}
  /\ UNCHANGED <<now, streams, nextId, funds, grants, halting>>
  /\ Load(i)
  /\ ReadInstance
  /\ UNCHANGED ledger

(* Grants and revocations load the stream; a grant's own entry is left out. *)
Delegating(i, d) ==
  /\ \/ \E ops \in GrantOps, expires_at \in Expiries : GrantDelegate(i, d, ops, expires_at)
     \/ \E grantor \in Accounts : RevokeDelegate(i, grantor, d)
  /\ Load(i)
  /\ ReadInstance
  /\ UNCHANGED ledger

(* The batches read without extending, and save what they change;          *)
(* batch_withdraw extends a stream it has nothing to pay as it found it.   *)
BatchCall(a, ids) ==
  LET named  == {ids[k] : k \in DOMAIN ids}
      paying == {i \in named : Withdrawable(streams[i], now) > 0}
      owing  == {i \in named : Refundable(streams[i], now) > 0}
  IN  /\ \/ BatchWithdraw(a, ids) /\ IF paying # {} THEN ExtendInstance ELSE ReadInstance
         \/ BatchCancel(a, ids) /\ IF owing # {} THEN ExtendInstance ELSE ReadInstance
      /\ Extend(named, After)
      /\ UNCHANGED ledger

(* extend_stream_ttl and batch_extend_ttl: anybody may call them, for      *)
(* streams that have not ended; ids the contract does not know are skipped. *)
ExtendTtl(ids) ==
  /\ NotHalted
  /\ \A i \in ids : ~ Terminal(streams[i])
  /\ signers' = {}
  /\ UNCHANGED <<now, streams, nextId, funds, grants, halting>>
  /\ Extend(ids, Before)
  /\ ExtendInstance
  /\ UNCHANGED ledger

Halting ==
  /\ Halt \/ ResumeContract \/ \E a \in HaltOperators : SetHaltOperator(a)
  /\ ExtendInstance
  /\ UNCHANGED <<ledger, live, touched>>

(* A ledger closes.                                                        *)
Close(seconds) ==
  /\ now + seconds <= MaxTime
  /\ now' = now + seconds
  /\ ledger' = ledger + 1
  /\ signers' = {}
  /\ UNCHANGED <<streams, nextId, funds, grants, halting>>
  /\ UNCHANGED <<live, instanceLive, touched>>

RentNext ==
  \/ Creation
  \/ \E i \in Ids : Payment(i) \/ Settlement(i) \/ QuietCall(i) \/ IdleCall(i)
  \/ \E i \in Ids, d \in Delegates : Delegating(i, d)
  \/ \E a \in Accounts, ids \in Batches(Ids) : BatchCall(a, ids)
  \/ \E ids \in SUBSET Ids : Cardinality(ids) <= MAX_BATCH_SIZE /\ ExtendTtl(ids)
  \/ Halting
  \/ \E seconds \in CloseTimes : Close(seconds)

RentSpec == RentInit /\ [][RentNext]_rentVars

-----------------------------------------------------------------------------
(* However calls have moved a running stream's end (a top-up, a pause that *)
(* ended, a transfer in between), and however the ledgers close within the *)
(* margin, its entries live to its end and a buffer beyond, or for the     *)
(* network's maximum since the last call that touched it: a stream does    *)
(* not archive while its recipient still earns (storage.rs,                *)
(* TTL_SAFETY_MARGIN_PERCENT and ttl_target_ledgers).                      *)
RunningStreamsStayFunded ==
  \A i \in Ids :
    LET s    == streams[i]
        left == EffectiveEnd(s, now) + TTL_BUFFER_SECONDS - now
    IN  s.status = "Active" /\ left > 0 =>
          \A k \in Keys(s), seconds \in CloseTimes :
            \/ (live[i][k] - ledger) * seconds >= left
            \/ live[i][k] >= touched[i] + MaxTtl

(* The record and the side entry of one stream live and archive together,  *)
(* whichever calls extend them: extend_stream names all of them.           *)
SideEntriesLiveAsLong ==
  \A i \in Ids : \A k \in Keys(streams[i]) : live[i][k] = live[i]["Stream"]

(* What save_stream writes into the frozen first layout and its side       *)
(* entries, read_stream reads back as it was: no stream the contract can   *)
(* reach, whatever its curve, its cliff mode and what calls have done to   *)
(* it, changes by being stored (types.rs, StreamRecord).                   *)
StoredStreamsReadBack == \A i \in Ids : Read(Saved(streams[i])) = streams[i]

(* storage.rs, "Ordering guarantee": the id counter must never expire      *)
(* before the streams it issued; "the instance entry is always at least as *)
(* fresh as any stream".                                                   *)
InstanceOutlivesStreams == \A i \in Ids : live[i]["Stream"] <= instanceLive
=============================================================================
